------------------------ MODULE FormationBooks_proofs -------------------------
(***************************************************************************)
(* Theorems about FormationBooks, for every set of names and runs and      *)
(* every MAX_ATTEMPTS: the types, and, under the assumptions the constants *)
(* name, that the finished flag never strands a batch, that maps only      *)
(* advance and that the ledger recomputes.                                 *)
(***************************************************************************)
EXTENDS FormationBooks, WellFoundedInduction, TLAPS

USE DEF witness, flags, running, queueing, books

-------------------------------------------------------------------------------
(* The first of a set of names.                                            *)
LEMMA MinOfNames ==
  ASSUME NEW S, S \subseteq Nat, S # {}
  PROVE  FX!Min(S) \in S
<1> DEFINE R == OpToRel(<, Nat)
<1>1. PICK x \in S : \A y \in S : ~(<<y, x>> \in R)
  <2>1. IsWellFoundedOn(R, Nat)
    BY NatLessThanWellFounded
  <2> HIDE DEF R
  <2> QED BY <2>1, WFMin
<1>2. ASSUME NEW y \in S PROVE x =< y
  <2>1. x \in Nat /\ y \in Nat
    OBVIOUS
  <2>2. ~(y < x)
    BY <1>1, <2>1 DEF OpToRel
  <2> QED BY <2>1, <2>2
<1>3. \E z \in S : \A y \in S : z =< y
  BY <1>2
<1> QED BY <1>3 DEF FX!Min

LEMMA TurnsRunnable ==
  ASSUME Turns # {}
  PROVE  FX!Min(Turns) \in Turns
BY MinOfNames, FormationAssumption DEF Turns, Runnable

LEMMA ToBuildFirst ==
  ASSUME NEW m, ToBuild(m) # {}
  PROVE  FX!Min(ToBuild(m)) \in ToBuild(m)
BY MinOfNames, FormationAssumption DEF ToBuild

-------------------------------------------------------------------------------
(* Type correctness.  A name that may run has an attempt left, a re-queue  *)
(* that is to move a map has one to move, and a monthly run past its start *)
(* has a booked run.                                                       *)
Tried(m) ==
  m # NoMap => \A n \in Name :
    /\ m.state[n] \in {"to_run", "pending"} => m.attempts[n] < MAX_ATTEMPTS
    /\ m.state[n] = "to_build" => m.attempts[n] = 0

Moves == {"waiting", "taking", "locked", "moving"}

Shape ==
  /\ Tried(live) /\ Tried(mem)
  /\ runner = "working" => mem # NoMap
  /\ requeue \in Moves /\ target # 0 => live # NoMap
  /\ requeue \in {"locked", "moving"} => target # 0
  /\ requeue = "building" => live # NoMap
  /\ monthly # "idle" => booked # 0

TInv == TypeOK /\ Shape

LEMMA MapFacts ==
  ASSUME NEW m \in Map
  PROVE  /\ m.run \in Run /\ m.run \in Nat /\ m.run # 0 /\ m # NoMap
         /\ m.state \in [Name -> Left \cup Final]
         /\ m.attempts \in [Name -> 0 .. MAX_ATTEMPTS]
         /\ m.early \subseteq Name
         /\ m = [run |-> m.run, state |-> m.state, attempts |-> m.attempts,
                 early |-> m.early]
<1>1. /\ m.run \in Run /\ m.state \in [Name -> Left \cup Final]
      /\ m.attempts \in [Name -> 0 .. MAX_ATTEMPTS] /\ m.early \subseteq Name
      /\ m = [run |-> m.run, state |-> m.state, attempts |-> m.attempts,
              early |-> m.early]
  BY DEF Map
<1>2. m.run \in Nat /\ m.run # 0
  BY <1>1, FormationAssumption
<1>3. m # NoMap
  <2>1. NoMap.run = 0
    BY DEF NoMap
  <2> QED BY <1>2, <2>1
<1> QED BY <1>1, <1>2, <1>3

LEMMA NewMapFacts ==
  ASSUME NEW r \in Run
  PROVE  NewMap(r) \in Map /\ Tried(NewMap(r)) /\ NewMap(r).run = r
<1>1. MAX_ATTEMPTS \in Nat /\ 0 < MAX_ATTEMPTS
  BY FormationAssumption
<1>2. NewMap(r) \in Map
  BY <1>1 DEF NewMap, Map, Left
<1>3. Tried(NewMap(r))
  BY <1>1 DEF Tried, NewMap
<1> QED BY <1>2, <1>3 DEF NewMap

\* What one run of a name, and one packet, make of a map.
Ran(m, n, after, early) ==
  [m EXCEPT !.state[n] = after, !.attempts[n] = @ + 1, !.early = early]

Built(m, n, after) == [m EXCEPT !.state[n] = after]

LEMMA AfterRunStates ==
  ASSUME NEW m \in Map, NEW n \in Name, NEW ok \in BOOLEAN
  PROVE  /\ AfterRun(m, n, ok) \in {"complete", "pending", "analysis_incomplete"}
         /\ AfterRun(m, n, ok) = "pending" => m.attempts[n] + 1 < MAX_ATTEMPTS
<1>1. MAX_ATTEMPTS \in Nat /\ m.attempts[n] \in Nat
  BY MapFacts, FormationAssumption
<1> QED BY <1>1 DEF AfterRun

LEMMA RanMap ==
  ASSUME NEW m \in Map, Tried(m), NEW n \in Runnable(m), NEW early \in SUBSET Name,
         NEW after \in {"complete", "pending", "analysis_incomplete"},
         after = "pending" => m.attempts[n] + 1 < MAX_ATTEMPTS
  PROVE  Ran(m, n, after, early) \in Map /\ Tried(Ran(m, n, after, early))
<1> DEFINE r == Ran(m, n, after, early)
<1>1. MAX_ATTEMPTS \in Nat /\ 0 < MAX_ATTEMPTS
  BY FormationAssumption
<1>2. n \in Name /\ m.state[n] \in {"to_run", "pending"}
  BY DEF Runnable
<1>3. m.attempts[n] < MAX_ATTEMPTS /\ m.attempts[n] \in 0 .. MAX_ATTEMPTS
  BY <1>2, MapFacts DEF Tried
<1>4. /\ r.state = [m.state EXCEPT ![n] = after]
      /\ r.attempts = [m.attempts EXCEPT ![n] = m.attempts[n] + 1]
  BY DEF Ran, Map
<1>5. r \in Map
  <2>1. after \in Left \cup Final /\ m.attempts[n] + 1 \in 0 .. MAX_ATTEMPTS
    BY <1>1, <1>3 DEF Left, Final
  <2> QED BY <1>2, <2>1 DEF Ran, Map
<1> HIDE DEF r
<1>6. Tried(r)
  <2> SUFFICES ASSUME NEW k \in Name
               PROVE  /\ r.state[k] \in {"to_run", "pending"} => r.attempts[k] < MAX_ATTEMPTS
                      /\ r.state[k] = "to_build" => r.attempts[k] = 0
    BY DEF Tried
  <2>1. CASE k = n
    <3>1. r.state[k] = after /\ r.attempts[k] = m.attempts[n] + 1
      BY <1>2, <1>4, <2>1, MapFacts
    <3> QED BY <3>1
  <2>2. CASE k # n
    <3>1. r.state[k] = m.state[k] /\ r.attempts[k] = m.attempts[k]
      BY <1>4, <2>2, MapFacts
    <3> QED BY <3>1, MapFacts DEF Tried
  <2> QED BY <2>1, <2>2
<1> QED BY <1>5, <1>6 DEF r

LEMMA BuiltMap ==
  ASSUME NEW m \in Map, Tried(m), NEW n \in ToBuild(m),
         NEW after \in {"analysis_incomplete", "to_run"}
  PROVE  /\ Built(m, n, after) \in Map
         /\ Tried(Built(m, n, after))
         /\ Built(m, n, after).run = m.run
         /\ Built(m, n, after).state = [m.state EXCEPT ![n] = after]
         /\ Built(m, n, after).attempts = m.attempts
         /\ Built(m, n, after).early = m.early
<1> DEFINE r == Built(m, n, after)
<1>1. MAX_ATTEMPTS \in Nat /\ 0 < MAX_ATTEMPTS
  BY FormationAssumption
<1>2. n \in Name /\ m.state[n] = "to_build"
  BY DEF ToBuild
<1>3. m.attempts[n] = 0
  BY <1>2, MapFacts DEF Tried
<1>4. /\ r.run = m.run /\ r.attempts = m.attempts /\ r.early = m.early
      /\ r.state = [m.state EXCEPT ![n] = after]
      /\ r = [run |-> r.run, state |-> r.state, attempts |-> r.attempts,
              early |-> r.early]
  BY MapFacts DEF Map, Built
<1> HIDE DEF r
<1>5. r \in Map
  <2>1. r.state \in [Name -> Left \cup Final]
    BY <1>2, <1>4, MapFacts DEF Left, Final
  <2> QED BY <1>4, <2>1, MapFacts DEF Map
<1>6. Tried(r)
  <2> SUFFICES ASSUME NEW k \in Name
               PROVE  /\ r.state[k] \in {"to_run", "pending"} => r.attempts[k] < MAX_ATTEMPTS
                      /\ r.state[k] = "to_build" => r.attempts[k] = 0
    BY DEF Tried
  <2>1. CASE k = n
    BY <1>1, <1>2, <1>3, <1>4, <2>1, MapFacts
  <2>2. CASE k # n
    <3>1. r.state[k] = m.state[k] /\ r.attempts[k] = m.attempts[k]
      BY <1>4, <2>2, MapFacts
    <3> QED BY <3>1, MapFacts DEF Tried
  <2> QED BY <2>1, <2>2
<1> QED BY <1>4, <1>5, <1>6 DEF r

\* A run of a name, and a packet, as those operators.
SomeRun    == \E ok \in BOOLEAN : RunName(ok)
SomePacket == \E refused \in BOOLEAN : Packet(refused)

LEMMA RunNameIsRan ==
  ASSUME SomeRun, mem \in Map, Tried(mem)
  PROVE  \E n \in Runnable(mem), early \in SUBSET Name,
            after \in {"complete", "pending", "analysis_incomplete"} :
           /\ n \in Name /\ mem.state[n] \in {"to_run", "pending"}
           /\ after = "pending" => mem.attempts[n] + 1 < MAX_ATTEMPTS
           /\ early # mem.early => ~open
           /\ mem' = Ran(mem, n, after, early) /\ live' = mem'
<1>0. PICK ok \in BOOLEAN : RunName(ok)
  BY DEF SomeRun
<1> DEFINE n == FX!Min(Turns)
           early == IF ok /\ ~open THEN mem.early \cup {n} ELSE mem.early
           after == AfterRun(mem, n, ok)
<1>1. n \in Runnable(mem) /\ n \in Name /\ mem.state[n] \in {"to_run", "pending"}
  BY <1>0, TurnsRunnable DEF RunName, Turns, Runnable
<1>2. mem' = [mem EXCEPT !.state[n] = AfterRun(mem, n, ok),
                         !.attempts[n] = @ + 1,
                         !.early = early] /\ live' = mem'
  BY <1>0 DEF RunName
<1> HIDE DEF n
<1>3. early \in SUBSET Name /\ (early # mem.early => ~open)
  BY <1>1, MapFacts
<1>4. /\ after \in {"complete", "pending", "analysis_incomplete"}
      /\ after = "pending" => mem.attempts[n] + 1 < MAX_ATTEMPTS
  BY <1>1, AfterRunStates
<1>5. mem' = Ran(mem, n, after, early)
  BY <1>2 DEF Ran
<1> HIDE DEF early, after
<1> QED BY <1>1, <1>2, <1>3, <1>4, <1>5

LEMMA PacketIsBuilt ==
  ASSUME SomePacket
  PROVE  \E n \in ToBuild(live), after \in {"analysis_incomplete", "to_run"} :
           n \in Name /\ live.state[n] = "to_build" /\ live' = Built(live, n, after)
<1>0. PICK refused \in BOOLEAN : Packet(refused)
  BY DEF SomePacket
<1> DEFINE n == FX!Min(ToBuild(live))
           after == IF refused THEN "analysis_incomplete" ELSE "to_run"
<1>1. n \in ToBuild(live) /\ n \in Name /\ live.state[n] = "to_build"
  BY <1>0, ToBuildFirst DEF Packet, ToBuild
<1>2. live' = Built(live, n, after)
  BY <1>0 DEF Packet, Built
<1>3. after \in {"analysis_incomplete", "to_run"}
  OBVIOUS
<1> HIDE DEF n, after
<1> QED BY <1>1, <1>2, <1>3

LEMMA TypeInit == Init => TInv
<1> SUFFICES ASSUME Init PROVE TInv
  OBVIOUS
<1>1. PICK s \in [Name -> {"to_run", "analysis_incomplete"}] :
        live = [run |-> 1, state |-> s, attempts |-> [n \in Name |-> 0], early |-> {}]
  BY DEF Init
<1>2. MAX_ATTEMPTS \in Nat /\ 0 < MAX_ATTEMPTS /\ 1 \in Run
  BY FormationAssumption
<1>3. s \in [Name -> Left \cup Final]
  BY DEF Left, Final
<1>4. live \in Map
  BY <1>1, <1>2, <1>3 DEF Map
<1>5. Tried(live)
  BY <1>1, <1>2 DEF Tried
<1>6. TypeOK
  BY <1>2, <1>4 DEF Init, TypeOK, Lines, Line, NoLine
<1>7. Shape
  BY <1>5 DEF Init, Shape, Tried, Moves
<1> QED BY <1>6, <1>7 DEF TInv

LEMMA LinesType ==
  ASSUME NEW m \in Map
  PROVE  LinesOf(m) \in Lines
<1> SUFFICES ASSUME NEW n \in Name PROVE evaluate_name(m, n) \in Line
  BY DEF LinesOf, Lines
<1>1. FillLine(m, n) \in {"none", "no_packet", "complete", "pending"}
  BY DEF FillLine
<1>2. LateLine(m, n) \in {"none", "completed_late", "analysis_incomplete"}
  BY DEF LateLine
<1> QED BY <1>1, <1>2 DEF evaluate_name, Line

LEMMA NoLinesType == [n \in Name |-> NoLine] \in Lines
BY DEF Lines, Line, NoLine

\* The re-queue has a map to move, and a formation to build, when it gets there.
LEMMA MapThere ==
  ASSUME TInv
  PROVE  /\ live # NoMap => live \in Map /\ live.run # 0
         /\ requeue = "building" => live \in Map
         /\ requeue \in {"locked", "moving"} => live \in Map
         /\ runner = "working" => mem \in Map
         /\ NoMap.run = 0
         /\ NoMap.run \notin Run
<1>1. live # NoMap => live \in Map /\ live.run # 0
  BY MapFacts DEF TInv, TypeOK
<1>2. NoMap.run = 0 /\ NoMap.run \notin Run
  BY FormationAssumption DEF NoMap
<1>3. requeue \in {"locked", "moving"} => live \in Map
  BY <1>1 DEF TInv, Shape, Moves
<1>4. requeue = "building" => live \in Map
  BY <1>1 DEF TInv, Shape
<1>5. runner = "working" => mem \in Map
  BY DEF TInv, Shape, TypeOK
<1> QED BY <1>1, <1>2, <1>3, <1>4, <1>5

\* What a step leaves of the invariant when it touches neither map.
LEMMA SameMaps ==
  ASSUME TInv, UNCHANGED <<live, mem>>
  PROVE  Tried(live') /\ Tried(mem')
BY DEF TInv, Shape

LEMMA TypeRunner ==
  ASSUME TInv, Runner
  PROVE  TInv'
<1> USE DEF Released, LeaveRunner
<1>0. Tried(NoMap)
  BY DEF Tried
<1>1. CASE RunnerStarts
  BY <1>1, SameMaps DEF RunnerStarts, TInv, TypeOK, Shape
<1>2. CASE RunnerLocks
  <2>1. Tried(live') /\ Tried(mem')
    BY <1>2 DEF RunnerLocks, TInv, Shape, Tried
  <2> QED BY <1>2, <2>1 DEF RunnerLocks, TInv, TypeOK, Shape
<1>3. CASE GpuBusy
  <2>1. Tried(live') /\ Tried(mem')
    BY <1>0, <1>3 DEF GpuBusy, TInv, Shape
  <2> QED BY <1>3, <2>1 DEF GpuBusy, TInv, TypeOK, Shape
<1>4. CASE RunnerEnds
  <2>1. Tried(live') /\ Tried(mem')
    BY <1>0, <1>4 DEF RunnerEnds, TInv, Shape
  <2> QED BY <1>4, <2>1 DEF RunnerEnds, TInv, TypeOK, Shape
<1>5. CASE RunnerDies
  <2>1. Tried(live') /\ Tried(mem')
    BY <1>0, <1>5 DEF RunnerDies, TInv, Shape
  <2> QED BY <1>5, <2>1 DEF RunnerDies, TInv, TypeOK, Shape
<1>6. CASE SomeRun
  <2>1. mem \in Map /\ Tried(mem)
    BY <1>6, MapThere DEF SomeRun, RunName, TInv, Shape
  <2>2. mem' \in Map /\ Tried(mem')
    <3>1. PICK n \in Runnable(mem), early \in SUBSET Name,
               after \in {"complete", "pending", "analysis_incomplete"} :
            /\ after = "pending" => mem.attempts[n] + 1 < MAX_ATTEMPTS
            /\ mem' = Ran(mem, n, after, early)
      BY <1>6, <2>1, RunNameIsRan
    <3> QED BY <2>1, <3>1, RanMap
  <2>3. live' = mem' /\ ahead' = {k \in ahead : k > FX!Min(Turns)}
        /\ UNCHANGED <<witness, superseded, flags, lock, runner, queueing, books>>
    BY <1>6 DEF SomeRun, RunName
  <2>4. live' # NoMap /\ mem' # NoMap
    BY <2>2, <2>3, MapFacts
  <2>5. ahead' \subseteq Name
    BY <2>3 DEF TInv, TypeOK
  <2>6. TypeOK'
    BY <2>2, <2>3, <2>5 DEF TInv, TypeOK
  <2>7. Shape'
    BY <2>2, <2>3, <2>4 DEF TInv, Shape
  <2> QED BY <2>6, <2>7 DEF TInv
<1> QED BY <1>1, <1>2, <1>3, <1>4, <1>5, <1>6 DEF Runner, SomeRun

LEMMA TypeRequeue ==
  ASSUME TInv, Requeue
  PROVE  TInv'
<1> USE DEF Released, InRequeue, Moves
<1>0. newest \in Run /\ decision_for \in Run /\ newest \in Nat \ {0}
  BY FormationAssumption DEF decision_for, TInv, TypeOK
<1>1. CASE RequeueStarts
  <2>1. /\ preempt' = TRUE /\ requeue' = "waiting"
        /\ UNCHANGED <<witness, live, superseded, finished, flagsAside, lock, running, books>>
        /\ target' = 0 \/ (live # NoMap /\ target' = decision_for)
    BY <1>1 DEF RequeueStarts
  <2> QED BY <1>0, <2>1, SameMaps DEF TInv, TypeOK, Shape
<1>2. CASE RequeueUnchanged
  <2>1. /\ preempt' \in BOOLEAN
        /\ UNCHANGED <<witness, live, superseded, finished, flagsAside, lock, running,
                       queueing, books>>
    BY <1>2 DEF RequeueUnchanged
  <2>2. TypeOK'
    BY <2>1 DEF TInv, TypeOK
  <2>3. Shape'
    BY <2>1, SameMaps DEF TInv, Shape
  <2> QED BY <2>2, <2>3 DEF TInv
<1>3. CASE RequeueTakes
  BY <1>3, SameMaps DEF RequeueTakes, TInv, TypeOK, Shape
<1>4. CASE RequeueLocks
  BY <1>4, SameMaps DEF RequeueLocks, TInv, TypeOK, Shape
<1>5. CASE FlagAside
  <2>1. live.run \in Run /\ live # NoMap /\ target # 0
    BY <1>5, MapThere, MapFacts DEF FlagAside, TInv, Shape
  <2>2. CASE requeue' = "raised"
    BY <1>5, <2>2, SameMaps DEF FlagAside, TInv, TypeOK, Shape
  <2>3. CASE requeue' # "raised"
    <3>1. /\ requeue' = "moving" /\ finished' = FALSE /\ requeue = "locked"
          /\ flagsAside' = flagsAside \/ flagsAside' = flagsAside \cup {live.run}
          /\ UNCHANGED <<witness, live, superseded, preempt, lock, running, target, books>>
      BY <1>5, <2>3 DEF FlagAside
    <3>2. /\ UNCHANGED <<live, mem, runner, target, monthly, booked>>
          /\ flagsAside' \subseteq Run
      BY <2>1, <3>1 DEF running, books, TInv, TypeOK
    <3>3. TypeOK'
      BY <3>1, <3>2 DEF TInv, TypeOK
    <3>4. Shape'
      BY <2>1, <3>1, <3>2, SameMaps DEF TInv, Shape
    <3> QED BY <3>3, <3>4 DEF TInv
  <2> QED BY <2>2, <2>3
<1>6. CASE MapAside
  <2>1. live.run \in Run
    BY <1>6, MapThere, MapFacts DEF MapAside
  <2>2. Tried(live') /\ Tried(mem')
    BY <1>6 DEF MapAside, TInv, Shape, Tried
  <2> QED BY <1>6, <2>1, <2>2 DEF MapAside, TInv, TypeOK, Shape
<1>7. CASE Decide
  <2>1. live' \in Map /\ Tried(live') /\ live' # NoMap
    BY <1>0, <1>7, NewMapFacts, MapThere, MapFacts DEF Decide, TInv, Shape
  <2>2. Tried(mem')
    BY <1>7 DEF Decide, TInv, Shape
  <2> QED BY <1>7, <2>1, <2>2 DEF Decide, TInv, TypeOK, Shape
<1>8. CASE DecideStops
  BY <1>8, SameMaps DEF DecideStops, TInv, TypeOK, Shape
<1>9. CASE SomePacket
  <2>1. live \in Map /\ Tried(live)
    BY <1>9, MapThere DEF SomePacket, Packet, TInv, Shape
  <2>2. live' \in Map /\ Tried(live')
    <3>1. PICK n \in ToBuild(live), after \in {"analysis_incomplete", "to_run"} :
            live' = Built(live, n, after)
      BY <1>9, PacketIsBuilt
    <3> QED BY <2>1, <3>1, BuiltMap
  <2>3. live' # NoMap
    BY <2>2, MapFacts
  <2>4. Tried(mem')
    BY <1>9 DEF SomePacket, Packet, TInv, Shape
  <2> QED BY <1>9, <2>2, <2>3, <2>4 DEF SomePacket, Packet, TInv, TypeOK, Shape
<1>10. CASE RequeueEnds
  BY <1>10, SameMaps DEF RequeueEnds, TInv, TypeOK, Shape
<1>11. CASE RequeueDies
  BY <1>11, SameMaps DEF RequeueDies, TInv, TypeOK, Shape
<1> QED
  BY <1>1, <1>2, <1>3, <1>4, <1>5, <1>6, <1>7, <1>8, <1>9, <1>10, <1>11
  DEF Requeue, SomePacket

LEMMA TypeMonthly ==
  ASSUME TInv, Monthly
  PROVE  TInv'
<1>1. CASE Book
  <2>1. newest' \in Run /\ newest' # 0
    BY <1>1, FormationAssumption DEF Book, Archive
  <2> QED BY <1>1, <2>1, SameMaps DEF Book, TInv, TypeOK, Shape
<1>2. CASE Engine
  <2>1. booked # 0
    BY <1>2 DEF Engine, TInv, Shape
  <2>2. CASE monthly' = "qwen"
    <3>1. live.run = booked /\ lines' = LinesOf(live)
      BY <1>2, <2>2 DEF Engine
    <3>2. live \in Map
      BY <2>1, <3>1, MapThere
    <3>3. lines' \in Lines
      BY <3>1, <3>2, LinesType
    <3> QED BY <1>2, <2>1, <2>2, <3>3, SameMaps DEF Engine, TInv, TypeOK, Shape
  <2>3. CASE monthly' # "qwen"
    BY <1>2, <2>1, <2>3, SameMaps DEF Engine, TInv, TypeOK, Shape
  <2> QED BY <2>2, <2>3
<1>3. CASE MonthlyDies
  BY <1>3, SameMaps, NoLinesType DEF MonthlyDies, TInv, TypeOK, Shape
<1>4. ASSUME NEW f \in File, Append(f) PROVE TInv'
  <2>1. stored' \in [File -> Lines] /\ lines' \in Lines
    BY <1>4, NoLinesType DEF Append, TInv, TypeOK
  <2>2. monthly' \in {"idle", "actions"} /\ booked # 0
    BY <1>4 DEF Append, File, TInv, Shape
  <2> QED BY <1>4, <2>1, <2>2, SameMaps DEF Append, TInv, TypeOK, Shape
<1> QED BY <1>1, <1>2, <1>3, <1>4 DEF Monthly

LEMMA TypeNext == TInv /\ [Next]_vars => TInv'
<1> SUFFICES ASSUME TInv, [Next]_vars PROVE TInv'
  OBVIOUS
<1>1. CASE FillOpens
  BY <1>1, SameMaps DEF FillOpens, TInv, TypeOK, Shape
<1>2. CASE CheckNewRuns
  BY <1>2, SameMaps DEF CheckNewRuns, Archive, TInv, TypeOK, Shape
<1>3. CASE UNCHANGED vars
  BY <1>3, SameMaps DEF vars, TInv, TypeOK, Shape
<1> QED BY <1>1, <1>2, <1>3, TypeRunner, TypeRequeue, TypeMonthly DEF Next, World

\* The variables keep their types in every reachable state, for every set of
\* names and runs.
THEOREM TypeCorrect == Spec => []TypeOK
<1>1. TInv => TypeOK
  BY DEF TInv
<1> QED BY <1>1, TypeInit, TypeNext, PTL DEF Spec

-------------------------------------------------------------------------------
(* The lock, where two processes never take it at once: the runner and the *)
(* re-queue are not in it together, so the map in the runner's memory is   *)
(* the map on disk.                                                        *)
Holds == {"locked", "moving", "deciding", "building"}

Excl ==
  /\ runner = "working" <=> lock = "runner"
  /\ requeue \in Holds <=> lock = "requeue"
  /\ runner = "taking" => LockIsFree /\ requeue # "taking"
  /\ requeue = "taking" => LockIsFree
  /\ runner = "working" => mem = live

LInv == TInv /\ Excl

LEMMA ExclInit == Init => Excl
BY DEF Init, Excl, Holds

LEMMA ExclNext ==
  ASSUME LockIsAtomic
  PROVE  LInv /\ [Next]_vars => Excl'
<1> SUFFICES ASSUME LInv, [Next]_vars PROVE Excl'
  OBVIOUS
<1> USE DEF Released, LeaveRunner, LockIsFree, Holds, LInv
<1>1. CASE RunnerStarts
  BY <1>1 DEF RunnerStarts, Excl
<1>2. CASE RunnerLocks
  BY <1>2 DEF RunnerLocks, Excl
<1>3. CASE GpuBusy
  BY <1>3 DEF GpuBusy, Excl
<1>4. CASE RunnerEnds
  BY <1>4 DEF RunnerEnds, Excl
<1>5. CASE RunnerDies
  BY <1>5 DEF RunnerDies, Excl
<1>6. CASE SomeRun
  <2>1. live' = mem' /\ UNCHANGED <<lock, runner, requeue>>
    BY <1>6 DEF SomeRun, RunName
  <2> QED BY <2>1 DEF Excl
<1>7. CASE RequeueStarts
  BY <1>7 DEF RequeueStarts, Excl
<1>8. CASE RequeueUnchanged
  BY <1>8 DEF RequeueUnchanged, Excl
<1>9. CASE RequeueTakes
  BY <1>9 DEF RequeueTakes, Excl
<1>10. CASE RequeueLocks
  BY <1>10 DEF RequeueLocks, Excl
<1>11. CASE FlagAside
  BY <1>11 DEF FlagAside, Excl
<1>12. CASE MapAside
  BY <1>12 DEF MapAside, Excl
<1>13. CASE Decide
  BY <1>13 DEF Decide, Excl
<1>14. CASE DecideStops
  BY <1>14 DEF DecideStops, Excl
<1>15. CASE SomePacket
  BY <1>15 DEF SomePacket, Packet, Excl
<1>16. CASE RequeueEnds
  BY <1>16 DEF RequeueEnds, Excl
<1>17. CASE RequeueDies
  BY <1>17 DEF RequeueDies, Excl
<1>18. CASE World \/ Monthly \/ UNCHANGED vars
  <2>1. UNCHANGED <<lock, runner, requeue, mem, live>>
    BY <1>18 DEF World, Monthly, FillOpens, CheckNewRuns, Book, Engine, MonthlyDies,
                 Append, vars
  <2> QED BY <2>1 DEF Excl
<1> QED
  BY <1>1, <1>2, <1>3, <1>4, <1>5, <1>6, <1>7, <1>8, <1>9, <1>10, <1>11, <1>12,
     <1>13, <1>14, <1>15, <1>16, <1>17, <1>18
  DEF Next, Runner, Requeue, SomeRun, SomePacket

LEMMA LockCorrect ==
  ASSUME LockIsAtomic
  PROVE  Spec => []LInv
<1>1. Init => LInv
  BY TypeInit, ExclInit DEF LInv
<1>2. LInv /\ [Next]_vars => LInv'
  BY TypeNext, ExclNext DEF LInv
<1> QED BY <1>1, <1>2, PTL DEF Spec

-------------------------------------------------------------------------------
(* The finished flag.  It is down whenever the runner is in its loop and   *)
(* whenever there is no map, so a map that still has work never meets it.  *)
Flagged ==
  /\ runner # "idle" => ~finished
  /\ live = NoMap => ~finished
  /\ requeue = "moving" => ~finished
  /\ FinishedMeansDone

LEMMA FlaggedInit == Init => Flagged
BY DEF Init, Flagged, FinishedMeansDone

\* A map with a name left to build or to run has no finished flag beside it.
LEMMA LeftUnfinished ==
  ASSUME Flagged, LInv, NEW n \in Name, live # NoMap, live.state[n] \in Left
  PROVE  ~finished
BY DEF Flagged, FinishedMeansDone, HasLeft

LEMMA FlaggedNext ==
  LInv /\ LInv' /\ Flagged /\ [Next]_vars => Flagged'
<1> SUFFICES ASSUME LInv, LInv', Flagged, [Next]_vars PROVE Flagged'
  OBVIOUS
<1> USE DEF LeaveRunner, FinishedMeansDone
<1>1. CASE RunnerStarts
  BY <1>1 DEF RunnerStarts, Flagged
<1>2. CASE RunnerLocks
  BY <1>2 DEF RunnerLocks, Flagged
<1>3. CASE GpuBusy
  BY <1>3 DEF GpuBusy, Flagged
<1>4. CASE RunnerEnds
  <2>1. mem = live /\ live # NoMap /\ requeue # "moving"
    BY <1>4 DEF RunnerEnds, LInv, TInv, Shape, Excl, Holds
  <2> QED BY <1>4, <2>1 DEF RunnerEnds, NothingLeft, Flagged
<1>5. CASE RunnerDies
  BY <1>5 DEF RunnerDies, Flagged
<1>6. CASE SomeRun
  <2>1. ~finished'
    BY <1>6 DEF SomeRun, RunName, Flagged
  <2> QED BY <2>1 DEF Flagged
<1>7. CASE RequeueStarts \/ RequeueUnchanged \/ RequeueTakes \/ RequeueLocks \/ DecideStops \/ RequeueDies
  <2>1. UNCHANGED <<live, finished, runner>> /\ requeue' # "moving"
    BY <1>7 DEF RequeueStarts, RequeueUnchanged, RequeueTakes, RequeueLocks,
                DecideStops, RequeueDies
  <2> QED BY <2>1 DEF Flagged
<1>8. CASE FlagAside
  BY <1>8 DEF FlagAside, Flagged
<1>9. CASE MapAside
  BY <1>9 DEF MapAside, Flagged
<1>10. CASE Decide
  <2>1. live = NoMap => ~finished'
    BY <1>10 DEF Decide, Flagged
  <2>2. live # NoMap => live' = live
    BY <1>10 DEF Decide
  <2> QED BY <1>10, <2>1, <2>2 DEF Decide, Flagged
<1>11. CASE SomePacket
  <2>1. PICK n \in Name : live.state[n] = "to_build"
    BY <1>11 DEF SomePacket, Packet, ToBuild
  <2>2. live # NoMap
    BY <1>11 DEF SomePacket, Packet, LInv, TInv, Shape
  <2>3. ~finished'
    BY <1>11, <2>1, <2>2, LeftUnfinished DEF SomePacket, Packet, Left
  <2> QED BY <2>3 DEF Flagged
<1>12. CASE RequeueEnds
  BY <1>12 DEF RequeueEnds, Flagged
<1>13. CASE World \/ Monthly \/ UNCHANGED vars
  <2>1. UNCHANGED <<live, finished, runner, requeue>>
    BY <1>13 DEF World, Monthly, FillOpens, CheckNewRuns, Book, Engine, MonthlyDies,
                 Append, vars
  <2> QED BY <2>1 DEF Flagged, HasLeft
<1> QED
  BY <1>1, <1>2, <1>3, <1>4, <1>5, <1>6, <1>7, <1>8, <1>9, <1>10, <1>11, <1>12, <1>13
  DEF Next, Runner, Requeue, SomeRun, SomePacket

\* The finished flag never stands beside a map with a name left to build, to run
\* or to retry, whoever is killed in between: no batch is stranded.
THEOREM FinishedCorrect ==
  ASSUME LockIsAtomic
  PROVE  Spec => []FinishedMeansDone
<1>1. Init => Flagged
  BY FlaggedInit
<1>2. Flagged => FinishedMeansDone
  BY DEF Flagged
<1> QED BY <1>1, <1>2, LockCorrect, FlaggedNext, PTL DEF Spec

-------------------------------------------------------------------------------
(* Maps only advance.  Every superseded run is older than the live map's   *)
(* run and than the newest one, because a re-queue moves a map aside only  *)
(* for a decision that was newer when it was read.                         *)
Newer ==
  /\ live # NoMap => live.run <= newest /\ \A s \in superseded : s < live.run
  /\ \A s \in superseded : s < newest
  /\ requeue \in Moves /\ target # 0 => live.run <= target /\ target <= newest
  /\ requeue \in {"locked", "moving"} => live.run # target

LEMMA NewerInit == Init => Newer
<1> SUFFICES ASSUME Init PROVE Newer
  OBVIOUS
<1>1. newest = 1 /\ superseded = {} /\ requeue = "idle" /\ live.run = 1
  BY DEF Init
<1> QED BY <1>1 DEF Newer, Moves

\* The numbers the order is about.
LEMMA RunNumbers ==
  ASSUME LInv
  PROVE  /\ newest \in Nat /\ target \in Nat /\ superseded \subseteq Nat
         /\ live # NoMap => live.run \in Nat
BY MapFacts, FormationAssumption DEF LInv, TInv, TypeOK

LEMMA NewerNext ==
  LInv /\ Newer /\ [Next]_vars => Newer'
<1> SUFFICES ASSUME LInv, Newer, [Next]_vars PROVE Newer'
  OBVIOUS
<1> USE DEF Moves
<1>0. /\ newest \in Nat /\ target \in Nat /\ superseded \subseteq Nat
      /\ live # NoMap => live.run \in Nat
  BY RunNumbers
<1>1. CASE Runner
  <2>1. CASE SomeRun
    <3>1. mem = live /\ mem \in Map /\ Tried(mem) /\ live # NoMap
      BY <2>1, MapThere DEF SomeRun, RunName, LInv, Excl, TInv, Shape
    <3>2. mem'.run = mem.run
      <4>1. PICK n \in Runnable(mem), early \in SUBSET Name,
                 after \in {"complete", "pending", "analysis_incomplete"} :
              /\ after = "pending" => mem.attempts[n] + 1 < MAX_ATTEMPTS
              /\ mem' = Ran(mem, n, after, early)
        BY <2>1, <3>1, RunNameIsRan
      <4>2. Ran(mem, n, after, early).run = mem.run
        BY <3>1 DEF Ran, Map
      <4> QED BY <4>1, <4>2
    <3>3. live' = mem' /\ UNCHANGED <<newest, superseded, requeue, target>>
      BY <2>1 DEF SomeRun, RunName
    <3> QED BY <3>1, <3>2, <3>3 DEF Newer
  <2>2. CASE ~SomeRun
    <3>1. UNCHANGED <<live, newest, superseded, requeue, target>>
      BY <1>1, <2>2 DEF Runner, RunnerStarts, RunnerLocks, GpuBusy, RunnerEnds,
                        RunnerDies, SomeRun
    <3> QED BY <3>1 DEF Newer
  <2> QED BY <2>1, <2>2
<1>2. CASE RequeueStarts
  <2>1. /\ UNCHANGED <<live, newest, superseded>> /\ requeue' = "waiting"
        /\ target' = 0 \/ (live # NoMap /\ target' = newest)
    BY <1>2 DEF RequeueStarts, decision_for
  <2> QED BY <1>0, <2>1 DEF Newer
<1>3. CASE RequeueUnchanged \/ RequeueTakes
  <2>1. /\ UNCHANGED <<live, newest, superseded, target>>
        /\ requeue' = requeue \/ (requeue = "waiting" /\ requeue' = "taking")
    BY <1>3 DEF RequeueUnchanged, RequeueTakes
  <2> QED BY <2>1 DEF Newer
<1>4. CASE RequeueLocks
  BY <1>4 DEF RequeueLocks, Newer
<1>5. CASE FlagAside
  <2>1. /\ UNCHANGED <<live, newest, superseded, target>>
        /\ requeue = "locked" /\ requeue' \in {"raised", "moving"}
    BY <1>5 DEF FlagAside
  <2> QED BY <2>1 DEF Newer
<1>6. CASE MapAside
  <2>1. live \in Map /\ target # 0 /\ live.run # target
    BY <1>6, MapThere DEF MapAside, LInv, TInv, Shape, Newer
  <2>2. live.run < newest
    BY <1>0, <1>6, <2>1, MapFacts DEF MapAside, Newer
  <2>3. /\ live' = NoMap /\ superseded' = superseded \cup {live.run}
        /\ newest' = newest /\ requeue' = "deciding"
    BY <1>6 DEF MapAside
  <2> QED BY <2>2, <2>3 DEF Newer
<1>7. CASE Decide
  <2>1. /\ UNCHANGED <<newest, superseded>> /\ requeue' = "building"
        /\ live # NoMap => live' = live
        /\ live = NoMap => live'.run = newest
    BY <1>7 DEF Decide, decision_for, NewMap
  <2> QED BY <1>0, <2>1 DEF Newer
<1>8. CASE SomePacket
  <2>1. live \in Map /\ Tried(live) /\ live # NoMap
    BY <1>8, MapThere, MapFacts DEF SomePacket, Packet, LInv, TInv, Shape
  <2>2. live'.run = live.run
    <3>1. PICK n \in ToBuild(live), after \in {"analysis_incomplete", "to_run"} :
            live' = Built(live, n, after)
      BY <1>8, PacketIsBuilt
    <3> QED BY <2>1, <3>1, BuiltMap
  <2>3. UNCHANGED <<newest, superseded, requeue, target>>
    BY <1>8 DEF SomePacket, Packet
  <2> QED BY <2>1, <2>2, <2>3 DEF Newer
<1>9. CASE DecideStops \/ RequeueEnds \/ RequeueDies
  <2>1. UNCHANGED <<live, newest, superseded, target>> /\ requeue' = "idle"
    BY <1>9 DEF DecideStops, RequeueEnds, RequeueDies
  <2> QED BY <2>1 DEF Newer
<1>10. CASE World \/ Monthly \/ UNCHANGED vars
  <2>1. UNCHANGED <<live, superseded, requeue, target>>
    BY <1>10 DEF World, Monthly, FillOpens, CheckNewRuns, Book, Engine, MonthlyDies,
                 Append, vars
  <2>2. newest' \in Nat /\ newest' >= newest
    BY <1>0, <1>10, FormationAssumption
    DEF World, Monthly, FillOpens, CheckNewRuns, Archive, Book, Engine, MonthlyDies,
        Append, vars
  <2>3. live # NoMap => live.run <= newest'
    BY <1>0, <2>2 DEF Newer
  <2>4. \A s \in superseded : s < newest'
    BY <1>0, <2>2 DEF Newer
  <2>5. target <= newest => target <= newest'
    BY <1>0, <2>2
  <2> QED BY <2>1, <2>3, <2>4, <2>5 DEF Newer
<1> QED
  BY <1>1, <1>2, <1>3, <1>4, <1>5, <1>6, <1>7, <1>8, <1>9, <1>10
  DEF Next, Requeue, SomePacket

\* What a step may do to the map on disk.
Advances ==
  live' # NoMap =>
    /\ live'.run \notin superseded
    /\ live # NoMap =>
         /\ live'.run = live.run
         /\ \A n \in Name :
              /\ live'.attempts[n] >= live.attempts[n]
              /\ live.state[n] \in Final => live'.state[n] = live.state[n]

LEMMA SameMapAdvances ==
  ASSUME LInv, Newer, live' = live
  PROVE  Advances
<1>1. CASE live # NoMap
  <2>1. live.run \notin superseded
    BY <1>1, RunNumbers DEF Newer
  <2>2. \A n \in Name : live.attempts[n] \in Nat
    BY <1>1, MapThere, MapFacts, FormationAssumption DEF LInv
  <2> QED BY <2>1, <2>2 DEF Advances
<1>2. CASE live = NoMap
  BY <1>2 DEF Advances
<1> QED BY <1>1, <1>2

LEMMA StepAdvances ==
  LInv /\ Newer /\ [Next]_vars => [Advances]_vars
<1> SUFFICES ASSUME LInv, Newer, Next PROVE Advances
  OBVIOUS
<1>1. CASE SomeRun
  <2>1. mem = live /\ live \in Map /\ Tried(live) /\ live # NoMap
    BY <1>1, MapThere DEF SomeRun, RunName, LInv, Excl, TInv, Shape
  <2>2. PICK n \in Runnable(live), early \in SUBSET Name,
             after \in {"complete", "pending", "analysis_incomplete"} :
          /\ n \in Name /\ live.state[n] \in {"to_run", "pending"}
          /\ after = "pending" => live.attempts[n] + 1 < MAX_ATTEMPTS
          /\ live' = Ran(live, n, after, early)
    BY <1>1, <2>1, RunNameIsRan
  <2>3. /\ live'.run = live.run
        /\ live'.state = [live.state EXCEPT ![n] = after]
        /\ live'.attempts = [live.attempts EXCEPT ![n] = live.attempts[n] + 1]
    BY <2>1, <2>2 DEF Ran, Map
  <2>4. live.run \notin superseded
    BY <2>1, RunNumbers DEF Newer
  <2>5. ASSUME NEW k \in Name
        PROVE  /\ live'.attempts[k] >= live.attempts[k]
               /\ live.state[k] \in Final => live'.state[k] = live.state[k]
    <3>1. live.attempts[k] \in Nat /\ live.attempts[n] \in Nat
      BY <2>1, <2>2, MapFacts, FormationAssumption
    <3>2. CASE k = n
      BY <2>1, <2>2, <2>3, <3>1, <3>2, MapFacts DEF Final
    <3>3. CASE k # n
      BY <2>1, <2>3, <3>1, <3>3, MapFacts
    <3> QED BY <3>2, <3>3
  <2> QED BY <2>3, <2>4, <2>5 DEF Advances
<1>2. CASE SomePacket
  <2>1. live \in Map /\ Tried(live) /\ live # NoMap
    BY <1>2, MapThere, MapFacts DEF SomePacket, Packet, LInv, TInv, Shape
  <2>2. PICK n \in ToBuild(live), after \in {"analysis_incomplete", "to_run"} :
          n \in Name /\ live.state[n] = "to_build" /\ live' = Built(live, n, after)
    BY <1>2, PacketIsBuilt
  <2>3. /\ live'.run = live.run /\ live'.attempts = live.attempts
        /\ live'.state = [live.state EXCEPT ![n] = after]
    BY ZenonT(30), <2>1, <2>2, BuiltMap
  <2>4. live.run \notin superseded
    BY <2>1, RunNumbers DEF Newer
  <2>5. ASSUME NEW k \in Name
        PROVE  /\ live'.attempts[k] >= live.attempts[k]
               /\ live.state[k] \in Final => live'.state[k] = live.state[k]
    <3>1. live.attempts[k] \in Nat
      BY <2>1, MapFacts, FormationAssumption
    <3>2. CASE k = n
      BY <2>1, <2>2, <2>3, <3>1, <3>2 DEF Final
    <3>3. CASE k # n
      BY <2>1, <2>3, <3>1, <3>3, MapFacts
    <3> QED BY <3>2, <3>3
  <2> QED BY <2>3, <2>4, <2>5 DEF Advances
<1>3. CASE Decide
  <2>1. CASE live # NoMap
    BY <1>3, <2>1, SameMapAdvances DEF Decide
  <2>2. CASE live = NoMap
    <3>1. live'.run = newest
      BY <1>3, <2>2 DEF Decide, decision_for, NewMap
    <3>2. newest \notin superseded
      BY RunNumbers DEF Newer
    <3> QED BY <2>2, <3>1, <3>2 DEF Advances
  <2> QED BY <2>1, <2>2
<1>4. CASE MapAside
  BY <1>4 DEF MapAside, Advances
<1>5. CASE live' = live
  BY <1>5, SameMapAdvances
<1>6. ASSUME ~SomeRun, ~SomePacket, ~Decide, ~MapAside
      PROVE  live' = live
  BY <1>6
  DEF Next, World, Runner, Requeue, Monthly, FillOpens, CheckNewRuns, RunnerStarts,
      RunnerLocks, GpuBusy, RunnerEnds, RunnerDies, RequeueStarts, RequeueUnchanged,
      RequeueTakes, RequeueLocks, FlagAside, DecideStops, RequeueEnds, RequeueDies,
      Book, Engine, MonthlyDies, Append, SomeRun, SomePacket
<1> QED BY <1>1, <1>2, <1>3, <1>4, <1>5, <1>6

\* A map is replaced only after it was moved aside, a superseded run never comes
\* back, and within a map no attempt is forgotten and no final state changes.
THEOREM MapsCorrect ==
  ASSUME LockIsAtomic
  PROVE  Spec => MapOnlyAdvances
<1>1. LInv /\ Newer /\ [Next]_vars => [Advances]_vars
  BY StepAdvances
<1> QED BY <1>1, LockCorrect, NewerInit, NewerNext, PTL DEF Spec, MapOnlyAdvances, Advances

-------------------------------------------------------------------------------
(* The ledger recomputes.  A line is written only of the map of the booked *)
(* run, once no name of it is left to build; after the fill open a run of  *)
(* a name changes neither its fill-open line nor a resolution; and the     *)
(* booked run's map, once moved aside, never comes back.                   *)
Blank   == [n \in Name |-> NoLine]
Written == lines # Blank \/ \E f \in File : stored[f] # Blank
AllAgree == Agrees(lines, LinesOf(live)) /\ \A f \in File : Agrees(stored[f], LinesOf(live))

Ledger ==
  /\ booked # 0 => open
  /\ booked = 0 => ~Written
  /\ requeue # "idle" => preempt
  /\ live # NoMap /\ ToBuild(live) # {} => preempt
  /\ Written => live.run = booked \/ booked \in superseded
  /\ Written /\ live.run = booked => ToBuild(live) = {}
  /\ live # NoMap /\ live.run = booked => AllAgree

LEMMA BlankAgrees ==
  ASSUME NEW m
  PROVE  Agrees(Blank, LinesOf(m))
BY DEF Agrees, Blank, NoLine

LEMMA UnwrittenAgrees ==
  ASSUME ~Written
  PROVE  AllAgree
<1>1. lines = Blank /\ \A f \in File : stored[f] = Blank
  BY DEF Written
<1> QED BY <1>1, BlankAgrees DEF AllAgree

LEMMA LinesAgree ==
  ASSUME NEW m
  PROVE  Agrees(LinesOf(m), LinesOf(m))
BY DEF Agrees, LinesOf, evaluate_name

LEMMA LedgerInit == Init => Ledger
<1> SUFFICES ASSUME Init PROVE Ledger
  OBVIOUS
<1>1. PICK s \in [Name -> {"to_run", "analysis_incomplete"}] :
        live = [run |-> 1, state |-> s, attempts |-> [n \in Name |-> 0], early |-> {}]
  BY DEF Init
<1>2. ToBuild(live) = {}
  BY <1>1 DEF ToBuild
<1>3. ~Written
  BY DEF Init, Written, Blank
<1>4. AllAgree
  BY <1>3, UnwrittenAgrees
<1>5. booked = 0 /\ requeue = "idle"
  BY DEF Init
<1> QED BY <1>2, <1>3, <1>4, <1>5 DEF Ledger

\* A run of a name that may run leaves its lines as they are, or resolves it.
LEMMA RanAgrees ==
  ASSUME NEW m \in Map, NEW n \in Name, m.state[n] \in {"to_run", "pending"},
         NEW after \in {"complete", "pending", "analysis_incomplete"},
         NEW old, Agrees(old, LinesOf(m))
  PROVE  Agrees(old, LinesOf(Ran(m, n, after, m.early)))
<1> DEFINE r == Ran(m, n, after, m.early)
<1>1. /\ r.state = [m.state EXCEPT ![n] = after]
      /\ r.attempts = [m.attempts EXCEPT ![n] = m.attempts[n] + 1]
      /\ r.early = m.early
  BY DEF Ran, Map
<1>2. m.attempts[n] \in Nat
  BY MapFacts, FormationAssumption
<1> HIDE DEF r
<1> SUFFICES ASSUME NEW k \in Name
             PROVE  /\ old[k].fill \in {"none", FillLine(r, k)}
                    /\ old[k].late \in {"none", LateLine(r, k)}
  BY DEF Agrees, LinesOf, evaluate_name, r
<1>3. /\ old[k].fill \in {"none", FillLine(m, k)}
      /\ old[k].late \in {"none", LateLine(m, k)}
  BY DEF Agrees, LinesOf, evaluate_name
<1>4. CASE k = n
  <2>1. HasPacket(m, k) /\ LateLine(m, k) = "none"
    BY <1>4 DEF HasPacket, LateLine
  <2>2. r.state[k] = after /\ r.attempts[k] = m.attempts[k] + 1
    BY <1>1, <1>4, MapFacts
  <2>3. HasPacket(r, k)
    BY <1>2, <1>4, <2>2 DEF HasPacket
  <2>4. FillLine(r, k) = FillLine(m, k)
    BY <1>1, <2>1, <2>3 DEF FillLine
  <2> QED BY <1>3, <2>1, <2>4
<1>5. CASE k # n
  <2>1. r.state[k] = m.state[k] /\ r.attempts[k] = m.attempts[k]
    BY <1>1, <1>5, MapFacts
  <2> QED BY <1>1, <1>3, <2>1 DEF FillLine, LateLine, HasPacket
<1> QED BY <1>4, <1>5

LEMMA LedgerRun ==
  ASSUME LInv, Ledger, SomeRun
  PROVE  Ledger'
<1>1. mem = live /\ live \in Map /\ Tried(live) /\ live # NoMap
  BY MapThere DEF SomeRun, RunName, LInv, Excl, TInv, Shape
<1>2. PICK n \in Runnable(live), early \in SUBSET Name,
           after \in {"complete", "pending", "analysis_incomplete"} :
        /\ n \in Name /\ live.state[n] \in {"to_run", "pending"}
        /\ after = "pending" => live.attempts[n] + 1 < MAX_ATTEMPTS
        /\ early # live.early => ~open
        /\ live' = Ran(live, n, after, early)
  BY <1>1, RunNameIsRan
<1>3. /\ UNCHANGED <<open, superseded, requeue, preempt, booked, lines, stored>>
      /\ Written' <=> Written
  BY DEF SomeRun, RunName, Written
<1>4. live'.run = live.run /\ live'.state = [live.state EXCEPT ![n] = after]
  BY <1>1, <1>2 DEF Ran, Map
<1>5. ToBuild(live') = ToBuild(live)
  BY <1>1, <1>2, <1>4, MapFacts DEF ToBuild
<1>6. live.run = booked => AllAgree'
  <2> SUFFICES ASSUME live.run = booked PROVE AllAgree'
    OBVIOUS
  <2>1. booked # 0 /\ open
    BY <1>1, MapFacts DEF Ledger
  <2>2. live' = Ran(live, n, after, live.early)
    BY <1>2, <2>1
  <2>3. AllAgree
    BY <1>1 DEF Ledger
  <2>4. Agrees(lines, LinesOf(live'))
    BY <1>1, <1>2, <2>2, <2>3, RanAgrees DEF AllAgree
  <2>5. ASSUME NEW f \in File PROVE Agrees(stored[f], LinesOf(live'))
    BY <1>1, <1>2, <2>2, <2>3, RanAgrees DEF AllAgree
  <2> QED BY <1>3, <2>4, <2>5 DEF AllAgree
<1> QED BY <1>1, <1>3, <1>4, <1>5, <1>6 DEF Ledger

LEMMA LedgerDecide ==
  ASSUME LInv, Newer, Ledger, Decide
  PROVE  Ledger'
<1>1. /\ UNCHANGED <<open, superseded, preempt, booked, lines, stored>>
      /\ Written' <=> Written
      /\ requeue = "deciding" /\ requeue' = "building"
  BY DEF Decide, Written
<1>2. preempt
  BY <1>1 DEF Ledger
<1>3. CASE live # NoMap
  <2>1. live' = live
    BY <1>3 DEF Decide
  <2>2. AllAgree => AllAgree'
    BY <1>1, <2>1 DEF AllAgree
  <2> QED BY <1>1, <1>2, <2>1, <2>2 DEF Ledger
<1>4. CASE live = NoMap
  <2>1. live'.run = newest
    BY <1>4 DEF Decide, decision_for, NewMap
  <2>2. Written => booked \in superseded /\ booked # newest
    <3>1. Written => booked # 0 /\ live.run = 0
      BY <1>4, MapThere DEF LInv, Ledger
    <3> QED BY <3>1, RunNumbers DEF Ledger, Newer
  <2>3. live'.run = booked => AllAgree'
    <3> SUFFICES ASSUME live'.run = booked PROVE AllAgree'
      OBVIOUS
    <3>1. ~Written
      BY <2>1, <2>2
    <3>2. lines' = Blank /\ \A f \in File : stored'[f] = Blank
      BY <1>1, <3>1 DEF Written
    <3> QED BY <3>2, BlankAgrees DEF AllAgree
  <2> QED BY <1>1, <1>2, <2>1, <2>2, <2>3 DEF Ledger
<1> QED BY <1>3, <1>4

LEMMA LedgerPacket ==
  ASSUME LInv, Ledger, SomePacket
  PROVE  Ledger'
<1>1. /\ UNCHANGED <<open, superseded, requeue, preempt, booked, lines, stored>>
      /\ Written' <=> Written
      /\ ToBuild(live) # {} /\ requeue = "building"
  BY DEF SomePacket, Packet, Written
<1>2. live \in Map /\ Tried(live) /\ live # NoMap
  BY <1>1, MapThere, MapFacts DEF LInv, TInv, Shape
<1>3. PICK n \in ToBuild(live), after \in {"analysis_incomplete", "to_run"} :
        live' = Built(live, n, after)
  BY PacketIsBuilt
<1>4. live'.run = live.run
  BY <1>2, <1>3, BuiltMap
<1>5. live.run = booked => ~Written /\ AllAgree'
  <2> SUFFICES ASSUME live.run = booked PROVE ~Written /\ AllAgree'
    OBVIOUS
  <2>1. ~Written
    BY <1>1 DEF Ledger
  <2>2. lines' = Blank /\ \A f \in File : stored'[f] = Blank
    BY <1>1, <2>1 DEF Written
  <2> QED BY <2>1, <2>2, BlankAgrees DEF AllAgree
<1>6. preempt
  BY <1>1 DEF Ledger
<1> QED BY <1>1, <1>4, <1>5, <1>6 DEF Ledger

LEMMA LedgerAside ==
  ASSUME LInv, Ledger, MapAside
  PROVE  Ledger'
<1>1. /\ UNCHANGED <<open, preempt, booked, lines, stored>>
      /\ Written' <=> Written
      /\ superseded' = superseded \cup {live.run} /\ live' = NoMap
      /\ requeue = "moving"
  BY DEF MapAside, Written
<1>2. live'.run = 0 /\ (Written => booked # 0)
  BY <1>1, MapThere DEF LInv, Ledger
<1> QED BY <1>1, <1>2 DEF Ledger

LEMMA LedgerMonthly ==
  ASSUME EngineWaits, LInv, Ledger, Monthly
  PROVE  Ledger'
<1>0. live # NoMap => live.run # 0
  BY MapThere DEF LInv
<1>1. CASE Book
  <2>1. /\ UNCHANGED <<live, superseded, requeue, preempt, lines, stored>>
        /\ Written' <=> Written
        /\ open' /\ booked \in {0, booked'} /\ booked' \in Run
    BY <1>1 DEF Book, Archive, Written
  <2>2. booked' # 0
    BY <2>1, FormationAssumption
  <2>3. AllAgree' <=> AllAgree
    BY <2>1 DEF AllAgree
  <2>4. CASE booked = 0
    <3>1. ~Written /\ AllAgree
      BY <2>4, UnwrittenAgrees DEF Ledger
    <3> QED BY <2>1, <2>2, <2>3, <3>1 DEF Ledger
  <2>5. CASE booked' = booked
    BY <2>1, <2>2, <2>3, <2>5 DEF Ledger
  <2> QED BY <2>1, <2>4, <2>5
<1>2. CASE Engine
  <2>1. /\ UNCHANGED <<open, live, superseded, requeue, preempt, booked, stored>>
        /\ requeue = "idle" /\ ~preempt
        /\ \/ lines' = lines
           \/ /\ lines' = LinesOf(live) /\ live.run = booked
              /\ \A f \in File : Agrees(stored[f], LinesOf(live))
    BY <1>2 DEF Engine
  <2>2. CASE lines' = lines
    <3>1. (Written' <=> Written) /\ (AllAgree' <=> AllAgree)
      BY <2>1, <2>2 DEF Written, AllAgree
    <3> QED BY <2>1, <3>1 DEF Ledger
  <2>3. CASE /\ lines' = LinesOf(live) /\ live.run = booked
             /\ \A f \in File : Agrees(stored[f], LinesOf(live))
    <3>1. booked # 0 /\ live # NoMap
      <4>1. booked # 0
        BY <1>2 DEF Engine, LInv, TInv, Shape
      <4> QED BY <2>3, <4>1, MapThere DEF LInv
    <3>2. ToBuild(live) = {}
      BY <2>1, <3>1 DEF Ledger
    <3>3. AllAgree'
      BY <2>1, <2>3, LinesAgree DEF AllAgree
    <3> QED BY <2>1, <2>3, <3>1, <3>2, <3>3 DEF Ledger
  <2> QED BY <2>1, <2>2, <2>3
<1>3. CASE MonthlyDies \/ \E f \in File : Append(f)
  <2>1. /\ UNCHANGED <<open, live, superseded, requeue, preempt, booked>>
        /\ lines' \in {lines, Blank}
        /\ \A f \in File : stored'[f] \in {stored[f], lines}
    BY <1>3 DEF MonthlyDies, Append, Blank, LInv, TInv, TypeOK
  <2>2. Written' => Written
    BY <2>1 DEF Written
  <2>3. AllAgree => AllAgree'
    <3> SUFFICES ASSUME AllAgree PROVE AllAgree'
      OBVIOUS
    <3>1. Agrees(lines', LinesOf(live))
      BY <2>1, BlankAgrees DEF AllAgree
    <3>2. \A f \in File : Agrees(stored'[f], LinesOf(live))
      BY <2>1 DEF AllAgree
    <3> QED BY <2>1, <3>1, <3>2 DEF AllAgree
  <2> QED BY <2>1, <2>2, <2>3 DEF Ledger
<1> QED BY <1>1, <1>2, <1>3 DEF Monthly

LEMMA LedgerNext ==
  ASSUME EngineWaits
  PROVE  LInv /\ Newer /\ Ledger /\ [Next]_vars => Ledger'
<1> SUFFICES ASSUME LInv, Newer, Ledger, [Next]_vars PROVE Ledger'
  OBVIOUS
\* Steps that leave the map, the ledger, and what they need, alone.
<1>1. ASSUME UNCHANGED <<live, superseded, booked, lines, stored>>, booked # 0 => open',
             requeue' # "idle" => preempt',
             live # NoMap /\ ToBuild(live) # {} => preempt'
      PROVE  Ledger'
  <2>1. (Written' <=> Written) /\ (AllAgree' <=> AllAgree)
    BY <1>1 DEF Written, AllAgree
  <2> QED BY <1>1, <2>1 DEF Ledger
<1>2. CASE Runner
  <2>1. CASE SomeRun
    BY <2>1, LedgerRun
  <2>2. CASE ~SomeRun
    <3>1. UNCHANGED <<open, live, superseded, booked, lines, stored, requeue, preempt>>
      BY <1>2, <2>2 DEF Runner, RunnerStarts, RunnerLocks, GpuBusy, RunnerEnds,
                        RunnerDies, SomeRun
    <3> QED BY <1>1, <3>1 DEF Ledger
  <2> QED BY <2>1, <2>2
<1>3. CASE World \/ UNCHANGED vars
  <2>1. UNCHANGED <<live, superseded, booked, lines, stored, requeue, preempt>>
    BY <1>3 DEF World, FillOpens, CheckNewRuns, vars
  <2>2. open => open'
    BY <1>3 DEF World, FillOpens, CheckNewRuns, vars
  <2> QED BY <1>1, <2>1, <2>2 DEF Ledger
<1>4. CASE RequeueStarts
  <2>1. UNCHANGED <<open, live, superseded, booked, lines, stored>> /\ preempt' = TRUE
    BY <1>4 DEF RequeueStarts
  <2> QED BY <1>1, <2>1 DEF Ledger
<1>5. CASE RequeueUnchanged
  <2>1. /\ UNCHANGED <<open, live, superseded, booked, lines, stored>>
        /\ requeue' = "idle" /\ ToBuild(live) = {}
    BY <1>5 DEF RequeueUnchanged
  <2> QED BY <1>1, <2>1 DEF Ledger
<1>6. CASE RequeueTakes \/ RequeueLocks \/ FlagAside \/ DecideStops \/ RequeueDies
  <2>1. /\ UNCHANGED <<open, live, superseded, booked, lines, stored, preempt>>
        /\ requeue # "idle"
    BY <1>6 DEF RequeueTakes, RequeueLocks, FlagAside, DecideStops, RequeueDies
  <2> QED BY <1>1, <2>1 DEF Ledger
<1>7. CASE RequeueEnds
  <2>1. /\ UNCHANGED <<open, live, superseded, booked, lines, stored>>
        /\ requeue' = "idle" /\ ToBuild(live) = {}
    BY <1>7 DEF RequeueEnds
  <2> QED BY <1>1, <2>1 DEF Ledger
<1> QED
  BY <1>2, <1>3, <1>4, <1>5, <1>6, <1>7, LedgerDecide, LedgerPacket, LedgerAside,
     LedgerMonthly
  DEF Next, Requeue, SomePacket

\* No stored line of the booked run ever differs from its recomputation: the
\* engine never stops on its own ledger, whatever runs, re-queues and crashes come
\* between its appends, as long as it does not start inside a re-queue.
THEOREM LedgerCorrect ==
  ASSUME LockIsAtomic, EngineWaits
  PROVE  Spec => []LedgerRecomputes
<1>1. Ledger => LedgerRecomputes
  BY DEF Ledger, LedgerRecomputes, AllAgree
<1> QED BY <1>1, LockCorrect, NewerInit, NewerNext, LedgerInit, LedgerNext, PTL DEF Spec

===============================================================================
