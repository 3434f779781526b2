-------------------------- MODULE DepthCadence_proofs --------------------------
(***************************************************************************)
(* Theorems about DepthCadence, for every book, every dwell and every      *)
(* number of retries: the retry budget holds, a sweep runs its rotations   *)
(* last, and the log gives no name its first run before its dwell.  At the *)
(* end, about QwenWorker: its queue keeps what it owes.  The two stand     *)
(* together because both take rows out of a list with a comprehension.     *)
(***************************************************************************)
EXTENDS DepthCadence, QwenWorker, FiniteSetTheorems, TLAPS

-------------------------------------------------------------------------------
(* What the proofs need of the types: all but the log and the history.     *)
StateRec == [ok : BOOLEAN, retries : Nat]

Types ==
  /\ day \in 1 .. Horizon
  /\ tables \in [Name -> Day] /\ filed \in [Name -> Day]
  /\ st \in [Name -> StateRec]
  /\ tries \in [Name -> Nat]
  /\ queue \in Seq(Name)
  /\ sweep \in {"idle", "due", "forced"}
  /\ why \in [Name -> SUBSET Kinds]
  /\ crashes \in Nat

\* A sweep's queue: it runs while there is one, and no name is in it twice.
QueueShape ==
  /\ sweep = "idle" <=> queue = <<>>
  /\ reading # NoRun => queue # <<>>
  /\ \A i, j \in DOMAIN queue : i # j => queue[i] # queue[j]

\* The names of a sweep that is due have a retry left, the more urgent ones in
\* front.
Chosen ==
  sweep = "due" =>
    /\ \A i \in DOMAIN queue : st[queue[i]].retries < MAX_RETRIES
    /\ \A i, j \in DOMAIN queue : i < j => Urgency(queue[i]) <= Urgency(queue[j])

Running(t) == IF reading # NoRun /\ sweep = "due" /\ t = Head(queue) THEN 1 ELSE 0

\* Every run without a success was recorded, died, or is the one that runs.
Counted ==
  \A t \in Name :
    /\ st[t].ok => st[t].retries = 0
    /\ tries[t] <= crashes + st[t].retries + Running(t)
    /\ tries[t] <= crashes + MAX_RETRIES

Budget == Types /\ QueueShape /\ Chosen /\ Counted

-------------------------------------------------------------------------------
(* build_queue.                                                            *)
LEMMA Numbers == MAX_RETRIES \in Nat \ {0} /\ Horizon \in Nat \ {0} /\ Name \subseteq Nat
BY CadenceAssumption

\* The order is strict, and puts the smaller classes in front.
LEMMA OrderFacts ==
  ASSUME NEW trig, NEW t \in Name, NEW u \in Name, Before(trig, t, u)
  PROVE  t # u /\ Class(trig, t) <= Class(trig, u)
<1>1. Class(trig, t) \in 0 .. 3 /\ Class(trig, u) \in 0 .. 3
  BY DEF Class
<1>2. Rank(t) \in 0 .. 2 /\ t \in Nat
  BY Numbers DEF Rank
<1> QED BY <1>1, <1>2 DEF Before

\* What a queue of build_queue is: each name once, in order, with a retry left.
LEMMA QueueFacts ==
  ASSUME Types, Counted, NEW rows, NEW trig, NEW q \in build_queue(rows, trig)
  PROVE  /\ q \in Seq(Name)
         /\ \A i, j \in DOMAIN q : i # j => q[i] # q[j]
         /\ \A i \in DOMAIN q : st[q[i]].retries < MAX_RETRIES
         /\ \A i, j \in DOMAIN q : i < j => Class(trig, q[i]) <= Class(trig, q[j])
<1> DEFINE S == {t \in live_book : due(rows, trig, t)}
<1>1. S \subseteq Name /\ IsFiniteSet(S)
  BY CadenceAssumption, FS_Subset DEF live_book, InBook
<1>2. Cardinality(S) \in Nat
  BY <1>1, FS_CardinalityType
<1>3. /\ q \in [1 .. Cardinality(S) -> S]
      /\ \A i, j \in DOMAIN q : i < j => Before(trig, q[i], q[j])
  BY DEF build_queue, Orders
<1>4. \A t \in S : st[t].retries < MAX_RETRIES
  <2> SUFFICES ASSUME NEW t \in S PROVE st[t].retries < MAX_RETRIES
    OBVIOUS
  <2>1. t \in Name /\ due(rows, trig, t)
    BY <1>1
  <2>2. ~st[t].ok => st[t].retries < MAX_RETRIES
    BY <2>1 DEF due
  <2>3. st[t].ok => st[t].retries = 0
    BY <2>1 DEF Counted
  <2> QED BY <2>2, <2>3, Numbers
<1> HIDE DEF S
<1>5. DOMAIN q \subseteq Nat /\ \A i \in DOMAIN q : q[i] \in S /\ q[i] \in Name
  BY <1>1, <1>2, <1>3
<1>6. q \in Seq(Name)
  BY <1>1, <1>2, <1>3
<1>7. \A i, j \in DOMAIN q : i < j =>
        q[i] # q[j] /\ Class(trig, q[i]) <= Class(trig, q[j])
  BY <1>3, <1>5, OrderFacts
<1>8. \A i, j \in DOMAIN q : i # j => q[i] # q[j]
  BY <1>5, <1>7
<1> QED BY <1>4, <1>5, <1>6, <1>7, <1>8

-------------------------------------------------------------------------------
(* The invariant.                                                          *)
LEMMA BudgetInit == Init => Budget
<1> SUFFICES ASSUME Init PROVE Budget
  OBVIOUS
<1>1. Types
  BY Numbers DEF Init, Types, StateRec, NoRecord, Day
<1>2. QueueShape /\ Chosen
  BY DEF Init, QueueShape, Chosen
<1>3. Counted
  BY Numbers DEF Init, Counted, Running, NoRecord
<1> QED BY <1>1, <1>2, <1>3 DEF Budget

\* The world moves: no file and no sweep is touched.
LEMMA WorldStep ==
  ASSUME Budget,
         NextDay \/ \E t \in Filers : File8K(t) \/ FileQuarterly(t) \/ TablesLand(t)
  PROVE  Budget'
<1>1. UNCHANGED <<files, run, bounds, history>>
  BY DEF NextDay, File8K, FileQuarterly, TablesLand
<1> DEFINE Moved == day' \in 1 .. Horizon /\ filed' \in [Name -> Day] /\ tables' \in [Name -> Day]
<1>2. Moved
  <2> USE Numbers DEF Budget, Types, Day
  <2>1. CASE NextDay
    BY <2>1 DEF NextDay
  <2>2. ASSUME NEW t \in Filers, File8K(t) PROVE Moved
    BY <2>2 DEF File8K
  <2>3. ASSUME NEW t \in Filers, FileQuarterly(t) PROVE Moved
    <3>1. filed' = [filed EXCEPT ![t] = day] /\ day' = day /\ tables' = tables
      BY <2>3 DEF FileQuarterly
    <3>2. day \in Day
      OBVIOUS
    <3> QED BY <3>1, <3>2
  <2>4. ASSUME NEW t \in Filers, TablesLand(t) PROVE Moved
    BY <2>4 DEF TablesLand
  <2> QED BY <2>1, <2>2, <2>3, <2>4
<1>3. Types'
  BY <1>1, <1>2 DEF Budget, Types, files, run, bounds, history
<1>4. QueueShape' /\ Chosen'
  BY <1>1 DEF Budget, QueueShape, Chosen, Urgency, files, run
<1>5. Counted'
  BY <1>1 DEF Budget, Counted, Running, files, run, bounds, history
<1> QED BY <1>3, <1>4, <1>5 DEF Budget

LEMMA StartStep ==
  ASSUME Budget, StartSweep \/ \E t \in Name : StartForced(t)
  PROVE  Budget'
<1>1. /\ UNCHANGED <<day, world, vdate, st, reading, crashes, tries>> /\ reading = NoRun
  BY DEF StartSweep, StartForced, bounds, Budget, QueueShape
<1>2. Counted' /\ (Types /\ queue' \in Seq(Name) /\ sweep' \in {"idle", "due", "forced"} => Types')
  <2>1. \A rows, t : triggers_for(rows, t)' \subseteq Kinds
    BY DEF triggers_for
  <2>2. why' \in [Name -> SUBSET Kinds]
    BY DEF StartSweep, StartForced, triggers_for
  <2>3. Counted'
    BY <1>1 DEF Budget, Counted, Running
  <2> QED BY <1>1, <2>2, <2>3 DEF Types, world
<1>3. CASE StartSweep
  <2> DEFINE trig == [t \in Name |-> triggers_for(log', t)]
  <2>1. why' = trig /\ queue' \in build_queue(log', trig)
        /\ sweep' = IF queue' = <<>> THEN "idle" ELSE "due"
    BY <1>3 DEF StartSweep
  <2> HIDE DEF trig
  <2>2. /\ queue' \in Seq(Name)
        /\ \A i, j \in DOMAIN queue' : i # j => queue'[i] # queue'[j]
        /\ \A i \in DOMAIN queue' : st[queue'[i]].retries < MAX_RETRIES
        /\ \A i, j \in DOMAIN queue' : i < j => Class(trig, queue'[i]) <= Class(trig, queue'[j])
    BY <2>1, QueueFacts DEF Budget
  <2>3. \A t : Urgency(t)' = Class(trig, t)
    BY <1>1, <2>1 DEF Urgency, Class
  <2>4. QueueShape'
    BY <1>1, <2>1, <2>2 DEF QueueShape
  <2>5. Chosen'
    BY <1>1, <2>2, <2>3 DEF Chosen
  <2> QED BY <1>2, <2>1, <2>2, <2>4, <2>5 DEF Budget
<1>4. CASE \E t \in Name : StartForced(t)
  <2>1. PICK t \in Name : StartForced(t)
    BY <1>4
  <2>2. queue' = <<t>> /\ sweep' = "forced"
    BY <2>1 DEF StartForced
  <2>3. queue' \in Seq(Name) /\ QueueShape' /\ Chosen'
    BY <2>2 DEF QueueShape, Chosen
  <2> QED BY <1>2, <2>2, <2>3 DEF Budget
<1> QED BY <1>3, <1>4

LEMMA RunStartsStep ==
  ASSUME Budget, RunStarts
  PROVE  Budget'
<1>1. /\ queue # <<>> /\ reading = NoRun /\ reading' = tables[Head(queue)]
      /\ tries' = IF sweep = "forced" THEN tries ELSE [tries EXCEPT ![Head(queue)] = @ + 1]
      /\ UNCHANGED <<day, world, files, sweep, queue, why, crashes>>
  BY DEF RunStarts, bounds
<1>2. Head(queue) \in Name /\ Head(queue) = queue[1] /\ 1 \in DOMAIN queue
  BY <1>1 DEF Budget, Types
<1>3. reading' # NoRun
  BY <1>1, <1>2, Numbers DEF Budget, Types, Day, NoRun
<1>4. Types'
  BY <1>1, <1>2 DEF Budget, Types, world, files
<1>5. QueueShape' /\ Chosen'
  BY <1>1 DEF Budget, QueueShape, Chosen, Urgency, files
<1>6. Counted'
  <2>1. CASE sweep = "forced"
    BY <1>1, <2>1 DEF Budget, Counted, Running, files
  <2>2. CASE sweep = "due"
    <3>1. st[Head(queue)].retries < MAX_RETRIES
      BY <1>2, <2>2 DEF Budget, Chosen
    <3>2. \A t \in Name : tries[t] \in Nat /\ st[t].retries \in Nat /\ crashes \in Nat
                          /\ tries[t] <= crashes + st[t].retries
      BY <1>1 DEF Budget, Types, StateRec, Counted, Running
    <3>3. \A t \in Name : tries'[t] = tries[t] + Running(t)'
      BY <1>1, <1>2, <1>3, <2>2 DEF Running, Budget, Types
    <3>4. \A t \in Name : Running(t)' \in {0, 1} /\ (Running(t)' = 1 => t = Head(queue))
      BY <1>1 DEF Running
    <3> SUFFICES ASSUME NEW t \in Name
                 PROVE /\ st[t].ok => st[t].retries = 0
                       /\ tries'[t] <= crashes + st[t].retries + Running(t)'
                       /\ tries'[t] <= crashes + MAX_RETRIES
      BY <1>1 DEF Counted, files
    <3>5. st[t].ok => st[t].retries = 0
      BY DEF Budget, Counted
    <3>6. tries'[t] <= crashes + st[t].retries + Running(t)'
      BY <3>2, <3>3, <3>4
    <3>7. tries[t] <= crashes + MAX_RETRIES
      BY DEF Budget, Counted
    <3>8. tries'[t] <= crashes + MAX_RETRIES
      BY <3>1, <3>2, <3>3, <3>4, <3>7, Numbers
    <3> QED BY <3>5, <3>6, <3>8
  <2>3. sweep # "idle"
    BY <1>1 DEF Budget, QueueShape
  <2> QED BY <2>1, <2>2, <2>3 DEF Budget, Types
<1> QED BY <1>4, <1>5, <1>6 DEF Budget

\* The end of a run takes its name off the queue.
LEMMA TailFacts ==
  ASSUME Types, QueueShape, reading # NoRun, EndOfRun
  PROVE  /\ queue # <<>> /\ Head(queue) \in Name /\ Head(queue) = queue[1]
         /\ queue' \in Seq(Name)
         /\ \A i \in DOMAIN queue' : i + 1 \in DOMAIN queue /\ queue'[i] = queue[i + 1]
         /\ \A i \in DOMAIN queue' : queue'[i] # Head(queue) /\ queue'[i] \in Name
         /\ QueueShape'
         /\ sweep' \in {sweep, "idle"} /\ reading' = NoRun
         /\ \A t \in Name \ {Head(queue)} : why'[t] = why[t]
         /\ why' \in [Name -> SUBSET Kinds]
<1>1. queue # <<>> /\ queue \in Seq(Name)
  BY DEF QueueShape, Types
<1>2. /\ queue' = Tail(queue) /\ reading' = NoRun
      /\ sweep' = IF queue' = <<>> THEN "idle" ELSE sweep
      /\ why' = [why EXCEPT ![Head(queue)] = {}]
  BY DEF EndOfRun
<1>3. Head(queue) \in Name /\ Head(queue) = queue[1] /\ queue' \in Seq(Name)
  BY <1>1, <1>2
<1>4. \A i \in DOMAIN queue' : i \in Nat /\ i >= 1 /\ i + 1 \in DOMAIN queue
                               /\ queue'[i] = queue[i + 1]
  BY <1>1, <1>2
<1>5. \A i \in DOMAIN queue' : queue'[i] # queue[1] /\ queue'[i] \in Name
  <2>1. 1 \in DOMAIN queue
    BY <1>1
  <2> QED BY <1>1, <1>4, <2>1 DEF QueueShape
<1>6. \A i, j \in DOMAIN queue' : i # j => queue'[i] # queue'[j]
  BY <1>4 DEF QueueShape
<1>7. QueueShape'
  BY <1>1, <1>2, <1>6 DEF QueueShape
<1>8. /\ why' \in [Name -> SUBSET Kinds]
      /\ \A t \in Name \ {Head(queue)} : why'[t] = why[t]
  BY <1>2, <1>3 DEF Types
<1> QED BY <1>1, <1>2, <1>3, <1>4, <1>5, <1>7, <1>8

LEMMA RunEndsStep ==
  ASSUME Budget, RunSucceeds \/ RunFails
  PROVE  Budget'
<1> DEFINE h == Head(queue)
<1>1. /\ reading # NoRun /\ EndOfRun /\ UNCHANGED <<day, world, crashes>>
  BY DEF RunSucceeds, RunFails, bounds
<1>2. /\ queue # <<>> /\ h \in Name /\ queue' \in Seq(Name)
      /\ \A i \in DOMAIN queue' : i + 1 \in DOMAIN queue /\ queue'[i] = queue[i + 1]
      /\ \A i \in DOMAIN queue' : queue'[i] # h /\ queue'[i] \in Name
      /\ QueueShape' /\ sweep' \in {sweep, "idle"} /\ reading' = NoRun
      /\ \A t \in Name \ {h} : why'[t] = why[t]
      /\ why' \in [Name -> SUBSET Kinds]
  BY <1>1, TailFacts DEF Budget
<1>3. /\ st' \in [Name -> StateRec] /\ tries' \in [Name -> Nat]
      /\ \A t \in Name \ {h} : /\ st'[t] = st[t] /\ tries'[t] = tries[t]
                               /\ (vdate'[t] = 0 <=> vdate[t] = 0)
      /\ \/ st'[h].ok = TRUE /\ st'[h].retries = 0 /\ tries'[h] = 0
         \/ st'[h].ok = FALSE /\ st'[h].retries = st[h].retries + 1 /\ tries'[h] = tries[h]
  <2>1. st \in [Name -> StateRec] /\ tries \in [Name -> Nat]
    BY DEF Budget, Types
  <2>2. CASE RunSucceeds
    <3>1. /\ st' = [st EXCEPT ![h] = NoRecord] /\ tries' = [tries EXCEPT ![h] = 0]
          /\ vdate' = [vdate EXCEPT ![h] = day]
      BY <2>2 DEF RunSucceeds
    <3>2. NoRecord \in StateRec /\ NoRecord.ok = TRUE /\ NoRecord.retries = 0
      BY DEF NoRecord, StateRec
    <3>3. \A t \in Name \ {h} : vdate'[t] = vdate[t]
      BY <3>1
    <3> QED BY <1>2, <2>1, <3>1, <3>2, <3>3
  <2>3. CASE RunFails
    <3>1. st' = [st EXCEPT ![h] = Failed(h)] /\ tries' = tries /\ vdate' = vdate
      BY <2>3 DEF RunFails, history
    <3>2. /\ Failed(h) \in StateRec /\ Failed(h).ok = FALSE
          /\ Failed(h).retries = st[h].retries + 1
      BY <1>2, <2>1 DEF Failed, StateRec
    <3> QED BY <1>2, <2>1, <3>1, <3>2
  <2> QED BY <2>2, <2>3
<1>4. Types'
  BY <1>1, <1>2, <1>3 DEF Budget, Types, world
<1>5. Chosen'
  <2> SUFFICES ASSUME sweep' = "due" PROVE Chosen'
    BY DEF Chosen
  <2>1. sweep = "due"
    BY <1>2
  <2>2. \A i \in DOMAIN queue' : st'[queue'[i]].retries < MAX_RETRIES
    BY <1>2, <1>3, <2>1 DEF Budget, Chosen
  <2>3. \A t \in Name \ {h} : Urgency(t)' = Urgency(t)
    BY <1>2, <1>3 DEF Urgency
  <2>4. \A i, j \in DOMAIN queue' : i < j => i + 1 < j + 1
    <3>1. DOMAIN queue' \subseteq Nat
      BY <1>2
    <3> QED BY <3>1
  <2>5. (\A i, j \in DOMAIN queue : i < j => Urgency(queue[i]) <= Urgency(queue[j]))'
    <3> SUFFICES ASSUME NEW i \in DOMAIN queue', NEW j \in DOMAIN queue', i < j
                 PROVE  (Urgency(queue[i]) <= Urgency(queue[j]))'
      OBVIOUS
    <3>1. Urgency(queue[i + 1]) <= Urgency(queue[j + 1])
      BY <1>2, <2>1, <2>4 DEF Budget, Chosen
    <3>2. PICK t \in Name \ {h}, u \in Name \ {h} :
            /\ t = queue'[i] /\ t = queue[i + 1]
            /\ u = queue'[j] /\ u = queue[j + 1]
      BY <1>2
    <3>3. Urgency(t)' = Urgency(t) /\ Urgency(u)' = Urgency(u)
      BY <2>3
    <3>4. Urgency(t)' <= Urgency(u)'
      BY <3>1, <3>2, <3>3
    <3> QED BY <3>2, <3>4 DEF Urgency
  <2> QED BY <2>2, <2>5 DEF Chosen
<1>6. Counted'
  <2> SUFFICES ASSUME NEW t \in Name
               PROVE  /\ st'[t].ok => st'[t].retries = 0
                      /\ tries'[t] <= crashes' + st'[t].retries + Running(t)'
                      /\ tries'[t] <= crashes' + MAX_RETRIES
    BY DEF Counted
  <2>1. Running(t)' = 0 /\ Running(t) \in {0, 1} /\ (t # h => Running(t) = 0)
    BY <1>2 DEF Running
  <2>2. /\ tries[t] \in Nat /\ st[t].retries \in Nat /\ crashes \in Nat /\ crashes' = crashes
        /\ st[t].ok => st[t].retries = 0
        /\ tries[t] <= crashes + st[t].retries + Running(t)
        /\ tries[t] <= crashes + MAX_RETRIES
    BY <1>1 DEF Budget, Types, StateRec, Counted
  <2>3. CASE t # h
    BY <1>3, <2>1, <2>2, <2>3
  <2>4. CASE t = h
    BY <1>3, <2>1, <2>2, <2>4, Numbers
  <2> QED BY <2>3, <2>4
<1> QED BY <1>2, <1>4, <1>5, <1>6 DEF Budget

\* A pause or a crash: the queue is gone.
LEMMA StopStep ==
  ASSUME Budget, PauseSweep \/ CrashSweep
  PROVE  Budget'
<1>1. /\ queue' = <<>> /\ sweep' = "idle" /\ reading' = NoRun
      /\ why' = [t \in Name |-> {}]
      /\ UNCHANGED <<day, world, files, history>>
      /\ crashes' \in Nat
      /\ \/ reading = NoRun /\ crashes' = crashes
         \/ crashes' = crashes + 1
  BY DEF PauseSweep, CrashSweep, Stop, bounds, Budget, Types
<1>2. Types'
  BY <1>1 DEF Budget, Types, world, files, history
<1>3. QueueShape' /\ Chosen'
  BY <1>1 DEF QueueShape, Chosen
<1>4. Counted'
  <2> SUFFICES ASSUME NEW t \in Name
               PROVE  /\ st'[t].ok => st'[t].retries = 0
                      /\ tries'[t] <= crashes' + st'[t].retries + Running(t)'
                      /\ tries'[t] <= crashes' + MAX_RETRIES
    BY DEF Counted
  <2>1. Running(t)' = 0 /\ Running(t) \in {0, 1} /\ (reading = NoRun => Running(t) = 0)
    BY <1>1 DEF Running
  <2>2. /\ tries[t] \in Nat /\ st[t].retries \in Nat /\ crashes \in Nat
        /\ st[t].ok => st[t].retries = 0
        /\ tries[t] <= crashes + st[t].retries + Running(t)
        /\ tries[t] <= crashes + MAX_RETRIES
    BY DEF Budget, Types, StateRec, Counted
  <2>3. tries'[t] = tries[t] /\ st'[t] = st[t]
    BY <1>1 DEF history, files
  <2> QED BY SMTT(30), <1>1, <2>1, <2>2, <2>3, Numbers
<1> QED BY <1>2, <1>3, <1>4 DEF Budget

LEMMA BudgetNext == Budget /\ [Next]_vars => Budget'
<1> SUFFICES ASSUME Budget, [Next]_vars PROVE Budget'
  OBVIOUS
<1>1. CASE UNCHANGED vars
  <2>1. Types'
    BY <1>1 DEF vars, world, files, run, bounds, history, Budget, Types
  <2>2. QueueShape' /\ Chosen'
    BY <1>1 DEF vars, files, run, Budget, QueueShape, Chosen, Urgency
  <2>3. Counted'
    BY <1>1 DEF vars, files, run, bounds, history, Budget, Counted, Running
  <2> QED BY <2>1, <2>2, <2>3 DEF Budget
<1> QED
  BY <1>1, WorldStep, StartStep, RunStartsStep, RunEndsStep, StopStep DEF Next

-------------------------------------------------------------------------------
\* The retry budget, for every book and every MAX_RETRIES: a name is run at most
\* MAX_RETRIES times without a success or an order of the operator, plus the
\* runs that died before depth_state.json recorded them.
THEOREM RetriesCorrect == Spec => []RetriesAreBounded
<1>1. Budget => RetriesAreBounded
  <2> SUFFICES ASSUME Budget, NEW t \in Name PROVE tries[t] <= MAX_RETRIES + crashes
    BY DEF RetriesAreBounded
  <2>1. crashes \in Nat /\ tries[t] <= crashes + MAX_RETRIES
    BY DEF Budget, Types, Counted
  <2> QED BY <2>1, Numbers
<1> QED BY <1>1, BudgetInit, BudgetNext, PTL DEF Spec

\* The priority contract, for every book: a rotation starts only when its sweep
\* has nothing more urgent left.
THEOREM RotationCorrect == Spec => RotationYields
<1>1. Budget /\ [Next]_vars =>
        [RunStarts /\ sweep = "due" /\ Urgency(Head(queue)) = 3
           => \A t \in Waiting : Urgency(t) = 3]_vars
  <2> SUFFICES ASSUME Budget, RunStarts, sweep = "due", Urgency(Head(queue)) = 3,
                      NEW t \in Waiting
               PROVE  Urgency(t) = 3
    OBVIOUS
  <2>1. queue \in Seq(Name) /\ queue # <<>>
    BY DEF Budget, Types, RunStarts
  <2>2. PICK i \in 1 .. Len(queue) : t = queue[i]
    BY DEF Waiting
  <2>3. Head(queue) = queue[1] /\ 1 \in DOMAIN queue /\ i \in DOMAIN queue
    BY <2>1, <2>2
  <2>4. Urgency(t) \in 0 .. 3
    BY DEF Urgency
  <2>5. CASE i = 1
    BY <2>2, <2>3, <2>5
  <2>6. CASE i > 1
    <3>1. Urgency(queue[1]) <= Urgency(queue[i])
      BY <2>3, <2>6 DEF Budget, Chosen
    <3> QED BY <2>2, <2>3, <2>4, <3>1
  <2> QED BY <2>2, <2>5, <2>6
<1> QED BY <1>1, BudgetInit, BudgetNext, PTL DEF Spec, RotationYields

-------------------------------------------------------------------------------
(* What a comprehension leaves of a list.                                  *)
\* Every position of a sublist stands for one that is kept, and no two for the
\* same; every kept position is stood for.
LEMMA NthFacts ==
  ASSUME NEW n \in Nat, NEW S, S \subseteq 1 .. n
  PROVE  /\ Cardinality(S) \in Nat
         /\ \A k \in 1 .. Cardinality(S) :
               Nth(S, k) \in S /\ Cardinality({j \in S : j <= Nth(S, k)}) = k
         /\ \A k, l \in 1 .. Cardinality(S) : k # l => Nth(S, k) # Nth(S, l)
         /\ \A i \in S : \E k \in 1 .. Cardinality(S) : Nth(S, k) = i
<1> DEFINE Upto(i) == {j \in S : j <= i}
           m == Cardinality(S)
           f == [i \in S |-> Cardinality(Upto(i))]
<1>1. IsFiniteSet(S) /\ m \in Nat
  <2>1. IsFiniteSet(1 .. n)
    BY FS_Interval
  <2>2. IsFiniteSet(S)
    BY <2>1, FS_Subset
  <2> QED BY <2>2, FS_CardinalityType
<1>2. \A i \in S : f[i] \in 1 .. m
  <2> SUFFICES ASSUME NEW i \in S PROVE Cardinality(Upto(i)) \in 1 .. m
    OBVIOUS
  <2>1. Upto(i) \subseteq S /\ i \in Upto(i)
    OBVIOUS
  <2>2. IsFiniteSet(Upto(i)) /\ Cardinality(Upto(i)) <= m
    BY <1>1, <2>1, FS_Subset
  <2>3. Cardinality(Upto(i)) \in Nat /\ Cardinality(Upto(i)) # 0
    BY <2>1, <2>2, FS_CardinalityType, FS_EmptySet
  <2> QED BY <1>1, <2>2, <2>3
<1>3. ASSUME NEW i \in S, NEW j \in S, i < j PROVE f[i] # f[j]
  <2>1. i \in Nat /\ j \in Nat /\ S \subseteq Nat
    OBVIOUS
  <2>2. j \in Upto(j) /\ j \notin Upto(i) /\ Upto(i) \subseteq Upto(j)
    <3>1. j <= j /\ ~(j <= i) /\ \A x \in S : x <= i => x <= j
      BY <1>3, <2>1
    <3> QED BY <3>1
  <2>3. IsFiniteSet(Upto(j))
    BY <1>1, FS_Subset
  <2>4. Cardinality(Upto(i)) # Cardinality(Upto(j))
    BY <2>2, <2>3, FS_Subset
  <2> QED BY <2>4
<1> HIDE DEF f, m
<1>4. f \in Injection(S, 1 .. m)
  <2>1. \A i, j \in S : i # j => f[i] # f[j]
    BY <1>3
  <2>2. f \in [S -> 1 .. m]
    BY <1>2 DEF f
  <2> QED BY <2>1, <2>2 DEF Injection, IsInjective
<1>5. IsFiniteSet(1 .. m) /\ Cardinality(1 .. m) = m
  BY <1>1, FS_Interval
<1>6. f \in Surjection(S, 1 .. m)
  BY <1>1, <1>4, <1>5, FS_Injection DEF m
<1>7. \A k \in 1 .. m : \E i \in S : f[i] = k
  BY <1>6 DEF Surjection
<1>8. \A k \in 1 .. m :
        Nth(S, k) \in S /\ Cardinality(Upto(Nth(S, k))) = k /\ f[Nth(S, k)] = k
  BY <1>7 DEF Nth, f
<1>9. \A i \in S : Nth(S, f[i]) = i
  <2> TAKE i \in S
  <2>1. f[i] \in 1 .. m
    BY <1>2
  <2>2. Nth(S, f[i]) \in S /\ f[Nth(S, f[i])] = f[i]
    BY <1>8, <2>1
  <2> QED BY <1>4, <2>2 DEF Injection, IsInjective
<1> QED BY <1>1, <1>2, <1>8, <1>9 DEF m

\* A set of positions has a last one.
LEMMA LastIn ==
  ASSUME NEW n \in Nat, NEW S, S \subseteq 1 .. n, S # {}
  PROVE  \E i \in S : \A j \in S : j <= i
<1> DEFINE i == Nth(S, Cardinality(S))
<1>1. IsFiniteSet(S)
  <2>1. IsFiniteSet(1 .. n)
    BY FS_Interval
  <2> QED BY <2>1, FS_Subset
<1>2. Cardinality(S) \in 1 .. Cardinality(S)
  BY <1>1, FS_CardinalityType, FS_EmptySet
<1>3. i \in S /\ Cardinality({j \in S : j <= i}) = Cardinality(S)
  BY <1>2, NthFacts
<1>4. {j \in S : j <= i} = S
  BY <1>1, <1>3, FS_Subset
<1> QED BY <1>3, <1>4

\* A sublist is a list of as many elements as there are positions.
LEMMA SublistFacts ==
  ASSUME NEW X, NEW s \in Seq(X), NEW S, S \subseteq 1 .. Len(s)
  PROVE  /\ Sublist(s, S) \in Seq(X)
         /\ Len(Sublist(s, S)) = Cardinality(S) /\ Cardinality(S) \in Nat
<1>1. /\ Cardinality(S) \in Nat
      /\ \A k \in 1 .. Cardinality(S) : Nth(S, k) \in S
  <2>1. Len(s) \in Nat
    OBVIOUS
  <2> QED BY <2>1, NthFacts
<1>2. \A k \in 1 .. Cardinality(S) : s[Nth(S, k)] \in X
  <2>1. \A i \in 1 .. Len(s) : s[i] \in X
    OBVIOUS
  <2> QED BY <1>1, <2>1
<1> DEFINE q == [k \in 1 .. Cardinality(S) |-> s[Nth(S, k)]]
<1>3. q \in [1 .. Cardinality(S) -> X]
  BY <1>2
<1>4. q \in Seq(X) /\ Len(q) = Cardinality(S)
  BY <1>1, <1>3
<1> QED BY <1>1, <1>4 DEF Sublist

-------------------------------------------------------------------------------
(* The log.  Its rows are of different days, and the history has, of every  *)
(* name that a row has in, the row's day.  What is still in a queue was     *)
(* ready for its baseline when the queue was built, or is there on other    *)
(* grounds, and the log has not changed since.                              *)
Line == [date : Nat, in : SUBSET Name]

Logged ==
  /\ log \in Seq(Line)
  /\ inDays \in [Name -> SUBSET (1 .. day)]
  /\ \A i \in DOMAIN log : log[i].date \in 1 .. day
  /\ \A i, j \in DOMAIN log : i # j => log[i].date # log[j].date
  /\ \A i \in DOMAIN log : \A t \in log[i].in : log[i].date \in inDays[t]

Earned ==
  sweep = "due" =>
    \A i \in DOMAIN queue :
      \/ queue[i] \in Held \/ vdate[queue[i]] # 0 \/ ~st[queue[i]].ok
      \/ baseline_ready(log, queue[i])

\* A streak is no longer than the days on which the name was in.
LEMMA StreakDays ==
  ASSUME Logged, day \in Nat \ {0}, NEW t \in Name
  PROVE  dwell_in(log, t) \in Nat /\ Cardinality(inDays[t]) \in Nat
         /\ dwell_in(log, t) <= Cardinality(inDays[t])
<1> DEFINE n == Len(log)
           broken == {i \in 1 .. n : (t \in log[i].in) # TRUE}
           last == CHOOSE i \in broken : \A j \in broken : j <= i
           k == IF broken = {} THEN 0 ELSE last
<1>1. dwell_in(log, t) = n - k
  BY DEF dwell_in, Streak
<1>2. n \in Nat /\ DOMAIN log = 1 .. n
  BY DEF Logged
<1>3. broken # {} => last \in broken /\ \A j \in broken : j <= last
  <2> SUFFICES ASSUME broken # {} PROVE \E i \in broken : \A j \in broken : j <= i
    OBVIOUS
  <2> HIDE DEF broken
  <2>1. broken \subseteq 1 .. n
    BY DEF broken
  <2> QED BY <1>2, <2>1, LastIn
<1>4. k \in 0 .. n /\ \A i \in (k + 1) .. n : i \in 1 .. n /\ t \in log[i].in
  <2>1. broken \subseteq 1 .. n /\ \A i \in 1 .. n : i \notin broken => t \in log[i].in
    OBVIOUS
  <2> HIDE DEF broken, last
  <2>2. k \in 0 .. n
    <3>1. broken # {} => last \in 1 .. n
      BY <1>3, <2>1
    <3> HIDE DEF n
    <3> QED BY <1>2, <3>1
  <2>3. \A i \in (k + 1) .. n : i \in 1 .. n /\ i \notin broken
    BY <1>2, <1>3, <2>1, <2>2
  <2> QED BY <2>1, <2>2, <2>3
<1> HIDE DEF k, broken, last
<1> DEFINE f == [i \in (k + 1) .. n |-> log[i].date]
<1>5. f \in Injection((k + 1) .. n, inDays[t])
  <2>1. \A i \in (k + 1) .. n : log[i].date \in inDays[t]
    BY <1>2, <1>4 DEF Logged
  <2>2. \A i, j \in (k + 1) .. n : i # j => log[i].date # log[j].date
    BY <1>2, <1>4 DEF Logged
  <2> QED BY <2>1, <2>2 DEF Injection, IsInjective
<1>6. IsFiniteSet(inDays[t]) /\ Cardinality(inDays[t]) \in Nat
  <2>1. IsFiniteSet(1 .. day) /\ inDays[t] \in SUBSET (1 .. day)
    BY FS_Interval DEF Logged
  <2> QED BY <2>1, FS_Subset, FS_CardinalityType
<1>7. Cardinality((k + 1) .. n) <= Cardinality(inDays[t])
  BY <1>5, <1>6, FS_Injection
<1>8. Cardinality((k + 1) .. n) = n - k
  <2>1. k + 1 \in Int /\ n \in Int
    BY <1>2, <1>4
  <2>2. Cardinality((k + 1) .. n) = IF k + 1 > n THEN 0 ELSE n - (k + 1) + 1
    BY <2>1, FS_Interval
  <2> QED BY <1>2, <1>4, <2>2
<1> QED BY <1>1, <1>2, <1>4, <1>6, <1>7, <1>8

\* A snapshot and the history's record of it.
LEMMA SnapshotLogged ==
  ASSUME Logged, day \in Nat \ {0}, log' = Snapshot, Remember, day' = day
  PROVE  Logged'
<1> DEFINE S == {i \in DOMAIN log : log[i].date # day}
           old == Sublist(log, S)
           m == Cardinality(S)
           new == [date |-> day, in |-> InBook]
<1>1. log \in Seq(Line) /\ S \subseteq 1 .. Len(log)
  BY DEF Logged
<1>2. InBook \subseteq Name /\ new \in Line
  BY DEF InBook, Line
<1>3. log' = Append(old, new)
  BY DEF Snapshot
<1> HIDE DEF new
<1>4. /\ old \in Seq(Line) /\ Len(old) = m /\ m \in Nat
      /\ \A k \in 1 .. m : Nth(S, k) \in S /\ old[k] = log[Nth(S, k)]
      /\ \A k, l \in 1 .. m : k # l => Nth(S, k) # Nth(S, l)
  <2> HIDE DEF S
  <2>1. /\ Sublist(log, S) \in Seq(Line)
        /\ Len(Sublist(log, S)) = Cardinality(S) /\ Cardinality(S) \in Nat
    <3>1. log \in Seq(Line)
      BY <1>1
    <3>2. S \subseteq 1 .. Len(log)
      BY <1>1
    <3> QED BY <3>1, <3>2, SublistFacts
  <2>2. Len(log) \in Nat
    BY <1>1
  <2>3. /\ \A k \in 1 .. m : Nth(S, k) \in S
        /\ \A k, l \in 1 .. m : k # l => Nth(S, k) # Nth(S, l)
    BY <1>1, <2>2, NthFacts
  <2>4. \A k \in 1 .. m : old[k] = log[Nth(S, k)]
    BY DEF Sublist
  <2> QED BY <2>1, <2>3, <2>4
<1>5. \A i \in S : i \in DOMAIN log /\ log[i].date # day
  OBVIOUS
<1> HIDE DEF S, old, m
<1>6. log' \in Seq(Line) /\ DOMAIN log' = 1 .. m + 1
  BY <1>2, <1>3, <1>4
<1>7. \A k \in 1 .. m : k \in Nat /\ log'[k] = log[Nth(S, k)] /\ Nth(S, k) \in DOMAIN log
                        /\ log[Nth(S, k)].date # day
  BY <1>3, <1>4, <1>5
<1>8. log'[m + 1] = new /\ new.date = day /\ new.in = InBook
  BY <1>2, <1>3, <1>4 DEF new
<1>9. \A k \in DOMAIN log' : k \in 1 .. m \/ k = m + 1
  BY <1>4, <1>6
<1>10. /\ inDays' \in [Name -> SUBSET (1 .. day)]
       /\ \A t \in Name : \A d : d # day => (d \in inDays'[t] <=> d \in inDays[t])
       /\ \A t \in InBook : day \in inDays'[t]
  BY <1>2 DEF Remember, Logged
<1>11. \A k \in DOMAIN log' : log'[k].date \in 1 .. day
  BY <1>7, <1>8, <1>9 DEF Logged
<1>12. \A k, l \in DOMAIN log' : k # l => log'[k].date # log'[l].date
  <2>1. ASSUME NEW k \in 1 .. m, NEW l \in 1 .. m, k # l PROVE log'[k].date # log'[l].date
    <3>1. PICK i \in DOMAIN log : i = Nth(S, k) /\ log'[k] = log[i]
      BY <1>7
    <3>2. PICK j \in DOMAIN log : j = Nth(S, l) /\ log'[l] = log[j]
      BY <1>7
    <3>3. i # j
      BY <1>4, <2>1, <3>1, <3>2
    <3> QED BY <3>1, <3>2, <3>3 DEF Logged
  <2>2. \A k \in 1 .. m : log'[k].date # log'[m + 1].date
    BY <1>7, <1>8
  <2> QED BY <1>9, <2>1, <2>2
<1>13. \A k \in DOMAIN log' : \A t \in log'[k].in : log'[k].date \in inDays'[t]
  <2>1. ASSUME NEW k \in 1 .. m, NEW t \in log'[k].in PROVE log'[k].date \in inDays'[t]
    <3>1. PICK i \in DOMAIN log : log'[k] = log[i] /\ log[i].date # day
      BY <1>7
    <3>2. log[i] \in Line /\ t \in log[i].in
      BY <1>1, <3>1
    <3>3. t \in Name /\ log'[k].date \in inDays[t] /\ log'[k].date # day
      BY <3>1, <3>2 DEF Logged, Line
    <3> QED BY <1>10, <3>3
  <2> QED BY <1>8, <1>9, <1>10, <2>1
<1> QED BY <1>6, <1>10, <1>11, <1>12, <1>13 DEF Logged

LEMMA LoggedNext == Budget /\ Logged /\ [Next]_vars => Logged'
<1> SUFFICES ASSUME Budget, Logged, [Next]_vars PROVE Logged'
  OBVIOUS
<1>1. day \in Nat \ {0}
  BY Numbers DEF Budget, Types
<1>2. CASE UNCHANGED <<log, inDays>> /\ day' \in {day, day + 1}
  <2>1. 1 .. day \subseteq 1 .. day'
    BY <1>1, <1>2
  <2>2. inDays' \in [Name -> SUBSET (1 .. day')]
    BY <1>2, <2>1 DEF Logged
  <2> QED BY <1>2, <2>1, <2>2 DEF Logged
<1>3. CASE log' = Snapshot /\ Remember /\ day' = day
  BY <1>1, <1>3, SnapshotLogged
<1> QED
  BY <1>2, <1>3
  DEF Next, vars, NextDay, StartSweep, RunStarts, RunSucceeds, RunFails, EndOfRun, PauseSweep,
      CrashSweep, File8K, FileQuarterly, TablesLand, StartForced, files, history

LEMMA EarnedNext == Budget /\ Earned /\ [Next]_vars => Earned'
<1> SUFFICES ASSUME Budget, Earned, [Next]_vars, sweep' = "due" PROVE Earned'
  BY DEF Earned
<1>1. CASE StartSweep
  <2> DEFINE trig == [t \in Name |-> triggers_for(log', t)]
             S == {t \in live_book : due(log', trig, t)}
  <2>1. queue' \in build_queue(log', trig) /\ UNCHANGED <<vdate, st>>
    BY <1>1 DEF StartSweep
  <2>2. \A i \in DOMAIN queue' : queue'[i] \in S
    <3> HIDE DEF trig
    <3> QED BY <2>1 DEF build_queue, Orders
  <2>3. \A t \in S : vdate[t] # 0 \/ ~st[t].ok \/ baseline_ready(log', t)
    BY DEF due
  <2> QED BY <2>1, <2>2, <2>3 DEF Earned
<1>2. CASE RunSucceeds \/ RunFails
  <2> DEFINE h == Head(queue)
  <2>1. reading # NoRun /\ EndOfRun /\ log' = log
    BY <1>2 DEF RunSucceeds, RunFails
  <2>2. /\ h \in Name /\ sweep' \in {sweep, "idle"}
        /\ \A i \in DOMAIN queue' : /\ i + 1 \in DOMAIN queue /\ queue'[i] = queue[i + 1]
                                    /\ queue'[i] # h /\ queue'[i] \in Name
    BY <2>1, TailFacts DEF Budget
  <2>3. \A t \in Name \ {h} : vdate'[t] = vdate[t] /\ st'[t] = st[t]
    <3>1. CASE RunSucceeds
      <4>1. vdate' = [vdate EXCEPT ![h] = day] /\ st' = [st EXCEPT ![h] = NoRecord]
        BY <3>1 DEF RunSucceeds
      <4> QED BY <4>1
    <3>2. CASE RunFails
      <4>1. vdate' = vdate /\ st' = [st EXCEPT ![h] = Failed(h)]
        BY <3>2 DEF RunFails
      <4> QED BY <4>1
    <3> QED BY <1>2, <3>1, <3>2
  <2> QED BY <2>1, <2>2, <2>3 DEF Earned
<1>3. CASE UNCHANGED <<queue, sweep, log, vdate, st>>
  BY <1>3 DEF Earned
<1>4. CASE sweep' # "due"
  BY <1>4
<1> QED
  BY <1>1, <1>2, <1>3, <1>4
  DEF Next, vars, run, NextDay, RunStarts, PauseSweep, CrashSweep, Stop, File8K, FileQuarterly,
      TablesLand, StartForced, files

\* Rule 8, "a one-day band visitor never earns a billed run" (build_queue of
\* orchestrate_depth.py), for every book and every dwell: an unheld name waits for
\* its first verdict only after ENTRY_DWELL different days in the boundary, however
\* often a day is snapshotted, once the log is that long.
THEOREM EntryCorrect == Spec => []EntryIsEarned
<1> DEFINE I == Budget /\ Logged /\ Earned
<1>1. Init => I
  <2> SUFFICES ASSUME Init PROVE Logged /\ Earned
    BY BudgetInit
  <2>1. log = <<>> /\ sweep = "idle" /\ inDays = [t \in Name |-> {}]
    BY DEF Init
  <2> QED BY <2>1 DEF Logged, Earned
<1>2. I /\ [Next]_vars => I'
  BY BudgetNext, LoggedNext, EarnedNext
<1>3. I => EntryIsEarned
  <2> SUFFICES ASSUME I, sweep = "due", NEW t \in Waiting \ Held, vdate[t] = 0, st[t].ok,
                      Len(log) >= ENTRY_DWELL
               PROVE  Cardinality(inDays[t]) >= ENTRY_DWELL
    BY DEF EntryIsEarned
  <2>1. day \in Nat \ {0} /\ ENTRY_DWELL \in Nat /\ queue \in Seq(Name) /\ Len(log) \in Nat
    BY Numbers, CadenceAssumption DEF Budget, Types, Logged
  <2>2. PICK i \in DOMAIN queue : t = queue[i]
    BY <2>1 DEF Waiting
  <2>3. t \in Name /\ baseline_ready(log, t)
    BY <2>1, <2>2 DEF Earned
  <2>4. dwell_in(log, t) \in Nat /\ Cardinality(inDays[t]) \in Nat
        /\ dwell_in(log, t) <= Cardinality(inDays[t])
    BY <2>1, <2>3, StreakDays
  <2> QED BY <2>1, <2>3, <2>4 DEF baseline_ready
<1> QED BY <1>1, <1>2, <1>3, PTL DEF Spec

-------------------------------------------------------------------------------
(* The other queue: the requests that QwenWorker keeps in queue.jsonl.  Its *)
(* worker removes a name with the comprehension that a snapshot uses, and   *)
(* what is owed must outlive it.                                            *)

\* What is owed waits in the file, the name that is being removed is not owed any
\* more, and the copy that replaces the file has all that is owed.
Owing ==
  /\ lines \in Seq(Stock \cup {0}) /\ buf \in Seq(Stock \cup {0})
  /\ wants \in [Requester -> Stock \cup {0}] /\ asks \in [Row -> Stock \cup {0}]
  /\ owed \subseteq Queued
  /\ worker \in {"pop", "replace"} => job.name \notin owed
  /\ worker = "replace" => \A n \in owed : \E i \in DOMAIN buf : buf[i] = n

LEMMA OwingInit == WorkerInit => Owing
BY DEF WorkerInit, Owing, Nothing

\* The worker's steps that leave the file and what is owed alone.
LEMMA OwingSame ==
  ASSUME Owing, UNCHANGED <<lines, owed, wants, asks>>,
         \/ worker' \notin {"pop", "replace"} /\ buf' \in Seq(Stock \cup {0})
         \/ UNCHANGED <<worker, job, buf>>
  PROVE  Owing'
BY DEF Owing, Queued

LEMMA OwingRequests ==
  ASSUME Owing, PopAlone, NEW r \in Requester, Look(r) \/ AppendLine(r)
  PROVE  Owing'
<1>1. /\ worker \notin {"pop", "replace"}
      /\ UNCHANGED <<worker, job, buf, wants, asks>>
  BY DEF Look, AppendLine, MayRequest, workerVars
<1>2. lines \in Seq(Stock \cup {0}) /\ wants[r] \in Stock \cup {0} /\ owed \subseteq Queued
  BY DEF Owing
<1>3. CASE Look(r)
  <2>1. lines' = lines /\ owed' \in {owed, owed \cup {wants[r]}}
        /\ (owed' # owed => wants[r] \in Queued)
    BY <1>3 DEF Look
  <2>2. owed' \subseteq Queued'
    BY <1>2, <2>1 DEF Queued
  <2> QED BY <1>1, <1>2, <2>1, <2>2 DEF Owing
<1>4. CASE AppendLine(r)
  <2>1. lines' = Append(lines, wants[r]) /\ owed' = owed \cup {wants[r]}
    BY <1>4 DEF AppendLine
  <2>2. /\ lines' \in Seq(Stock \cup {0}) /\ DOMAIN lines \subseteq DOMAIN lines'
        /\ \A i \in DOMAIN lines : lines'[i] = lines[i]
        /\ Len(lines) + 1 \in DOMAIN lines' /\ lines'[Len(lines) + 1] = wants[r]
    BY <1>2, <2>1
  <2>3. owed' \subseteq Queued'
    BY <1>2, <2>1, <2>2 DEF Queued
  <2> QED BY <1>1, <2>2, <2>3 DEF Owing
<1> QED BY <1>3, <1>4

\* The two halves of a removal: the copy has everything but the name, and the file
\* is the copy.
LEMMA OwingPops ==
  ASSUME Owing, PopRead \/ Replace
  PROVE  Owing'
<1>1. CASE PopRead
  <2> DEFINE S == {i \in DOMAIN lines : lines[i] # job.name}
  <2>1. /\ buf' = Sublist(lines, S) /\ worker = "pop" /\ worker' = "replace"
        /\ UNCHANGED <<lines, job, owed, wants, asks>>
    BY <1>1 DEF PopRead, requestVars
  <2>2. lines \in Seq(Stock \cup {0}) /\ S \subseteq 1 .. Len(lines)
    BY DEF Owing
  <2>3. \A n \in owed : \E i \in S : lines[i] = n
    BY <2>1 DEF Owing, Queued
  <2> HIDE DEF S
  <2>4. /\ buf' \in Seq(Stock \cup {0}) /\ Len(buf') = Cardinality(S)
        /\ \A i \in S : \E k \in 1 .. Cardinality(S) : buf'[k] = lines[i]
    <3>1. lines \in Seq(Stock \cup {0})
      BY <2>2
    <3>2. S \subseteq 1 .. Len(lines)
      BY <2>2
    <3>3. /\ Sublist(lines, S) \in Seq(Stock \cup {0})
          /\ Len(Sublist(lines, S)) = Cardinality(S)
      BY <3>1, <3>2, SublistFacts
    <3>4. \A i \in S : \E k \in 1 .. Cardinality(S) : Sublist(lines, S)[k] = lines[i]
      <4>1. \A i \in S : \E k \in 1 .. Cardinality(S) : Nth(S, k) = i
        <5>1. Len(lines) \in Nat
          BY <3>1
        <5> QED BY <3>2, <5>1, NthFacts
      <4> QED BY <4>1 DEF Sublist
    <3> QED BY <2>1, <3>3, <3>4
  <2>5. \A n \in owed : \E k \in DOMAIN buf' : buf'[k] = n
    BY <2>3, <2>4
  <2> QED BY <2>1, <2>4, <2>5 DEF Owing, Queued
<1>2. CASE Replace
  <2>1. /\ worker = "replace" /\ lines' = buf /\ buf' = <<>> /\ worker' = "publish"
        /\ UNCHANGED <<owed, wants, asks>>
    BY <1>2 DEF Replace, requestVars
  <2>2. owed' \subseteq Queued'
    BY <2>1 DEF Owing, Queued
  <2> QED BY <2>1, <2>2 DEF Owing
<1> QED BY <1>1, <1>2

LEMMA OwingNext == PopAlone /\ Owing /\ [WorkerNext]_qwenVars => Owing'
<1> SUFFICES ASSUME PopAlone, Owing, [WorkerNext]_qwenVars PROVE Owing'
  OBVIOUS
<1> USE DEF workerVars, siteVars, requestVars, limits
<1>1. ASSUME NEW w \in Row, NEW n \in Stock, WebAsk(w, n) PROVE Owing'
  <2>1. UNCHANGED <<lines, owed, wants, worker, job, buf>> /\ asks' = [asks EXCEPT ![w] = n]
    BY <1>1 DEF WebAsk
  <2>2. asks' \in [Row -> Stock \cup {0}]
    BY <2>1 DEF Owing
  <2> QED BY <2>1, <2>2 DEF Owing, Queued
<1>2. ASSUME UNCHANGED <<lines, owed, worker, job, buf>>,
             wants' \in [Requester -> Stock \cup {0}], asks' \in [Row -> Stock \cup {0}]
      PROVE  Owing'
  BY <1>2 DEF Owing, Queued
<1>3. ASSUME NEW w \in Row, Claim(w) PROVE Owing'
  <2>1. /\ asks' = [asks EXCEPT ![w] = 0]
        /\ wants' = [wants EXCEPT !["bot"] = asks[w]] \/ wants' = wants
        /\ UNCHANGED <<lines, owed, worker, job, buf>>
    BY <1>3 DEF Claim, Nothing
  <2>2. asks \in [Row -> Stock \cup {0}] /\ wants \in [Requester -> Stock \cup {0}]
    BY DEF Owing
  <2> QED BY <1>2, <2>1, <2>2
<1>4. ASSUME NEW r \in Requester, NEW n \in Stock, Ask(r, n) PROVE Owing'
  <2>1. wants' = [wants EXCEPT ![r] = n] /\ UNCHANGED <<lines, owed, worker, job, buf, asks>>
    BY <1>4 DEF Ask
  <2>2. asks \in [Row -> Stock \cup {0}] /\ wants \in [Requester -> Stock \cup {0}]
    BY DEF Owing
  <2> QED BY <1>2, <2>1, <2>2
<1>5. ASSUME NEW r \in Requester, Reply(r) \/ RequesterKilled(r) PROVE Owing'
  <2>1. wants' = [wants EXCEPT ![r] = 0] /\ UNCHANGED <<lines, owed, worker, job, buf, asks>>
    BY <1>5 DEF Reply, RequesterKilled, Nothing
  <2>2. asks \in [Row -> Stock \cup {0}] /\ wants \in [Requester -> Stock \cup {0}]
    BY DEF Owing
  <2> QED BY <1>2, <2>1, <2>2
<1>6. CASE Analyse
  <2>1. /\ owed' = owed \ {job.name} /\ UNCHANGED <<lines, buf, wants, asks>>
        /\ \/ worker' = "pop" /\ job' = job
           \/ worker' = "publish"
    BY <1>6 DEF Analyse
  <2> QED BY <2>1 DEF Owing, Queued
<1>7. CASE \/ Start \/ Pick \/ NothingToAnalyse \/ GpuOurs \/ GpuNotOurs \/ GpuBusy
           \/ ReplaceFails \/ Publish \/ WorkerKilled \/ Midnight
  <2>1. /\ UNCHANGED <<lines, owed, wants, asks>>
        /\ \/ worker' \notin {"pop", "replace"} /\ (buf' = buf \/ buf' = <<>>)
           \/ UNCHANGED <<worker, job, buf>>
    BY <1>7
    DEF Start, Pick, NothingToAnalyse, GpuOurs, GpuNotOurs, GpuBusy, ReplaceFails,
        Publish, WorkerKilled, Midnight, Stops
  <2>2. buf \in Seq(Stock \cup {0}) /\ <<>> \in Seq(Stock \cup {0})
    BY DEF Owing
  <2> QED BY <2>1, <2>2, OwingSame
<1>8. CASE UNCHANGED qwenVars
  BY <1>8, OwingSame DEF qwenVars
<1> QED
  BY <1>1, <1>3, <1>4, <1>5, <1>6, <1>7, <1>8, OwingRequests, OwingPops
  DEF WorkerNext, RequesterStep, WorkerStep

\* A request that request() of qwen_ondemand.py accepted waits in queue.jsonl until
\* a report newer than it is written, for every list, site, GPU and number of
\* kills, when no request comes between pop's read and its replacement.
THEOREM RequestsCorrect == PopAlone => (WorkerSpec => []RequestsAreKept)
<1> SUFFICES ASSUME PopAlone PROVE WorkerSpec => []RequestsAreKept
  OBVIOUS
<1>1. Owing /\ [WorkerNext]_qwenVars => Owing'
  BY OwingNext
<1>2. Owing => RequestsAreKept
  BY DEF Owing, RequestsAreKept
<1> QED BY <1>1, <1>2, OwingInit, PTL DEF WorkerSpec

===============================================================================
