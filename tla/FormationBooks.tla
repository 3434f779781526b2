---------------------------- MODULE FormationBooks -----------------------------
(***************************************************************************)
(* The AI-book formation of one month-end T and the paper book kept of it  *)
(* (tools/paper_books): the decision run among the screener's runs, the    *)
(* inputs map of its names, the 15-minute runner that fills the map, the   *)
(* re-queue to a later run, and the monthly run that books the formation   *)
(* and appends its lines to the engine's append-only ledger.               *)
(*                                                                         *)
(* Runs of the screener are numbers in the order of their updated_at; all  *)
(* of them end before the fill open.  Names are numbers, the order of the  *)
(* runner.  A process may be killed at any of its steps.                   *)
(***************************************************************************)
EXTENDS Naturals, FiniteSets

FX == INSTANCE FiniteSetsExt

CONSTANTS
  Name,          \* the book's names
  Run,           \* the screener's runs before the fill open
  MAX_ATTEMPTS,  \* runs of a name before it is incomplete
  LockIsAtomic,  \* assumed: two processes never take the lock at once
  EngineWaits    \* assumed: the engine does not start inside a re-queue

ASSUME FormationAssumption ==
  /\ IsFiniteSet(Name) /\ Name # {} /\ Name \subseteq Nat
  /\ IsFiniteSet(Run) /\ Run \subseteq Nat \ {0} /\ 1 \in Run
  /\ MAX_ATTEMPTS \in Nat \ {0}
  /\ LockIsAtomic \in BOOLEAN /\ EngineWaits \in BOOLEAN

VARIABLES
  open,       \* the fill open has passed
  newest,     \* the newest run whose log the witness archive holds
  live,       \* formation_<T>.json, or NoMap
  superseded, \* runs whose maps were moved aside
  finished,   \* finished_<T>.flag
  flagsAside, \* runs r with finished_<T>_superseded_<r>.flag
  preempt,    \* preempt.flag
  lock,       \* runner.lock: who wrote its pid
  runner,     \* formation_run: "idle", "taking" or "working"
  mem,        \* the map the runner read
  ahead,      \* names its loop has still to come to
  requeue,    \* formation_requeue: where it is
  target,     \* the decision it read before it waited for the lock
  monthly,    \* run_monthly: where it is
  booked,     \* the run stored in formations.jsonl, 0 for none
  lines,      \* the lines the engine computed
  stored      \* [File -> the lines in the ledger]

witness  == <<open, newest>>
flags    == <<finished, flagsAside, preempt>>
running  == <<runner, mem, ahead>>
queueing == <<requeue, target>>
books    == <<monthly, booked, lines, stored>>
vars     == <<witness, live, superseded, flags, lock, running, queueing, books>>

Left   == {"to_build", "to_run", "pending"}
Final  == {"complete", "analysis_incomplete"}
NoMap  == [run |-> 0]
Map    == [run : Run, state : [Name -> Left \cup Final],
           attempts : [Name -> 0 .. MAX_ATTEMPTS],
           early : SUBSET Name]   \* names whose run finished by the fill open

File   == {"qwen", "actions"}
Line   == [fill : {"none", "no_packet", "complete", "pending"},
           late : {"none", "completed_late", "analysis_incomplete"}]
NoLine == [fill |-> "none", late |-> "none"]
Lines  == [Name -> Line]

InRequeue == {"taking", "locked", "moving", "deciding", "building"}

TypeOK ==
  /\ open \in BOOLEAN /\ newest \in Run
  /\ live \in Map \cup {NoMap} /\ mem \in Map \cup {NoMap}
  /\ superseded \subseteq Run /\ flagsAside \subseteq Run
  /\ finished \in BOOLEAN /\ preempt \in BOOLEAN
  /\ lock \in {"free", "runner", "requeue", "dead"}
  /\ runner \in {"idle", "taking", "working"} /\ ahead \subseteq Name
  /\ requeue \in InRequeue \cup {"idle", "waiting", "raised"}
  /\ target \in Run \cup {0}
  /\ monthly \in {"idle", "engine", "qwen", "actions"}
  /\ booked \in Run \cup {0}
  /\ lines \in Lines /\ stored \in [File -> Lines]

\* formation_decide and formation_packets have run; the runner's task exists.
Init ==
  /\ open = FALSE /\ newest = 1
  /\ live \in {[run |-> 1, state |-> s, attempts |-> [n \in Name |-> 0], early |-> {}] :
               s \in [Name -> {"to_run", "analysis_incomplete"}]}
  /\ superseded = {} /\ finished = FALSE /\ flagsAside = {} /\ preempt = FALSE
  /\ lock = "free" /\ runner = "idle" /\ mem = NoMap /\ ahead = {}
  /\ requeue = "idle" /\ target = 0
  /\ monthly = "idle" /\ booked = 0
  /\ lines = [n \in Name |-> NoLine]
  /\ stored = [f \in File |-> [n \in Name |-> NoLine]]

-------------------------------------------------------------------------------
(* The screener's runs and the decision.                                   *)
FillOpens ==
  /\ ~open /\ open' = TRUE
  /\ UNCHANGED <<newest, live, superseded, flags, lock, running, queueing, books>>

\* check_new_runs archives what GitHub lists; a log that fails to download is
\* left out without a word, and may be saved by a later pass.
Archive == \E r \in Run : r >= newest /\ newest' = r

\* decision_for: the newest archived run.  It may fail the verifier, or the clone
\* lack its objects: what needs a decision may stop for want of one.
decision_for == newest

CheckNewRuns ==
  /\ Archive
  /\ UNCHANGED <<open, live, superseded, flags, lock, running, queueing, books>>

-------------------------------------------------------------------------------
(* formation_run: the lock, one run per name in their order, the map saved *)
(* after each, the finished flag.  A name that fails once is pending for   *)
(* the next pass.                                                          *)
HasLeft(m, states) == \E n \in Name : m.state[n] \in states
Runnable(m) == {n \in Name : m.state[n] \in {"to_run", "pending"}}
Turns       == Runnable(mem) \cap ahead   \* what is left of its loop
ToBuild(m)  == {n \in Name : m.state[n] = "to_build"}

LockIsFree == lock \in {"free", "dead"}

\* release_lock: only the pid that wrote it.
Released(me) == IF lock = me THEN "free" ELSE lock

\* The task starts the runner unless the finished flag exists; take_lock reads
\* the lock here and writes it in the next step.
RunnerStarts ==
  /\ runner = "idle" /\ ~finished /\ LockIsFree
  /\ LockIsAtomic => requeue # "taking"
  /\ runner' = "taking"
  /\ UNCHANGED <<witness, live, superseded, flags, lock, mem, ahead, queueing, books>>

RunnerLocks ==
  /\ runner = "taking"
  /\ lock' = IF live = NoMap THEN "free" ELSE "runner"   \* no map: it raises
  /\ runner' = IF live = NoMap THEN "idle" ELSE "working"
  /\ mem' = live /\ ahead' = IF live = NoMap THEN {} ELSE Name
  /\ UNCHANGED <<witness, live, superseded, flags, queueing, books>>

\* The state of a name after one run: SPEC_m3o A1S, MAX_ATTEMPTS.
AfterRun(m, n, ok) ==
  IF ok THEN "complete"
  ELSE IF m.attempts[n] + 1 >= MAX_ATTEMPTS THEN "analysis_incomplete"
  ELSE "pending"

RunName(ok) ==
  /\ runner = "working" /\ Turns # {}
  /\ LET n == FX!Min(Turns) IN
       /\ mem' = [mem EXCEPT !.state[n] = AfterRun(mem, n, ok),
                             !.attempts[n] = @ + 1,
                             !.early = IF ok /\ ~open THEN @ \cup {n} ELSE @]
       /\ ahead' = {k \in ahead : k > n}
  /\ live' = mem'
  /\ UNCHANGED <<witness, superseded, flags, lock, runner, queueing, books>>

LeaveRunner == runner' = "idle" /\ mem' = NoMap /\ ahead' = {}

\* gpu_busy: the script stops, the attempt is not counted.
GpuBusy ==
  /\ runner = "working" /\ Turns # {}
  /\ LeaveRunner /\ lock' = Released("runner")
  /\ UNCHANGED <<witness, live, superseded, flags, queueing, books>>

\* Mutants: a name still to build, or one to retry, does not count as left.
NothingRunnable(m) == ~HasLeft(m, {"to_run", "pending"})
NothingUntried(m)  == ~HasLeft(m, {"to_build", "to_run"})

\* What the finished flag needs: no name left to build, run or retry.
NothingLeft(m) == ~HasLeft(m, Left)

RunnerEnds ==
  /\ runner = "working" /\ Turns = {}
  /\ finished' = (finished \/ NothingLeft(mem))
  /\ LeaveRunner /\ lock' = Released("runner")
  /\ UNCHANGED <<witness, live, superseded, flagsAside, preempt, queueing, books>>

RunnerDies ==
  /\ runner # "idle"
  /\ LeaveRunner
  /\ lock' = IF lock = "runner" THEN "dead" ELSE lock
  /\ UNCHANGED <<witness, live, superseded, flags, queueing, books>>

-------------------------------------------------------------------------------
(* formation_requeue: a later verified run takes the formation over.       *)
RequeueStarts ==
  /\ requeue = "idle"
  /\ IF live # NoMap /\ ToBuild(live) = {}
     THEN /\ decision_for # live.run
          /\ target' = decision_for
     ELSE /\ live # NoMap \/ superseded # {}   \* otherwise: by hand
          /\ target' = 0
  /\ preempt' = TRUE /\ requeue' = "waiting"
  /\ UNCHANGED <<witness, live, superseded, finished, flagsAside, lock, running, books>>

\* The decision is the map's: an earlier pass finished the work.
RequeueUnchanged ==
  /\ requeue = "idle" /\ preempt
  /\ live # NoMap /\ ToBuild(live) = {} /\ decision_for = live.run
  /\ preempt' = FALSE
  /\ UNCHANGED <<witness, live, superseded, finished, flagsAside, lock, running, queueing, books>>

RequeueTakes ==
  /\ requeue = "waiting" /\ LockIsFree
  /\ LockIsAtomic => runner # "taking"
  /\ requeue' = "taking"
  /\ UNCHANGED <<witness, live, superseded, flags, lock, running, target, books>>

\* Nothing to move when the pass only resumes, or another one has moved it.
RequeueLocks ==
  /\ requeue = "taking"
  /\ lock' = "requeue"
  /\ requeue' = IF target = 0 \/ live.run = target THEN "deciding" ELSE "locked"
  /\ UNCHANGED <<witness, live, superseded, flags, running, target, books>>

\* The flag first.  A rename onto an existing name raises on Windows.
FlagAside ==
  /\ requeue = "locked"
  /\ IF finished /\ live.run \in flagsAside
     THEN /\ requeue' = "raised" /\ lock' = Released("requeue")
          /\ UNCHANGED <<finished, flagsAside>>
     ELSE /\ requeue' = "moving"
          /\ finished' = FALSE
          /\ flagsAside' = IF finished THEN flagsAside \cup {live.run} ELSE flagsAside
          /\ UNCHANGED lock
  /\ UNCHANGED <<witness, live, superseded, preempt, running, target, books>>

MapAside ==
  /\ requeue = "moving"
  /\ superseded' = superseded \cup {live.run} /\ live' = NoMap
  /\ requeue' = "deciding"
  /\ UNCHANGED <<witness, flags, lock, running, target, books>>

NewMap(r) ==
  [run |-> r, state |-> [n \in Name |-> "to_build"],
   attempts |-> [n \in Name |-> 0], early |-> {}]

\* Mutant: the decision is written over whatever map there is.
DecideAgain ==
  /\ requeue = "deciding"
  /\ live' = NewMap(decision_for)
  /\ requeue' = "building"
  /\ UNCHANGED <<witness, superseded, flags, lock, running, target, books>>

\* formation_decide: only where there is no map; it stops without a decision.
Decide ==
  /\ requeue = "deciding"
  /\ live' = IF live = NoMap THEN NewMap(decision_for) ELSE live
  /\ requeue' = "building"
  /\ UNCHANGED <<witness, superseded, flags, lock, running, target, books>>

\* "STOP: formation_decide stopped": preempt.flag stays.
DecideStops ==
  /\ requeue = "deciding" /\ live = NoMap
  /\ requeue' = "idle" /\ lock' = Released("requeue")
  /\ UNCHANGED <<witness, live, superseded, flags, running, target, books>>

\* formation_packets: one packet, or a refusal, per name to build.
Packet(refused) ==
  /\ requeue = "building" /\ ToBuild(live) # {}
  /\ live' = [live EXCEPT !.state[FX!Min(ToBuild(live))] =
                IF refused THEN "analysis_incomplete" ELSE "to_run"]
  /\ UNCHANGED <<witness, superseded, flags, lock, running, queueing, books>>

\* A finished flag beside names left to run is renamed: never strand a batch.
RequeueEnds ==
  /\ requeue = "building" /\ ToBuild(live) = {}
  /\ finished' = (finished /\ ~HasLeft(live, Left))
  /\ preempt' = FALSE /\ requeue' = "idle" /\ lock' = Released("requeue")
  /\ UNCHANGED <<witness, live, superseded, flagsAside, running, target, books>>

RequeueDies ==
  /\ requeue # "idle"
  /\ requeue' = "idle"
  /\ lock' = IF lock = "requeue" THEN "dead" ELSE lock
  /\ UNCHANGED <<witness, live, superseded, flags, running, target, books>>

-------------------------------------------------------------------------------
(* run_monthly: archive, forward_ledger, m3o_engine.                       *)
HasPacket(m, n) ==
  m.state[n] # "to_build" /\ (m.state[n] = "analysis_incomplete" => m.attempts[n] > 0)

\* Mutant: the fill-open line reads the map's state, not the finish time.
FillLineNow(m, n) ==
  IF ~HasPacket(m, n) THEN "no_packet"
  ELSE IF m.state[n] = "complete" THEN "complete" ELSE "pending"

\* evaluate_name and the lines of run(): what the fill open saw, and the later
\* resolution in a line of its own.
FillLine(m, n) ==
  IF ~HasPacket(m, n) THEN "no_packet"
  ELSE IF n \in m.early THEN "complete" ELSE "pending"

LateLine(m, n) ==
  IF m.state[n] = "complete" /\ n \notin m.early THEN "completed_late"
  ELSE IF m.state[n] = "analysis_incomplete" THEN "analysis_incomplete" ELSE "none"

evaluate_name(m, n) == [fill |-> FillLine(m, n), late |-> LateLine(m, n)]
LinesOf(m) == [n \in Name |-> evaluate_name(m, n)]

\* reconcile: what is stored recomputes, line by line.
Agrees(old, new) ==
  \A n \in Name :
    /\ old[n].fill \in {"none", new[n].fill}
    /\ old[n].late \in {"none", new[n].late}

\* check_new_runs and forward_ledger: no decision, or another one than the
\* stored one, stops the run there.
Book ==
  /\ monthly = "idle" /\ open
  /\ Archive
  /\ booked \in {0, newest'}
  /\ booked' = newest' /\ monthly' = "engine"
  /\ UNCHANGED <<open, live, superseded, flags, lock, running, queueing, lines, stored>>

\* m3o_engine: recompute and reconcile every file, then append file by file.
\* No map, a map of another run or a stored line that differs: nothing is written.
Engine ==
  /\ monthly = "engine"
  /\ EngineWaits => requeue = "idle" /\ ~preempt
  /\ IF live.run = booked /\ \A f \in File : Agrees(stored[f], LinesOf(live))
     THEN lines' = LinesOf(live) /\ monthly' = "qwen"
     ELSE monthly' = "idle" /\ UNCHANGED lines
  /\ UNCHANGED <<witness, live, superseded, flags, lock, running, queueing, booked, stored>>

Append(f) ==
  /\ monthly = f
  /\ stored' = [stored EXCEPT ![f] = lines]
  /\ monthly' = IF f = "qwen" THEN "actions" ELSE "idle"
  /\ lines' = IF f = "qwen" THEN lines ELSE [n \in Name |-> NoLine]
  /\ UNCHANGED <<witness, live, superseded, flags, lock, running, queueing, booked>>

MonthlyDies ==
  /\ monthly # "idle"
  /\ monthly' = "idle" /\ lines' = [n \in Name |-> NoLine]
  /\ UNCHANGED <<witness, live, superseded, flags, lock, running, queueing, booked, stored>>

-------------------------------------------------------------------------------
World   == FillOpens \/ CheckNewRuns
Runner  == \/ RunnerStarts \/ RunnerLocks \/ GpuBusy \/ RunnerEnds \/ RunnerDies
           \/ \E ok \in BOOLEAN : RunName(ok)
Requeue == \/ RequeueStarts \/ RequeueUnchanged \/ RequeueTakes \/ RequeueLocks
           \/ FlagAside \/ MapAside \/ Decide \/ DecideStops
           \/ (\E refused \in BOOLEAN : Packet(refused))
           \/ RequeueEnds \/ RequeueDies
Monthly == \/ Book \/ Engine \/ MonthlyDies
           \/ \E f \in File : Append(f)

Next == World \/ Runner \/ Requeue \/ Monthly
Spec == Init /\ [][Next]_vars

\* The 15-minute task comes back, a run that is not refused or killed happens
\* again and again, and a re-queue that holds the lock goes on or dies.
RequeueGoesOn ==
  RequeueLocks \/ FlagAside \/ MapAside \/ Decide \/ DecideStops
  \/ (\E refused \in BOOLEAN : Packet(refused)) \/ RequeueEnds \/ RequeueDies

FairSpec ==
  /\ Spec
  /\ SF_vars(RunnerStarts) /\ SF_vars(RunnerLocks)
  /\ SF_vars(\E ok \in BOOLEAN : RunName(ok))
  /\ WF_vars(RunnerEnds) /\ WF_vars(RequeueGoesOn)

-------------------------------------------------------------------------------
(* Properties.                                                             *)

\* "Never strand a batch" (formation_requeue): the task does nothing once the
\* finished flag exists, so the flag stands only beside a map, old or new, in
\* which every name has its final state, whoever was killed in between.
FinishedMeansDone ==
  finished /\ live # NoMap => ~HasLeft(live, Left)

\* A map is replaced only after it was moved aside, a superseded run never comes
\* back, and within a map no attempt is forgotten and no final state changes.
MapOnlyAdvances ==
  [][live' # NoMap =>
       /\ live'.run \notin superseded
       /\ live # NoMap =>
            /\ live'.run = live.run
            /\ \A n \in Name :
                 /\ live'.attempts[n] >= live.attempts[n]
                 /\ live.state[n] \in Final => live'.state[n] = live.state[n]]_vars

\* "Fill-open lines hold only what a later finish cannot change" (m3o_engine):
\* no stored line of the booked run ever differs from its recomputation, which
\* would stop the engine for good.
LedgerRecomputes ==
  live # NoMap /\ live.run = booked => \A f \in File : Agrees(stored[f], LinesOf(live))

\* Every name with a packet gets its runs: whatever maps come, time and again no
\* name is left to run or to retry.
NamesAreRun == []<>(live = NoMap \/ Runnable(live) = {})

\* "A rerun after an interruption resumes" (formation_requeue).
RerunResumes == requeue # "raised"

===============================================================================
