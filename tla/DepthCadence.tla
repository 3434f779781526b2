----------------------------- MODULE DepthCadence ------------------------------
(***************************************************************************)
(* Which names a depth sweep runs, in what order, and how often: the       *)
(* membership log of depth_membership, the triggers of depth_triggers and  *)
(* build_queue of orchestrate_depth, over the days a book lives through.   *)
(*                                                                         *)
(* A day is a calendar day.  Sweeps start several times a day and may last *)
(* for days; the queue, its classes and reasons are fixed when one starts. *)
(* Names are numbers, which gives the alphabetical order of the last tie.  *)
(***************************************************************************)
EXTENDS Naturals, Sequences, FiniteSets, Sublists

CONSTANTS
  Name,               \* the names, as numbers
  Held,               \* names held in some paper ledger
  Filers,             \* names whose CIK is known
  ENTRY_DWELL, EXIT_REVIEW_DWELL,                 \* snapshot-days
  FRESHNESS_DAYS, COOLDOWN_DAYS, ROTATION_DAYS,   \* days
  MAX_RETRIES,
  Horizon,            \* bound: days
  MaxMoves,           \* bound: names that change their band overnight
  MaxEvents           \* bound: filings at the SEC, forced runs, and sweeps
                      \* that die in a run

ASSUME CadenceAssumption ==
  /\ Name \subseteq Nat /\ IsFiniteSet(Name)
  /\ Held \subseteq Name /\ Filers \subseteq Name
  /\ {ENTRY_DWELL, EXIT_REVIEW_DWELL, MAX_RETRIES, Horizon} \subseteq Nat \ {0}
  /\ {FRESHNESS_DAYS, COOLDOWN_DAYS, ROTATION_DAYS} \subseteq Nat
  /\ {MaxMoves, MaxEvents} \subseteq Nat

VARIABLES
  day,
  band,      \* [Name -> its band in factor_scores.json]
  log,       \* depth_membership.jsonl: rows [date, in], oldest first
  vdate,     \* [Name -> date of the newest verdict, 0 for none]
  favorable, \* [Name -> the newest verdict says undervalued]
  news,      \* [Name -> date of the newest 8-K, 0 for none]
  filed,     \* [Name -> date of the newest 10-Q or 10-K at the SEC]
  tables,    \* [Name -> date of the filing our fundamentals reflect]
  st,        \* depth_state.json: [Name -> [ok, retries]]
  sweep,     \* "idle", "due" or "forced"
  queue,     \* names the running sweep has still to run, the current one first
  reading,   \* tables the pack of the current run was built from, or NoRun
  why,       \* [Name -> kinds of triggers when the queue was built]
  crashes, forced,
  inDays,    \* history: [Name -> days whose last snapshot had it in]
  tries,     \* history: [Name -> unforced runs since the last success]
  reads      \* history: [Name -> tables the newest verdict was formed on]

world   == <<band, news, filed, tables>>
files   == <<log, vdate, favorable, st>>
bounds  == <<crashes, forced>>
history == <<inDays, tries, reads>>
run     == <<sweep, queue, reading, why>>
vars    == <<day, world, files, run, bounds, history>>

Band  == {"research_now", "watchlist", "rest"}
Kinds == {"8k", "filing", "filing_pending", "reentry", "exit_review", "rotation"}
NON_QUEUEABLE == {"filing_pending"}
Day   == 0 .. Horizon
NoRun == Horizon + 1
NoRecord == [ok |-> TRUE, retries |-> 0]

TypeOK ==
  /\ day \in 1 .. Horizon
  /\ band \in [Name -> Band]
  /\ \A i \in 1 .. Len(log) : log[i].date \in Day /\ log[i].in \subseteq Name
  /\ {vdate, news, filed, tables, reads} \subseteq [Name -> Day]
  /\ favorable \in [Name -> BOOLEAN]
  /\ st \in [Name -> [ok : BOOLEAN, retries : 0 .. MAX_RETRIES + MaxEvents]]
  /\ sweep \in {"idle", "due", "forced"}
  /\ queue \in Seq(Name)
  /\ reading \in Day \cup {NoRun}
  /\ why \in [Name -> SUBSET Kinds]
  /\ crashes \in Nat /\ forced \in Nat /\ crashes + forced <= MaxEvents
  /\ inDays \in [Name -> SUBSET Day]
  /\ tries \in [Name -> 0 .. MAX_RETRIES + MaxEvents]

Init ==
  /\ day = 1
  /\ band \in [Name -> Band]
  /\ log = <<>>
  /\ vdate = [t \in Name |-> 0]
  /\ favorable = [t \in Name |-> FALSE]
  /\ news = [t \in Name |-> 0]
  /\ filed = [t \in Name |-> 0]
  /\ tables = [t \in Name |-> 0]
  /\ st = [t \in Name |-> NoRecord]
  /\ sweep = "idle" /\ queue = <<>> /\ reading = NoRun
  /\ why = [t \in Name |-> {}]
  /\ crashes = 0 /\ forced = 0
  /\ inDays = [t \in Name |-> {}]
  /\ tries = [t \in Name |-> 0]
  /\ reads = [t \in Name |-> 0]

-------------------------------------------------------------------------------
(* depth_membership: the log and the two dwell clocks.                     *)
InBook == {t \in Name : band[t] # "rest"}

\* Mutant: a second snapshot on the same day appends a row.
SnapshotAppended == Append(log, [date |-> day, in |-> InBook])

\* snapshot: at most one row per day, the latest bands win.
Snapshot ==
  LET kept == {i \in DOMAIN log : log[i].date # day}
  IN  Append(Sublist(log, kept), [date |-> day, in |-> InBook])

\* _tail_streak: newest rows in a row in which t is in (or out).
Streak(rows, t, in) ==
  LET broken == {i \in 1 .. Len(rows) : (t \in rows[i].in) # in}
      last   == CHOOSE i \in broken : \A j \in broken : j <= i
  IN  Len(rows) - (IF broken = {} THEN 0 ELSE last)

dwell_in(rows, t)  == Streak(rows, t, TRUE)
dwell_out(rows, t) == Streak(rows, t, FALSE)

-------------------------------------------------------------------------------
(* depth_triggers.triggers_for, for a name that has a verdict.             *)
Age(t) == day - vdate[t]

Reenters(rows, t) ==
  LET in == dwell_in(rows, t) IN
  /\ 0 < in /\ in < Len(rows) /\ in >= ENTRY_DWELL
  /\ Age(t) > FRESHNESS_DAYS

LeftForGood(rows, t) ==
  /\ Len(rows) >= EXIT_REVIEW_DWELL /\ dwell_out(rows, t) >= EXIT_REVIEW_DWELL
  /\ favorable[t] \/ t \in Held
  /\ Age(t) >= COOLDOWN_DAYS

Fires(rows, t, kind) ==
  CASE kind = "8k"             -> news[t] > vdate[t]
    [] kind = "filing"         -> filed[t] > vdate[t] /\ tables[t] >= filed[t]
    [] kind = "filing_pending" -> filed[t] > vdate[t] /\ tables[t] < filed[t]
    [] kind = "reentry"        -> Reenters(rows, t)
    [] kind = "exit_review"    -> LeftForGood(rows, t)
    [] kind = "rotation"       -> Age(t) > ROTATION_DAYS

triggers_for(rows, t) ==
  IF vdate[t] = 0 THEN {} ELSE {kind \in Kinds : Fires(rows, t, kind)}

-------------------------------------------------------------------------------
(* orchestrate_depth.build_queue.                                          *)
live_book == InBook \cup {t \in Name : vdate[t] # 0}

baseline_ready(rows, t) ==
  t \in Held \/ Len(rows) < ENTRY_DWELL \/ dwell_in(rows, t) >= ENTRY_DWELL

\* Mutant: one retry more.
due_once_more(rows, trig, t) ==
  IF ~st[t].ok THEN st[t].retries <= MAX_RETRIES
  ELSE IF vdate[t] = 0 THEN baseline_ready(rows, t)
  ELSE trig[t] \ NON_QUEUEABLE # {}

due(rows, trig, t) ==
  IF ~st[t].ok THEN st[t].retries < MAX_RETRIES
  ELSE IF vdate[t] = 0 THEN baseline_ready(rows, t)
  ELSE trig[t] \ NON_QUEUEABLE # {}

Class(trig, t) ==
  IF trig[t] \cap {"8k", "filing", "exit_review"} # {} THEN 0
  ELSE IF vdate[t] = 0 THEN 1
  ELSE IF "reentry" \in trig[t] THEN 2 ELSE 3

Rank(t) ==
  CASE band[t] = "research_now" -> 0 [] band[t] = "watchlist" -> 1 [] OTHER -> 2

\* Mutant: the band goes before the class.
BandBefore(trig, t, u) ==
  \/ Rank(t) < Rank(u)
  \/ Rank(t) = Rank(u) /\ (Class(trig, t) < Class(trig, u) \/ t < u)

Before(trig, t, u) ==
  \/ Class(trig, t) < Class(trig, u)
  \/ /\ Class(trig, t) = Class(trig, u)
     /\ \/ Rank(t) < Rank(u)
        \/ Rank(t) = Rank(u) /\ t < u

\* The one order of the due names that has each before the next.
Orders(S, trig) ==
  {q \in [1 .. Cardinality(S) -> S] :
     /\ \A t \in S : \E i \in DOMAIN q : q[i] = t
     /\ \A i, j \in DOMAIN q : i < j => Before(trig, q[i], q[j])}

build_queue(rows, trig) == Orders({t \in live_book : due(rows, trig, t)}, trig)

-------------------------------------------------------------------------------
(* The world moves.                                                        *)
Filings ==
  Cardinality({t \in Name : news[t] # 0}) + Cardinality({t \in Name : filed[t] # 0})

EventsLeft == Filings + crashes + forced < MaxEvents

NextDay ==
  /\ day < Horizon
  /\ day' = day + 1
  /\ band' \in [Name -> Band]
  /\ Cardinality({t \in Name : band'[t] # band[t]}) <= MaxMoves
  /\ UNCHANGED <<news, filed, tables, files, run, bounds, history>>

\* An 8-K, or a quarterly filing, is filed at the SEC.
File8K(t) ==
  /\ EventsLeft /\ news[t] # day
  /\ news' = [news EXCEPT ![t] = day]
  /\ UNCHANGED <<day, band, filed, tables, files, run, bounds, history>>

FileQuarterly(t) ==
  /\ EventsLeft /\ filed[t] # day
  /\ filed' = [filed EXCEPT ![t] = day]
  /\ UNCHANGED <<day, band, news, tables, files, run, bounds, history>>

\* The weekly rebuild brings our fundamentals up to the newest filing.
TablesLand(t) ==
  /\ tables[t] # filed[t]
  /\ tables' = [tables EXCEPT ![t] = filed[t]]
  /\ UNCHANGED <<day, band, news, filed, files, run, bounds, history>>

-------------------------------------------------------------------------------
(* A sweep: main from the snapshot to the end of its loop.                 *)

\* What the snapshot does to the history: the days a name was in.
Remember ==
  inDays' = [t \in Name |-> IF t \in InBook THEN inDays[t] \cup {day}
                                            ELSE inDays[t] \ {day}]

StartSweep ==
  /\ sweep = "idle"
  /\ \/ log' = Snapshot /\ Remember
     \/ UNCHANGED <<log, inDays>>   \* the snapshot failed: non-fatal
  /\ LET trig == [t \in Name |-> triggers_for(log', t)] IN
       /\ why' = trig
       /\ queue' \in build_queue(log', trig)
  /\ sweep' = IF queue' = <<>> THEN "idle" ELSE "due"
  /\ UNCHANGED <<day, world, vdate, favorable, st, reading, bounds, tries, reads>>

\* --force --tickers: the named stock runs, whatever its triggers and retries.
StartForced(t) ==
  /\ sweep = "idle" /\ EventsLeft
  /\ forced' = forced + 1
  /\ log' = Snapshot /\ Remember
  /\ why' = [u \in Name |-> triggers_for(log', u)]
  /\ queue' = <<t>>
  /\ sweep' = "forced"
  /\ UNCHANGED <<day, world, vdate, favorable, st, reading, crashes, tries, reads>>

RunStarts ==
  /\ queue # <<>> /\ reading = NoRun
  /\ reading' = tables[Head(queue)]
  /\ tries' = IF sweep = "forced" THEN tries
              ELSE [tries EXCEPT ![Head(queue)] = @ + 1]
  /\ UNCHANGED <<day, world, files, sweep, queue, why, bounds, inDays, reads>>

EndOfRun ==
  /\ reading' = NoRun
  /\ queue' = Tail(queue)
  /\ sweep' = IF Tail(queue) = <<>> THEN "idle" ELSE sweep
  /\ why' = [why EXCEPT ![Head(queue)] = {}]

RunSucceeds ==
  /\ reading # NoRun
  /\ LET t == Head(queue) IN
       /\ vdate' = [vdate EXCEPT ![t] = day]
       /\ \E f \in BOOLEAN : favorable' = [favorable EXCEPT ![t] = f]
       /\ st' = [st EXCEPT ![t] = NoRecord]
       /\ reads' = [reads EXCEPT ![t] = reading]
       /\ tries' = [tries EXCEPT ![t] = 0]
  /\ EndOfRun
  /\ UNCHANGED <<day, world, log, bounds, inDays>>

Failed(t) == [ok |-> FALSE, retries |-> st[t].retries + 1]

RunFails ==
  /\ reading # NoRun
  /\ st' = [st EXCEPT ![Head(queue)] = Failed(Head(queue))]
  /\ EndOfRun
  /\ UNCHANGED <<day, world, log, vdate, favorable, bounds, history>>

\* The pause flag ends the loop between two runs; a crash anywhere, the run it
\* was in leaves no record.
Stop ==
  /\ queue' = <<>> /\ sweep' = "idle" /\ reading' = NoRun
  /\ why' = [t \in Name |-> {}]

PauseSweep ==
  /\ sweep # "idle" /\ reading = NoRun
  /\ Stop
  /\ UNCHANGED <<day, world, files, bounds, history>>

CrashSweep ==
  /\ reading # NoRun /\ EventsLeft
  /\ crashes' = crashes + 1
  /\ Stop
  /\ UNCHANGED <<day, world, files, forced, history>>

-------------------------------------------------------------------------------
Next ==
  \/ NextDay \/ StartSweep \/ RunStarts \/ RunSucceeds \/ RunFails
  \/ PauseSweep \/ CrashSweep
  \/ \E t \in Filers : File8K(t) \/ FileQuarterly(t) \/ TablesLand(t)
  \/ \E t \in Name : StartForced(t)

Spec == Init /\ [][Next]_vars

-------------------------------------------------------------------------------
(* Properties.                                                             *)
Waiting == {queue[i] : i \in 1 .. Len(queue)}

Urgency(t) ==
  IF why[t] \cap {"8k", "filing", "exit_review"} # {} THEN 0
  ELSE IF vdate[t] = 0 THEN 1
  ELSE IF "reentry" \in why[t] THEN 2 ELSE 3

\* "A one-day band visitor never earns a billed run" (build_queue, rule #8): an
\* unheld name without a verdict or a failed run waits in a sweep's queue only
\* after ENTRY_DWELL different days in the boundary, once the log is that long.
EntryIsEarned ==
  sweep = "due" =>
    \A t \in Waiting \ Held :
      vdate[t] = 0 /\ st[t].ok /\ Len(log) >= ENTRY_DWELL
        => Cardinality(inDays[t]) >= ENTRY_DWELL

\* The retry budget: however sweeps fail, stop and start over, a name is run at
\* most MAX_RETRIES times without a success or an order of the operator, plus
\* the runs that died before they were recorded.
RetriesAreBounded ==
  \A t \in Name : tries[t] <= MAX_RETRIES + crashes

\* The priority contract: triggered names first, then the baseline pass, then
\* re-entries, and a rotation starts only when its sweep has none of them left.
\* Judged by the reasons written down for the sweep.
RotationYields ==
  [][RunStarts /\ sweep = "due" /\ Urgency(Head(queue)) = 3
       => \A t \in Waiting : Urgency(t) = 3]_vars

\* "The filing trigger covers the post-print re-run" (build_queue): once our
\* tables reflect a filing, the newest verdict was formed on them or the filing
\* trigger fires.  A filing on the very day of the verdict is left out.
LandedFilingIsRead ==
  \A t \in Name :
    filed[t] \notin {0, vdate[t]} /\ vdate[t] # 0 /\ tables[t] >= filed[t]
      => reads[t] >= filed[t] \/ "filing" \in triggers_for(log, t)

===============================================================================
