------------------------------ MODULE ControlAgent -----------------------------
(***************************************************************************)
(* control_agent.py: one pass every five minutes.  A pass pushes the       *)
(* heartbeat, executes the commands the admin site left pending in         *)
(* control_commands, and backs the state up.  Two counters, kept in marker *)
(* files, raise an alert on the third failure in a row: one for the        *)
(* heartbeat, one for the sync.                                            *)
(*                                                                         *)
(* net and tg say whether the command bus and Telegram can be reached; a   *)
(* pass meets them up or down at each of its requests.  What a command     *)
(* does is not modelled here: its handler returns or raises.               *)
(***************************************************************************)
EXTENDS Naturals, Sequences, FiniteSets

CONSTANTS
  Commands,     \* ids of control_commands, as numbers
  Agents,       \* passes that may be alive
  Overlap,      \* may a pass start while another is alive?
  Limit,        \* rows fetched at once (10)
  Threshold,    \* the third strike
  MaxCrashes    \* bound: passes that die or hit the 30 min limit of the task

ASSUME AgentAssumption ==
  /\ Commands \subseteq Nat
  /\ Overlap \in BOOLEAN
  /\ {Limit, Threshold} \subseteq Nat \ {0} /\ MaxCrashes \in Nat

VARIABLES
  status,    \* [Commands -> status of the row, "none" before it exists]
  net, tg,   \* the bus and Telegram are reachable
  pc,        \* [Agents -> where the pass is]
  rows,      \* [Agents -> ids fetched and not yet dealt with]
  result,    \* [Agents -> how the current handler ended]
  count,     \* [Counter -> failures in a row, as the marker file has it]
  fails,     \* [Agents -> the count being written]
  executed,  \* history: handlers started, in order
  worked,    \* history: commands whose handler returned
  alerts,    \* history: [Counter -> alerts delivered since the last success]
  crashes

bus     == <<status, net, tg>>
pass    == <<pc, rows, result, fails>>
history == <<executed, worked, alerts>>
vars    == <<bus, pass, count, history, crashes>>

Counter == {"heartbeat", "sync"}
Cap     == Threshold + 1      \* bound: larger counts behave alike
AlertCap == MaxCrashes + 2    \* bound: more alerts than any run sends

TypeOK ==
  /\ status \in [Commands -> {"none", "pending", "running", "done", "error"}]
  /\ net \in BOOLEAN /\ tg \in BOOLEAN
  /\ pc \in [Agents -> {"off", "beat", "beatmark", "poll", "take", "run",
                        "report", "blame", "sync", "syncmark"}]
  /\ rows \in [Agents -> SUBSET Commands]
  /\ result \in [Agents -> {"none", "returned", "raised"}]
  /\ fails \in [Agents -> 0 .. Cap]
  /\ count \in [Counter -> 0 .. Cap]
  /\ executed \in Seq(Commands)
  /\ worked \subseteq Commands
  /\ alerts \in [Counter -> 0 .. AlertCap]
  /\ crashes \in 0 .. MaxCrashes

Init ==
  /\ status = [c \in Commands |-> "none"]
  /\ net = TRUE /\ tg = TRUE
  /\ pc = [a \in Agents |-> "off"]
  /\ rows = [a \in Agents |-> {}]
  /\ result = [a \in Agents |-> "none"]
  /\ fails = [a \in Agents |-> 0]
  /\ count = [k \in Counter |-> 0]
  /\ executed = <<>> /\ worked = {}
  /\ alerts = [k \in Counter |-> 0]
  /\ crashes = 0

Goto(a, l) == pc' = [pc EXCEPT ![a] = l]
AtMost(n, cap) == IF n > cap THEN cap ELSE n

-------------------------------------------------------------------------------
(* The world: the admin site inserts a row, reachability comes and goes.   *)
Insert(c) ==
  /\ status[c] = "none"
  /\ \A d \in Commands : d < c => status[d] # "none"
  /\ status' = [status EXCEPT ![c] = "pending"]
  /\ UNCHANGED <<net, tg, pass, count, history, crashes>>

Reachability ==
  /\ \/ net' = ~net /\ UNCHANGED tg
     \/ tg' = ~tg /\ UNCHANGED net
  /\ UNCHANGED <<status, pass, count, history, crashes>>

Begin(a) ==
  /\ pc[a] = "off"
  /\ Overlap \/ \A b \in Agents : pc[b] = "off"
  /\ Goto(a, "beat")
  /\ UNCHANGED <<bus, rows, result, fails, count, history, crashes>>

-------------------------------------------------------------------------------
(* The three-strike counters.                                              *)
Success(a, k, next) ==
  /\ count' = [count EXCEPT ![k] = 0]
  /\ alerts' = [alerts EXCEPT ![k] = 0]
  /\ Goto(a, next)
  /\ UNCHANGED fails

\* Mutant: the alert goes out on every failure from the third on.
StrikeLoudly(a, k, next) ==
  LET n == AtMost(count[k] + 1, Cap) IN
  /\ fails' = [fails EXCEPT ![a] = n]
  /\ alerts' = [alerts EXCEPT ![k] =
       IF n >= Threshold /\ tg THEN AtMost(@ + 1, AlertCap) ELSE @]
  /\ Goto(a, next)
  /\ UNCHANGED count

\* The failing branch up to the write of the marker.  notify_telegram answers
\* False when it cannot send and never raises, so the branch that would hold
\* the count below the threshold is never taken.
Strike(a, k, next) ==
  LET n == AtMost(count[k] + 1, Cap) IN
  /\ fails' = [fails EXCEPT ![a] = n]
  /\ alerts' = [alerts EXCEPT ![k] =
       IF n = Threshold /\ tg THEN AtMost(@ + 1, AlertCap) ELSE @]
  /\ Goto(a, next)
  /\ UNCHANGED count

\* Mutant: the marker file is not written.
MarkNothing(a, k, next) ==
  /\ Goto(a, next)
  /\ UNCHANGED <<bus, rows, result, fails, count, history, crashes>>

Mark(a, k, next) ==
  /\ count' = [count EXCEPT ![k] = fails[a]]
  /\ Goto(a, next)
  /\ UNCHANGED <<bus, rows, result, fails, history, crashes>>

Heartbeat(a) ==
  /\ pc[a] = "beat"
  /\ \/ net /\ Success(a, "heartbeat", "poll")
     \/ ~net /\ Strike(a, "heartbeat", "beatmark")
  /\ UNCHANGED <<bus, rows, result, executed, worked, crashes>>

HeartbeatMark(a) == pc[a] = "beatmark" /\ Mark(a, "heartbeat", "poll")

-------------------------------------------------------------------------------
(* The command loop.                                                       *)
Pending   == {c \in Commands : status[c] = "pending"}
Oldest(n) == {c \in Pending : Cardinality({d \in Pending : d < c}) < n}

\* The rows of a pass are dealt with by id.
Current(a, c) == c \in rows[a] /\ \A d \in rows[a] : c <= d

\* Mutant: the poll waits for a command that is marked running.
PollWaits(a) ==
  /\ pc[a] = "poll"
  /\ IF net /\ \A c \in Commands : status[c] # "running"
     THEN rows' = [rows EXCEPT ![a] = Oldest(Limit)] /\ Goto(a, "take")
     ELSE UNCHANGED rows /\ Goto(a, "sync")
  /\ UNCHANGED <<bus, result, fails, count, history, crashes>>

\* fetch_pending_commands; a failed request ends the loop of this pass.
Poll(a) ==
  /\ pc[a] = "poll"
  /\ IF net THEN rows' = [rows EXCEPT ![a] = Oldest(Limit)] /\ Goto(a, "take")
            ELSE UNCHANGED rows /\ Goto(a, "sync")
  /\ UNCHANGED <<bus, result, fails, count, history, crashes>>

\* Mutant: the row stays pending while its handler runs.
TakeUnmarked(a) ==
  /\ pc[a] = "take"
  /\ IF rows[a] # {} /\ net THEN Goto(a, "run") /\ UNCHANGED rows
     ELSE rows' = [rows EXCEPT ![a] = {}] /\ Goto(a, "sync")
  /\ UNCHANGED <<bus, result, fails, count, history, crashes>>

\* mark_command, whatever the row says by now.  A request that fails may have
\* changed the row all the same.
Marked(a, s) ==
  \E c \in Commands : Current(a, c) /\ status' = [status EXCEPT ![c] = s]
Unanswered(a, s) == ~net /\ (Marked(a, s) \/ UNCHANGED status)

\* The loop is over, at its end or by an exception.
Leave(a) == rows' = [rows EXCEPT ![a] = {}] /\ Goto(a, "sync")

Take(a) ==
  /\ pc[a] = "take"
  /\ \/ rows[a] = {} /\ Leave(a) /\ UNCHANGED status
     \/ /\ net /\ Marked(a, "running")
        /\ Goto(a, "run") /\ UNCHANGED rows
     \/ rows[a] # {} /\ Unanswered(a, "running") /\ Leave(a)
  /\ UNCHANGED <<net, tg, result, fails, count, history, crashes>>

Run(a) ==
  /\ pc[a] = "run"
  /\ \E c \in Commands, r \in {"returned", "raised"} :
       /\ Current(a, c)
       /\ executed' = Append(executed, c)
       /\ result' = [result EXCEPT ![a] = r]
       /\ worked' = IF r = "returned" THEN worked \cup {c} ELSE worked
  /\ Goto(a, "report")
  /\ UNCHANGED <<bus, rows, fails, count, alerts, crashes>>

MarkEnd(a, s) ==
  /\ net /\ Marked(a, s)
  /\ rows' = [rows EXCEPT ![a] = {c \in @ : ~Current(a, c)}]
  /\ Goto(a, "take")

Ended(a) == IF result[a] = "returned" THEN "done" ELSE "error"

\* Mutant: whatever comes back from the handler is a result.
ReportDone(a) ==
  /\ pc[a] = "report"
  /\ \/ MarkEnd(a, "done")
     \/ Unanswered(a, "done") /\ Leave(a)
  /\ UNCHANGED <<net, tg, result, fails, count, history, crashes>>

\* mark_command done, or error when the handler raised.  A failure to mark it
\* done is itself an exception of the try block, ...
Report(a) ==
  /\ pc[a] = "report"
  /\ \/ MarkEnd(a, Ended(a))
     \/ /\ Unanswered(a, Ended(a))
        /\ \/ result[a] = "raised" /\ Leave(a)
           \/ result[a] = "returned" /\ Goto(a, "blame") /\ UNCHANGED rows
  /\ UNCHANGED <<net, tg, result, fails, count, history, crashes>>

\* ... so that the row is marked as an error then.
Blame(a) ==
  /\ pc[a] = "blame"
  /\ \/ MarkEnd(a, "error")
     \/ Unanswered(a, "error") /\ Leave(a)
  /\ UNCHANGED <<net, tg, result, fails, count, history, crashes>>

\* maybe_sync_state: not due, or due and successful, or due and failing.
Sync(a) ==
  /\ pc[a] = "sync"
  /\ \/ Goto(a, "off") /\ UNCHANGED <<count, fails, alerts>>
     \/ Success(a, "sync", "off")
     \/ Strike(a, "sync", "syncmark")
  /\ UNCHANGED <<bus, rows, result, executed, worked, crashes>>

SyncMark(a) == pc[a] = "syncmark" /\ Mark(a, "sync", "off")

Crash(a) ==
  /\ pc[a] # "off" /\ crashes < MaxCrashes
  /\ crashes' = crashes + 1
  /\ Goto(a, "off")
  /\ rows' = [rows EXCEPT ![a] = {}]
  /\ UNCHANGED <<bus, result, fails, count, history>>

-------------------------------------------------------------------------------
Step(a) ==
  \/ Begin(a) \/ Heartbeat(a) \/ HeartbeatMark(a)
  \/ Poll(a) \/ Take(a) \/ Run(a) \/ Report(a) \/ Blame(a)
  \/ Sync(a) \/ SyncMark(a)

Next ==
  \/ Reachability
  \/ \E c \in Commands : Insert(c)
  \/ \E a \in Agents : Step(a) \/ Crash(a)

Spec == Init /\ [][Next]_vars

\* The scheduled task starts a pass every five minutes and every request, git
\* call and subprocess of a pass has a time limit.
FairSpec == Spec /\ \A a \in Agents : WF_vars(Step(a))

-------------------------------------------------------------------------------
(* Properties.                                                             *)

\* A command is executed at most once, and commands take effect in the order
\* they were given, however requests fail and passes die in between: a resume
\* is never undone by an older pause (mark running before run, order=id.asc).
ExecutedOnceInOrder ==
  \A i, j \in 1 .. Len(executed) : i < j => executed[i] < executed[j]

\* A row that says done was executed and its handler returned.
DoneMeansWorked == \A c \in Commands : status[c] = "done" => c \in worked

\* An outage is reported once, a crash between the message and the marker
\* aside (_heartbeat_with_alert, _sync_fail_alert).
OneAlertPerOutage == \A k \in Counter : alerts[k] <= 1 + crashes

\* A pending command is taken up once the bus stays reachable, whatever became
\* of the commands before it.
CommandsStart ==
  <>[]net => \A c \in Commands : status[c] = "pending" ~> status[c] # "pending"

\* A bus that stays away is told, whatever passes die between the count, the
\* message and the marker (_heartbeat_with_alert), if Telegram answers all the
\* while; without that the code tells nobody.
BlindnessIsAlerted ==
  []tg => (<>[]~net => <>[](alerts["heartbeat"] > 0))

===============================================================================
