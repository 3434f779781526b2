----------------------------- MODULE DepthControl -----------------------------
(***************************************************************************)
(* The control plane of the depth tier: who may run a depth_pipeline child *)
(* on the one GPU, and when.  Four files are all the processes share:      *)
(*                                                                         *)
(*   cache/orchestrate_depth.lock   lock      pid of the sweep or runner   *)
(*   cache/DEPTH_PAUSED             paused    the red button               *)
(*   cache/depth_ondemand.jsonl     queue     on-demand requests, FIFO     *)
(*   cache/depth_progress.json      progress  name being analysed          *)
(*                                                                         *)
(* Sweeps are orchestrate_depth.py processes, Runners are the idle drains  *)
(* of depth_ondemand.py, Requesters are the CLI and the two Telegram/web   *)
(* paths that call request().  Every read of a shared file is a step of    *)
(* its own wherever the code does something else before it acts on it.     *)
(* The queue's read-modify-write is one step here; module OnDemandMutex    *)
(* opens it up.                                                            *)
(***************************************************************************)
EXTENDS Naturals, Sequences

CONSTANTS
  Sweeps,             \* process slots for orchestrate_depth.py
  Runners,            \* process slots for depth_ondemand.py --run
  Requesters,         \* callers of depth_ondemand.request
  Tickers,            \* names somebody may request
  Book,               \* names a sweep may find due
  NoPid,              \* "no lock file"
  NoTicker,           \* "no name"
  LaunchesOverlap,    \* may a process start while another is still starting?
  ChildOutlivesCrash, \* may a child survive the crash of its parent?
  MaxRequests,        \* bound: accepted requests per name
  MaxPauses,          \* bound: presses of the red button
  MaxCrashes,         \* bound: crashes of processes and requesters
  MaxRefusals         \* bound: refused data refreshes and factor guards

Proc == Sweeps \cup Runners
Name == Tickers \cup Book

ASSUME ProcAssumption ==
  /\ Sweeps \cap Runners = {}
  /\ NoPid \notin Proc
  /\ NoTicker \notin Name
  /\ LaunchesOverlap \in BOOLEAN
  /\ ChildOutlivesCrash \in BOOLEAN
  /\ {MaxRequests, MaxPauses, MaxCrashes, MaxRefusals} \subseteq Nat

VARIABLES
  pc,        \* [Proc -> Label]: where each process is; "off" when not alive
  lock,      \* the pid in the lock file
  paused,    \* DEPTH_PAUSED exists
  queue,     \* the on-demand queue
  progress,  \* "current" in depth_progress.json
  left,      \* [Proc -> SUBSET Book]: names a sweep has still to run
  cur,       \* [Proc -> Name]: name taken and not yet handed to a child
  child,     \* [Proc -> Name]: name the process's live child works on
  rpc,       \* [Requesters -> label]: progress of a request() call
  rt,        \* [Requesters -> Ticker]: its name
  accepted,  \* history: requests appended, per name
  claimed,   \* history: requests popped, per name
  stopBy,    \* history: processes that owe the red button a stop
  budget     \* what is left of the environment's bounds

files   == <<lock, paused, queue, progress>>
procs   == <<pc, left, cur, child>>
callers == <<rpc, rt>>
history == <<accepted, claimed>>
vars    == <<files, procs, callers, history, stopBy, budget>>

-------------------------------------------------------------------------------
(* Labels.  Starting ends when the lock file is written; Holding is the    *)
(* stretch between that write and the unlink in the finally block.         *)
SweepStart  == {"refresh", "pausechk", "lockchk", "guard", "build", "take"}
RunnerStart == {"check", "write"}
Starting    == SweepStart \cup RunnerStart
Unchecked   == {"refresh", "pausechk", "lockchk", "check"}
Committed   == {"pop", "claimed", "go"}
Running     == {"odrun", "run"}
Holding     == {"rrefresh", "head", "drain", "mid", "exit"}
                 \cup Committed \cup Running
Label       == {"off", "bye"} \cup Starting \cup Holding

Alive(p)    == pc[p] # "off"
LockAlive   == lock \in Proc /\ Alive(lock)
Queued(t)   == \E i \in 1 .. Len(queue) : queue[i] = t
NoneLeft(p) == left[p] = {}

TypeOK ==
  /\ pc \in [Proc -> Label]
  /\ lock \in Proc \cup {NoPid}
  /\ paused \in BOOLEAN
  /\ queue \in Seq(Tickers)
  /\ progress \in Name \cup {NoTicker}
  /\ left \in [Proc -> SUBSET Book]
  /\ cur \in [Proc -> Name \cup {NoTicker}]
  /\ child \in [Proc -> Name \cup {NoTicker}]
  /\ rpc \in [Requesters -> {"idle", "progress", "pause", "lock"}]
  /\ rt \in [Requesters -> Tickers \cup {NoTicker}]
  /\ accepted \in [Tickers -> Nat]
  /\ claimed \in [Tickers -> Nat]
  /\ stopBy \in [Proc -> BOOLEAN]
  /\ budget \in [pauses : Nat, crashes : Nat, refusals : Nat]

Init ==
  /\ pc = [p \in Proc |-> "off"]
  /\ lock = NoPid
  /\ paused = FALSE
  /\ queue = <<>>
  /\ progress = NoTicker
  /\ left = [p \in Proc |-> {}]
  /\ cur = [p \in Proc |-> NoTicker]
  /\ child = [p \in Proc |-> NoTicker]
  /\ rpc = [r \in Requesters |-> "idle"]
  /\ rt = [r \in Requesters |-> NoTicker]
  /\ accepted = [t \in Tickers |-> 0]
  /\ claimed = [t \in Tickers |-> 0]
  /\ stopBy = [p \in Proc |-> FALSE]
  /\ budget = [pauses |-> MaxPauses, crashes |-> MaxCrashes,
               refusals |-> MaxRefusals]

Goto(p, l) == pc' = [pc EXCEPT ![p] = l]

-------------------------------------------------------------------------------
(* Launching.  A slot stands for a pid the system is free to hand out: one *)
(* that no live process or child uses and the lock file does not name.     *)
FreshPid(p) ==
  /\ ~Alive(p) /\ child[p] = NoTicker /\ lock # p
  /\ LaunchesOverlap \/ \A q \in Proc : pc[q] \notin Starting

\* The scheduled task starts a sweep whatever else is going on.
Fire(p) ==
  /\ p \in Sweeps /\ FreshPid(p)
  /\ Goto(p, "refresh")
  /\ UNCHANGED <<files, left, cur, child, callers, history, stopBy, budget>>

\* status.py start: refuses under the pause flag and while the lock lives.
DoStart(p) == ~paused /\ ~LockAlive /\ Fire(p)

\* status.py pause and stop, run_depth_detached.py --stop.
DoPause ==
  /\ ~paused /\ budget.pauses > 0
  /\ paused' = TRUE
  /\ stopBy' = [p \in Proc |-> pc[p] \notin Committed]
  /\ budget' = [budget EXCEPT !.pauses = @ - 1]
  /\ UNCHANGED <<lock, queue, progress, procs, callers, history>>

Unpause ==
  /\ paused' = FALSE
  /\ stopBy' = [p \in Proc |-> FALSE]

\* status.py resume: clears the flag, relaunches unless the lock lives.
DoResume(p) ==
  /\ Unpause
  /\ \/ LockAlive /\ UNCHANGED pc
     \/ ~LockAlive /\ p \in Sweeps /\ FreshPid(p) /\ Goto(p, "refresh")
  /\ UNCHANGED <<lock, queue, progress, left, cur, child, callers, history,
                 budget>>

\* run_depth_detached.py start: refuses while the lock lives, and only then
\* clears the flag.
DetachedStart(p) ==
  /\ ~LockAlive
  /\ p \in Sweeps /\ FreshPid(p)
  /\ Goto(p, "refresh")
  /\ Unpause
  /\ UNCHANGED <<lock, queue, progress, left, cur, child, callers, history,
                 budget>>

-------------------------------------------------------------------------------
(* orchestrate_depth.main: from the data refresh to the lock file.         *)
SweepRefresh(p) ==
  /\ pc[p] = "refresh"
  /\ \/ /\ Goto(p, "pausechk")
        /\ UNCHANGED <<progress, budget>>
     \/ /\ budget.refusals > 0
        /\ budget' = [budget EXCEPT !.refusals = @ - 1]
        /\ progress' = NoTicker          \* PROGRESS rewritten: blocked_reason
        /\ Goto(p, "off")
  /\ UNCHANGED <<lock, paused, queue, left, cur, child, callers, history,
                 stopBy>>

SweepPauseCheck(p) ==
  /\ pc[p] = "pausechk"
  /\ Goto(p, IF paused THEN "off" ELSE "lockchk")
  /\ UNCHANGED <<files, left, cur, child, callers, history, stopBy, budget>>

\* Mutant: any lock file passes for a stale one.
SweepLockCheckIgnoresPid(p) ==
  /\ pc[p] = "lockchk"
  /\ Goto(p, "guard")
  /\ UNCHANGED <<files, left, cur, child, callers, history, stopBy, budget>>

\* A lock whose pid is dead is "stale": the sweep goes on to take it over.
SweepLockCheck(p) ==
  /\ pc[p] = "lockchk"
  /\ Goto(p, IF LockAlive THEN "off" ELSE "guard")
  /\ UNCHANGED <<files, left, cur, child, callers, history, stopBy, budget>>

SweepGuard(p) ==
  /\ pc[p] = "guard"
  /\ \/ /\ Goto(p, "build")
        /\ UNCHANGED <<progress, budget>>
     \/ /\ budget.refusals > 0
        /\ budget' = [budget EXCEPT !.refusals = @ - 1]
        /\ progress' = NoTicker
        /\ Goto(p, "off")
  /\ UNCHANGED <<lock, paused, queue, left, cur, child, callers, history,
                 stopBy>>

\* Mutant: an empty due list ends the sweep without a look at the requests.
SweepBuildIgnoresRequests(p) ==
  /\ pc[p] = "build"
  /\ \E due \in SUBSET Book :
       IF due = {}
       THEN /\ progress' = NoTicker
            /\ Goto(p, "off")
            /\ UNCHANGED left
       ELSE /\ left' = [left EXCEPT ![p] = due]
            /\ Goto(p, "take")
            /\ UNCHANGED progress
  /\ UNCHANGED <<lock, paused, queue, cur, child, callers, history, stopBy,
                 budget>>

\* Membership, thesis monitor and trigger map end in the set of due names
\* (any set: module DepthCadence has the rule).  With nothing due and no request
\* pending the sweep marks itself inactive and returns.
SweepBuild(p) ==
  /\ pc[p] = "build"
  /\ \E due \in SUBSET Book :
       IF due = {} /\ queue = <<>>
       THEN /\ progress' = NoTicker
            /\ Goto(p, "off")
            /\ UNCHANGED left
       ELSE /\ left' = [left EXCEPT ![p] = due]
            /\ Goto(p, "take")
            /\ UNCHANGED progress
  /\ UNCHANGED <<lock, paused, queue, cur, child, callers, history, stopBy,
                 budget>>

SweepTakeLock(p) ==
  /\ pc[p] = "take"
  /\ lock' = p
  /\ Goto(p, "head")
  /\ UNCHANGED <<paused, queue, progress, left, cur, child, callers, history,
                 stopBy, budget>>

\* A dry run takes no lock and marks the sweep inactive when it ends.
DryRun ==
  /\ progress # NoTicker
  /\ progress' = NoTicker
  /\ UNCHANGED <<lock, paused, queue, procs, callers, history, stopBy, budget>>

-------------------------------------------------------------------------------
(* The sweep's loop over its due names.                                    *)
SweepHead(p) ==
  /\ pc[p] = "head"
  /\ Goto(p, IF paused THEN "exit" ELSE "drain")
  /\ UNCHANGED <<files, left, cur, child, callers, history, stopBy, budget>>

\* Mutant: no second look at DEPTH_PAUSED after the boundary drain.
SweepMidUnchecked(p) ==
  /\ pc[p] = "mid"
  /\ \E t \in left[p] :
       /\ Goto(p, "go")
       /\ cur' = [cur EXCEPT ![p] = t]
       /\ left' = [left EXCEPT ![p] = @ \ {t}]
  /\ UNCHANGED <<files, child, callers, history, stopBy, budget>>

\* After the boundary drain; the pause may have come during a long request.
SweepMid(p) ==
  /\ pc[p] = "mid"
  /\ IF paused
     THEN Goto(p, "exit") /\ UNCHANGED <<left, cur>>
     ELSE \E t \in left[p] :
            /\ Goto(p, "go")
            /\ cur' = [cur EXCEPT ![p] = t]
            /\ left' = [left EXCEPT ![p] = @ \ {t}]
  /\ UNCHANGED <<files, child, callers, history, stopBy, budget>>

\* run_one: the child is alive from here until it exits or is killed.
StartChild(p, l) ==
  /\ child' = [child EXCEPT ![p] = cur[p]]
  /\ cur' = [cur EXCEPT ![p] = NoTicker]
  /\ stopBy' = [stopBy EXCEPT ![p] = paused]
  /\ Goto(p, l)

SweepGo(p) ==
  /\ pc[p] = "go"
  /\ StartChild(p, "run")
  /\ progress' = cur[p]
  /\ UNCHANGED <<lock, paused, queue, left, callers, history, budget>>

-------------------------------------------------------------------------------
(* drain_ondemand (in a sweep) and the loop of drain() (in a runner).      *)
Drain(p) ==
  /\ pc[p] = "drain"
  /\ Goto(p, IF ~paused THEN "pop"
             ELSE IF NoneLeft(p) THEN "exit" ELSE "mid")
  /\ UNCHANGED <<files, left, cur, child, callers, history, stopBy, budget>>

\* Mutant: the rest of the queue is not written back.
TakeNextKeepsRow(p) ==
  /\ pc[p] = "pop"
  /\ IF queue = <<>>
     THEN /\ Goto(p, IF NoneLeft(p) THEN "exit" ELSE "mid")
          /\ UNCHANGED <<cur, claimed>>
     ELSE /\ cur' = [cur EXCEPT ![p] = Head(queue)]
          /\ claimed' = [claimed EXCEPT ![Head(queue)] = @ + 1]
          /\ Goto(p, "claimed")
  /\ UNCHANGED <<files, left, child, callers, accepted, stopBy, budget>>

\* take_next: claim before run.
TakeNext(p) ==
  /\ pc[p] = "pop"
  /\ IF queue = <<>>
     THEN /\ Goto(p, IF NoneLeft(p) THEN "exit" ELSE "mid")
          /\ UNCHANGED <<queue, cur, claimed>>
     ELSE /\ cur' = [cur EXCEPT ![p] = Head(queue)]
          /\ queue' = Tail(queue)
          /\ claimed' = [claimed EXCEPT ![Head(queue)] = @ + 1]
          /\ Goto(p, "claimed")
  /\ UNCHANGED <<lock, paused, progress, left, child, callers, accepted,
                 stopBy, budget>>

\* Only a sweep writes its progress; the idle runner never does.
StartOnDemand(p) ==
  /\ pc[p] = "claimed"
  /\ StartChild(p, "odrun")
  /\ progress' = IF p \in Sweeps THEN cur[p] ELSE progress
  /\ UNCHANGED <<lock, paused, queue, left, callers, history, budget>>

\* The child exits, or the watchdog kills its tree.  The last request and the
\* last name are both followed by one more drain before the exit.
ChildEnds(p) ==
  /\ pc[p] \in Running
  /\ child' = [child EXCEPT ![p] = NoTicker]
  /\ Goto(p, IF pc[p] = "odrun" THEN "drain"
             ELSE IF NoneLeft(p) THEN "drain" ELSE "head")
  /\ UNCHANGED <<files, left, cur, callers, history, stopBy, budget>>

\* The finally block unlinks the lock file, whoever wrote it last.
Exit(p) ==
  /\ pc[p] = "exit"
  /\ lock' = NoPid
  /\ left' = [left EXCEPT ![p] = {}]
  /\ Goto(p, IF p \in Sweeps THEN "bye" ELSE "off")
  /\ UNCHANGED <<paused, queue, progress, cur, child, callers, history, stopBy,
                 budget>>

\* A sweep marks itself inactive; its grader and its last publish touch none
\* of these files.
SweepBye(p) ==
  /\ pc[p] = "bye"
  /\ progress' = NoTicker
  /\ Goto(p, "off")
  /\ UNCHANGED <<lock, paused, queue, left, cur, child, callers, history,
                 stopBy, budget>>

-------------------------------------------------------------------------------
(* depth_ondemand.drain: from its lock check to its loop.                  *)

RunnerCheck(p) ==
  /\ pc[p] = "check"
  /\ Goto(p, IF LockAlive THEN "off" ELSE "write")
  /\ UNCHANGED <<files, left, cur, child, callers, history, stopBy, budget>>

RunnerTakeLock(p) ==
  /\ pc[p] = "write"
  /\ lock' = p
  /\ Goto(p, "rrefresh")
  /\ UNCHANGED <<paused, queue, progress, left, cur, child, callers, history,
                 stopBy, budget>>

RunnerRefresh(p) ==
  /\ pc[p] = "rrefresh"
  /\ \/ Goto(p, "drain") /\ UNCHANGED <<lock, budget>>
     \/ /\ budget.refusals > 0
        /\ budget' = [budget EXCEPT !.refusals = @ - 1]
        /\ lock' = NoPid
        /\ Goto(p, "off")
  /\ UNCHANGED <<paused, queue, progress, left, cur, child, callers, history,
                 stopBy>>

-------------------------------------------------------------------------------
(* depth_ondemand.request: enqueue, then three looks at the shared files.  *)

\* Mutant: no dedupe.
RequestUndeduped(r, t) ==
  /\ rpc[r] = "idle"
  /\ rt' = [rt EXCEPT ![r] = t]
  /\ accepted[t] < MaxRequests
  /\ queue' = Append(queue, t)
  /\ accepted' = [accepted EXCEPT ![t] = @ + 1]
  /\ rpc' = [rpc EXCEPT ![r] = "progress"]
  /\ UNCHANGED <<lock, paused, progress, procs, claimed, stopBy, budget>>

Request(r, t) ==
  /\ rpc[r] = "idle"
  /\ rt' = [rt EXCEPT ![r] = t]
  /\ IF Queued(t)
     THEN UNCHANGED <<queue, accepted, rpc>>
     ELSE /\ accepted[t] < MaxRequests
          /\ queue' = Append(queue, t)
          /\ accepted' = [accepted EXCEPT ![t] = @ + 1]
          /\ rpc' = [rpc EXCEPT ![r] = "progress"]
  /\ UNCHANGED <<lock, paused, progress, procs, claimed, stopBy, budget>>

\* One look: the call answers and returns, or goes on to l.
Look(r, answers, l) ==
  /\ rpc' = [rpc EXCEPT ![r] = IF answers THEN "idle" ELSE l]
  /\ UNCHANGED <<files, left, cur, child, rt, history, stopBy, budget>>

RequestSeesProgress(r) ==
  /\ rpc[r] = "progress"
  /\ Look(r, progress = rt[r], "pause")
  /\ UNCHANGED pc

RequestSeesPause(r) ==
  /\ rpc[r] = "pause"
  /\ Look(r, paused, "lock")
  /\ UNCHANGED pc

RequestSeesLock(r) ==
  /\ rpc[r] = "lock"
  /\ LockAlive
  /\ Look(r, TRUE, "idle")
  /\ UNCHANGED pc

RequestSpawns(r, p) ==
  /\ rpc[r] = "lock"
  /\ ~LockAlive
  /\ p \in Runners /\ FreshPid(p)
  /\ Goto(p, "check")
  /\ Look(r, TRUE, "idle")

-------------------------------------------------------------------------------
(* Crashes.  The lock file and progress.json stay as they are.             *)
Crash(p) ==
  /\ Alive(p) /\ budget.crashes > 0
  /\ budget' = [budget EXCEPT !.crashes = @ - 1]
  /\ Goto(p, "off")
  /\ left' = [left EXCEPT ![p] = {}]
  /\ cur' = [cur EXCEPT ![p] = NoTicker]
  /\ \/ child' = [child EXCEPT ![p] = NoTicker]
     \/ ChildOutlivesCrash /\ UNCHANGED child
  /\ UNCHANGED <<files, callers, history, stopBy>>

OrphanEnds(p) ==
  /\ ~Alive(p) /\ child[p] # NoTicker
  /\ child' = [child EXCEPT ![p] = NoTicker]
  /\ UNCHANGED <<files, pc, left, cur, callers, history, stopBy, budget>>

RequesterCrash(r) ==
  /\ rpc[r] # "idle" /\ budget.crashes > 0
  /\ budget' = [budget EXCEPT !.crashes = @ - 1]
  /\ rpc' = [rpc EXCEPT ![r] = "idle"]
  /\ UNCHANGED <<files, procs, rt, history, stopBy>>

-------------------------------------------------------------------------------
SweepStep(p) ==
  \/ SweepRefresh(p) \/ SweepPauseCheck(p) \/ SweepLockCheck(p)
  \/ SweepGuard(p) \/ SweepBuild(p) \/ SweepTakeLock(p)
  \/ SweepHead(p) \/ SweepMid(p) \/ SweepGo(p) \/ SweepBye(p)

RunnerStep(p) == RunnerCheck(p) \/ RunnerTakeLock(p) \/ RunnerRefresh(p)

DrainStep(p) ==
  Drain(p) \/ TakeNext(p) \/ StartOnDemand(p) \/ ChildEnds(p) \/ Exit(p)

ProcStep(p) == SweepStep(p) \/ RunnerStep(p) \/ DrainStep(p)

CallerStep(r) ==
  \/ RequestSeesProgress(r) \/ RequestSeesPause(r) \/ RequestSeesLock(r)
  \/ \E p \in Proc : RequestSpawns(r, p)

Operator ==
  \/ DoPause
  \/ DryRun
  \/ \E p \in Proc : Fire(p) \/ DoStart(p) \/ DoResume(p) \/ DetachedStart(p)

Next ==
  \/ Operator
  \/ \E p \in Proc : ProcStep(p) \/ Crash(p) \/ OrphanEnds(p)
  \/ \E r \in Requesters :
       CallerStep(r) \/ RequesterCrash(r) \/ \E t \in Tickers : Request(r, t)

Spec == Init /\ [][Next]_vars

\* The scheduled task keeps firing; a process and a child that can move do
\* (run_one and _run_one kill a child that stalls).  Nobody owes a request, a
\* pause, a resume or a crash.
Fairness ==
  /\ WF_vars(\E p \in Sweeps : Fire(p))
  /\ \A p \in Proc : WF_vars(ProcStep(p)) /\ WF_vars(OrphanEnds(p))
  /\ \A r \in Requesters : WF_vars(CallerStep(r))

FairSpec == Spec /\ Fairness

-------------------------------------------------------------------------------
(* Properties.                                                             *)

\* No request is lost or duplicated by the queue: each accepted request is
\* still queued or was claimed once (take_next, request's dedupe).
RequestsConserved ==
  \A t \in Tickers : accepted[t] = claimed[t] + (IF Queued(t) THEN 1 ELSE 0)

\* The dedupe in request() keeps at most one pending request per name, however
\* enqueues and claims interleave.
NoDuplicateRequests ==
  \A i, j \in 1 .. Len(queue) : queue[i] = queue[j] => i = j

Starts(p) == child[p] = NoTicker /\ child'[p] # NoTicker
Claims(p) == pc[p] = "pop" /\ pc'[p] = "claimed"

\* The red button stops every process at its next boundary: a process that was
\* not already past its last look at DEPTH_PAUSED when the flag appeared claims
\* no request and starts no child until the flag is cleared.
PauseStopsAtBoundary ==
  [][\A p \in Proc : Starts(p) \/ Claims(p) => ~stopBy[p]]_vars

\* One depth_pipeline child at a time on the GPU.
OneChildAtATime ==
  \A p, q \in Proc : child[p] # NoTicker /\ child[q] # NoTicker => p = q

\* Every queued request is eventually claimed unless the red button stays down,
\* even when the runner that was to serve it crashed or was never spawned: the
\* scheduled sweep looks at the queue when nothing is due (main's pending()).
QueuedIsServed ==
  <>[]~paused => \A t \in Tickers : Queued(t) ~> ~Queued(t)

===============================================================================
