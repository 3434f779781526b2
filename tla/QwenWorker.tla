------------------------------ MODULE QwenWorker ------------------------------
(***************************************************************************)
(* tools/site/qwen_ondemand.py: the second analyst queue.  Requests come   *)
(* from the web site and from Telegram, both through the bot, and from a   *)
(* command line; one worker, which a scheduled task starts every 15        *)
(* minutes, takes the queue's head or else a name of the screener's list   *)
(* whose analysis is old, runs it, and rebuilds what the site shows        *)
(* (qwen_site.build).  The queue is appended to and rewritten without a    *)
(* lock.                                                                   *)
(*                                                                         *)
(* The scheduler does not double the worker (IgnoreNew, and the script it  *)
(* starts waits), so there is one; a killed one leaves its lock file.      *)
(* Names are numbers because the list is in order of rank.  The lists of   *)
(* the verified commit do not change here, and --max-names is not given.   *)
(* (The names differ from DepthCadence's because the module of proofs      *)
(* DepthCadence_proofs extends both.)                                      *)
(***************************************************************************)
EXTENDS Integers, Sequences, FiniteSets, Sublists

CONSTANTS
    Stock,         \* names
    List,          \* research_now and watchlist names, by rank
    Excluded,      \* operator_excluded.json
    Formed,        \* names of the newest formation, decided on day 1
    Row,           \* rows that the site may insert into ondemand_queue
    NoRow,
    REFRESH_DAYS,
    PopAlone,      \* no request between a queued name's report and its removal
    MaxRequests,   \* bound: requests from Telegram and the command line
    MaxKills,      \* bound: kills of worker, bot or command
    LastDay        \* bound: days

ASSUME NameAssumption ==
    /\ Stock \subseteq Nat
    /\ List \subseteq Stock
    /\ Excluded \subseteq Stock
    /\ Formed \subseteq Stock
    /\ NoRow \notin Row
ASSUME DaysAssumption == REFRESH_DAYS \in Nat \ {0} /\ LastDay \in Nat \ {0}
ASSUME BoundsAssumption == MaxRequests \in Nat /\ MaxKills \in Nat /\ PopAlone \in BOOLEAN

Requester == {"bot", "cli"}

VARIABLES
    lines,      \* queue.jsonl, as names
    worker,     \* where the worker is
    lock,       \* worker.lock: absent, of the running worker, of a dead one
    job,        \* the name in hand, until it is done with, and whether it is queued
    buf,        \* pop's copy of the queue, until it is written
    report,     \* ondemand/<T>.json: date and whether the analysis ran
    overlay,    \* qwen_overlay.json: the date of each name's row, 0 for none
    status,     \* of the site's rows
    asks,       \* the name that a row not yet taken asks for
    at,         \* where each requester is
    wants, for, \* its name, and the row it does this for
    owed,       \* (history) names accepted and not reported on since
    today, requests, kills

workerVars  == <<worker, lock, job, buf>>
siteVars    == <<report, overlay>>
requestVars == <<status, asks, at, wants, for>>
limits      == <<today, requests, kills>>
qwenVars == <<lines, workerVars, siteVars, requestVars, owed, limits>>

Nothing == 0
NoJob == [name |-> Nothing, queued |-> FALSE]
NoReport == [date |-> 0, ran |-> FALSE]

FormedOn(n) == IF n \in Formed \ Excluded THEN 1 ELSE 0

WorkerInit ==
    /\ lines = <<>>
    /\ worker = "off"
    /\ lock = "none"
    /\ job = NoJob
    /\ buf = <<>>
    /\ report = [n \in Stock |-> NoReport]
    /\ overlay = [n \in Stock |-> FormedOn(n)]
    /\ status = [w \in Row |-> "absent"]
    /\ asks = [w \in Row |-> Nothing]
    /\ at = [r \in Requester |-> "idle"]
    /\ wants = [r \in Requester |-> Nothing]
    /\ for = [r \in Requester |-> NoRow]
    /\ owed = {}
    /\ today = 1
    /\ requests = 0
    /\ kills = 0

Queued == {lines[i] : i \in DOMAIN lines}

-----------------------------------------------------------------------------
(* Requests.  While PopAlone they keep out of the worker's two writes.     *)

MayRequest == PopAlone => worker \notin {"pop", "replace"}

(* The site inserts a row *)
WebAsk(w, n) ==
    /\ status[w] = "absent"
    /\ status' = [status EXCEPT ![w] = "pending"]
    /\ asks' = [asks EXCEPT ![w] = n]
    /\ UNCHANGED <<lines, workerVars, siteVars, at, wants, for, owed, limits>>

(* _drain_web_queue: the conditional PATCH is the claim; when its answer    *)
(* does not come the bot skips the row, which stays claimed.                *)
Claim(w) ==
    /\ at["bot"] = "idle"
    /\ status[w] = "pending"
    /\ status' = [status EXCEPT ![w] = "claimed"]
    /\ asks' = [asks EXCEPT ![w] = Nothing]
    /\ \/ /\ at' = [at EXCEPT !["bot"] = "look"]
          /\ wants' = [wants EXCEPT !["bot"] = asks[w]]
          /\ for' = [for EXCEPT !["bot"] = w]
       \/ UNCHANGED <<at, wants, for>>
    /\ UNCHANGED <<lines, workerVars, siteVars, owed, limits>>

(* /analyze T, whose update is confirmed before it is handled, or a command *)
Ask(r, n) ==
    /\ at[r] = "idle"
    /\ requests < MaxRequests
    /\ requests' = requests + 1
    /\ at' = [at EXCEPT ![r] = "look"]
    /\ wants' = [wants EXCEPT ![r] = n]
    /\ UNCHANGED <<lines, workerVars, siteVars, status, asks, for, owed, today, kills>>

(* request(): a name that waits already is not queued again *)
Look(r) ==
    /\ at[r] = "look"
    /\ MayRequest
    /\ IF wants[r] \in Queued
       THEN /\ at' = [at EXCEPT ![r] = "reply"]
            /\ owed' = owed \cup {wants[r]}
       ELSE /\ at' = [at EXCEPT ![r] = "append"]
            /\ owed' = owed
    /\ UNCHANGED <<lines, workerVars, siteVars, status, asks, wants, for, limits>>

AppendLine(r) ==
    /\ at[r] = "append"
    /\ MayRequest
    /\ lines' = Append(lines, wants[r])
    /\ owed' = owed \cup {wants[r]}
    /\ at' = [at EXCEPT ![r] = "reply"]
    /\ UNCHANGED <<workerVars, siteVars, status, asks, wants, for, limits>>

(* _qwen_request looks its name up for the position to report, and fails    *)
(* when the worker has removed it; the row's last PATCH may be lost.        *)
Reply(r) ==
    /\ at[r] = "reply"
    /\ LET verdict == IF wants[r] \in Queued THEN "handled" ELSE "failed"
       IN  IF for[r] = NoRow THEN status' = status
           ELSE \E s \in {verdict, status[for[r]]} : status' = [status EXCEPT ![for[r]] = s]
    /\ at' = [at EXCEPT ![r] = "idle"]
    /\ wants' = [wants EXCEPT ![r] = Nothing]
    /\ for' = [for EXCEPT ![r] = NoRow]
    /\ UNCHANGED <<lines, workerVars, siteVars, asks, owed, limits>>

-----------------------------------------------------------------------------
(* The worker *)

\* Mutant: a lock file is somebody's, whoever wrote it.
NeverStale == lock = "none"

(* take_lock: the pid in a lock file that is there is not alive.  (A pid    *)
(* that Windows has handed out again only delays this.)                     *)
LockIsFree == lock # "live"

Start ==
    /\ worker = "off"
    /\ LockIsFree
    /\ worker' = "pick"
    /\ lock' = "live"
    /\ UNCHANGED <<lines, job, buf, siteVars, requestVars, owed, limits>>

(* work() returns or raises: `finally` removes the worker's own lock *)
Stops ==
    /\ worker' = "off"
    /\ lock' = "none"
    /\ job' = NoJob
    /\ buf' = <<>>

(* last_analysed: a refusal counts as one day short of REFRESH_DAYS old, in *)
(* the report; the overlay has a row's date as it is.                       *)
Seen(n) ==
    (IF overlay[n] = 0 THEN {} ELSE {overlay[n]})
    \cup (IF report[n].date = 0 THEN {}
          ELSE IF report[n].ran THEN {report[n].date}
          ELSE {report[n].date - (REFRESH_DAYS - 1)})

Due(n) == n \in List \ Excluded /\ \A d \in Seen(n) : d + REFRESH_DAYS <= today

DueNames == {n \in Stock : Due(n)}

(* next_name: the queue's head, else the first name of the list that is due *)
Pick ==
    /\ worker = "pick"
    /\ \/ /\ lines # <<>>
          /\ job' = [name |-> Head(lines), queued |-> TRUE]
       \/ /\ lines = <<>>
          /\ \E n \in DueNames :
                /\ \A m \in DueNames : n <= m
                /\ job' = [name |-> n, queued |-> FALSE]
    /\ worker' = "gpu"
    /\ UNCHANGED <<lines, lock, buf, siteVars, requestVars, owed, limits>>

NothingToAnalyse ==
    /\ worker = "pick"
    /\ lines = <<>>
    /\ DueNames = {}
    /\ Stops
    /\ UNCHANGED <<lines, siteVars, requestVars, owed, limits>>

(* gpu_ours: GPU_HOLD, another model, another job's memory *)
GpuOurs ==
    /\ worker = "gpu"
    /\ worker' = "analyse"
    /\ UNCHANGED <<lines, lock, job, buf, siteVars, requestVars, owed, limits>>

GpuNotOurs ==
    /\ worker = "gpu"
    /\ Stops
    /\ UNCHANGED <<lines, siteVars, requestVars, owed, limits>>

\* Mutant: a name whose run was refused the GPU leaves the queue with it.
BusyAndGone ==
    /\ worker = "analyse"
    /\ Stops
    /\ lines' = IF job.queued THEN Tail(lines) ELSE lines
    /\ UNCHANGED <<siteVars, requestVars, owed, limits>>

(* analyze: the GPU was taken in one of its runs; the name stays queued *)
GpuBusy ==
    /\ worker = "analyse"
    /\ Stops
    /\ UNCHANGED <<lines, siteVars, requestVars, owed, limits>>

(* analyze writes a report, or a refusal: no packet, as for an excluded     *)
(* name, or an exception anywhere                                           *)
Analyse ==
    /\ worker = "analyse"
    /\ \E ran \in IF job.name \in Excluded THEN {FALSE} ELSE BOOLEAN :
          report' = [report EXCEPT ![job.name] = [date |-> today, ran |-> ran]]
    /\ owed' = owed \ {job.name}
    /\ worker' = IF job.queued THEN "pop" ELSE "publish"
    /\ job' = IF job.queued THEN job ELSE NoJob
    /\ UNCHANGED <<lines, lock, buf, overlay, requestVars, limits>>

(* pop reads the queue ... *)
PopRead ==
    /\ worker = "pop"
    /\ buf' = Sublist(lines, {i \in DOMAIN lines : lines[i] # job.name})
    /\ worker' = "replace"
    /\ UNCHANGED <<lines, lock, job, siteVars, requestVars, owed, limits>>

(* ... and replaces the file, or raises when a requester has it open *)
Replace ==
    /\ worker = "replace"
    /\ lines' = buf
    /\ worker' = "publish"
    /\ job' = NoJob
    /\ buf' = <<>>
    /\ UNCHANGED <<lock, siteVars, requestVars, owed, limits>>

ReplaceFails ==
    /\ worker = "replace"
    /\ \E r \in Requester : at[r] = "append"
    /\ Stops
    /\ UNCHANGED <<lines, siteVars, requestVars, owed, limits>>

(* qwen_site.build: a name's row is the formation's or the newer report *)
Build ==
    overlay' = [n \in Stock |->
        IF report[n].date > FormedOn(n) THEN report[n].date ELSE FormedOn(n)]

(* publish builds first; what follows works, aborts (which is logged) or    *)
(* raises (which ends the worker).  Pushing is PublishClone's.              *)
Publish ==
    /\ worker = "publish"
    /\ Build
    /\ \/ worker' = "pick" /\ UNCHANGED <<lock, job, buf>>
       \/ Stops
    /\ UNCHANGED <<lines, report, requestVars, owed, limits>>

-----------------------------------------------------------------------------
(* The environment *)

WorkerKilled ==
    /\ worker # "off"
    /\ kills < MaxKills
    /\ kills' = kills + 1
    /\ worker' = "off"
    /\ lock' = "dead"
    /\ job' = NoJob
    /\ buf' = <<>>
    /\ UNCHANGED <<lines, siteVars, requestVars, owed, today, requests>>

(* also by request()'s own exit on a name it does not take for a ticker,    *)
(* which none of the bot's handlers catches                                 *)
RequesterKilled(r) ==
    /\ at[r] # "idle"
    /\ kills < MaxKills
    /\ kills' = kills + 1
    /\ at' = [at EXCEPT ![r] = "idle"]
    /\ wants' = [wants EXCEPT ![r] = Nothing]
    /\ for' = [for EXCEPT ![r] = NoRow]
    /\ UNCHANGED <<lines, workerVars, siteVars, status, asks, owed, today, requests>>

Midnight ==
    /\ today < LastDay
    /\ today' = today + 1
    /\ UNCHANGED <<lines, workerVars, siteVars, requestVars, owed, requests, kills>>

RequesterStep(r) == Look(r) \/ AppendLine(r) \/ Reply(r)

WorkerStep ==
    \/ Start \/ Pick \/ NothingToAnalyse \/ GpuOurs \/ GpuNotOurs \/ GpuBusy
    \/ Analyse \/ PopRead \/ Replace \/ ReplaceFails \/ Publish

WorkerNext ==
    \/ \E w \in Row, n \in Stock : WebAsk(w, n)
    \/ \E w \in Row : Claim(w)
    \/ \E r \in Requester, n \in Stock : Ask(r, n)
    \/ \E r \in Requester : RequesterStep(r) \/ RequesterKilled(r)
    \/ WorkerStep
    \/ WorkerKilled
    \/ Midnight

WorkerSpec == WorkerInit /\ [][WorkerNext]_qwenVars

(* The task starts a worker every 15 minutes and every step of it ends; a   *)
(* GPU that is asked for again and again is free at last, and stays so for  *)
(* a whole analysis; a requester's steps are milliseconds of file access    *)
(* and HTTP calls with a time limit, while an analysis takes 20 minutes.    *)
FairWorkerSpec ==
    /\ WorkerSpec
    /\ WF_qwenVars(WorkerStep)
    /\ SF_qwenVars(GpuOurs)
    /\ SF_qwenVars(Analyse)
    /\ \A r \in Requester : SF_qwenVars(RequesterStep(r))

-----------------------------------------------------------------------------
(* Properties *)

Status == {"absent", "pending", "claimed", "handled", "failed"}

(* Types: the variables stay what the comments above say they are. *)
WorkerTypeOK ==
    /\ lines \in Seq(Stock) /\ buf \in Seq(Stock)
    /\ worker \in {"off", "pick", "gpu", "analyse", "pop", "replace", "publish"}
    /\ lock \in {"none", "live", "dead"}
    /\ job \in [name : Stock \cup {Nothing}, queued : BOOLEAN]
    /\ report \in [Stock -> [date : 0..LastDay, ran : BOOLEAN]]
    /\ overlay \in [Stock -> 0..LastDay]
    /\ status \in [Row -> Status]
    /\ asks \in [Row -> Stock \cup {Nothing}]
    /\ at \in [Requester -> {"idle", "look", "append", "reply"}]
    /\ wants \in [Requester -> Stock \cup {Nothing}]
    /\ for \in [Requester -> Row \cup {NoRow}]
    /\ owed \subseteq Stock
    /\ today \in 1..LastDay /\ requests \in 0..MaxRequests /\ kills \in 0..MaxKills

(* A request that was accepted waits in the queue until a report is written *)
(* that is newer than it: through dead workers, a GPU taken in the middle,  *)
(* removals that fail and requests that arrive during the analysis.  (With  *)
(* requests in between pop's read and its replacement they are lost.)       *)
RequestsAreKept == owed \subseteq Queued

(* Every accepted request is reported on, and every name of the list that   *)
(* is due is analysed or refused, whatever dies and however the GPU is      *)
(* contended for.                                                           *)
NobodyWaitsForever ==
    \A n \in Stock :
        /\ (n \in owed) ~> (n \notin owed)
        /\ Due(n) ~> ~Due(n)

(* "A refusal (analysis not run) counts as RETRY_REFUSED_HOURS old-age      *)
(* less, so it is retried the next day, not after REFRESH_DAYS": a worker   *)
(* that finds nothing to analyse leaves no name of the list refused before  *)
(* yesterday.                                                               *)
RefusalIsRetried ==
    [][NothingToAnalyse =>
        \A n \in List \ Excluded :
            report[n].date > 0 /\ ~report[n].ran => report[n].date + 1 >= today]_qwenVars

(* "Operator-excluded names are never published." *)
ExcludedNeverPublished == \A n \in Excluded : overlay[n] = 0
===============================================================================
