------------------------------- MODULE StateSync -------------------------------
(***************************************************************************)
(* sync_state.py: the hourly backup of the depth state to the rs2-state    *)
(* repository, and the import of what the cloud arm left there.            *)
(*                                                                         *)
(* Four copies of the state are in play: the local cache, the working tree *)
(* and the HEAD of the disposable clone, and the remote repository, which  *)
(* the cloud arm pushes to as well.  A copy holds the delta of verdict     *)
(* rows the cloud has for us, depth_state.json (one dated record a name)   *)
(* and paper_books/, which long runs append to in the working tree.        *)
(***************************************************************************)
EXTENDS Naturals, SequencesExt

CONSTANTS
  Rows,              \* verdict rows the cloud may write
  Name,
  SweepsOverlap,     \* may a sweep be under way while the sync runs?
  WritersOverlap,    \* may a long run append to paper_books/ during the sync?
  MaxSaves,          \* bound: records saved by sweeps
  MaxSlots,          \* bound: slots appended to paper_books/
  MaxFailures,       \* bound: pushes that fail for want of a network
  MaxCrashes         \* bound: syncs that die

ASSUME SyncAssumption ==
  /\ IsFiniteSet(Rows)
  /\ {SweepsOverlap, WritersOverlap} \subseteq BOOLEAN
  /\ {MaxSaves, MaxSlots, MaxFailures, MaxCrashes} \subseteq Nat

VARIABLES
  remote,   \* the repository: [delta, recs, books]
  version,  \* its number of commits
  upstream, \* @{u} of the clone, and
  fetched,  \*   the version it stands for
  head,     \* HEAD of the clone
  tree,     \* its working tree
  ledger,   \* depth_ledger.jsonl: the cloud's rows in it
  recs,     \* depth_state.json: [Name -> record]
  mem,      \* the records a running sweep holds in memory, or NoSweep
  pc,       \* where the sync is
  kept,     \* paper_books/ carried across the reset, or Nothing
  mine,     \* the records _import_cloud_state has read
  clock, saves, failures, crashes,
  published,\* history: rows the cloud pushed
  written   \* history: slots appended to paper_books/

repo    == <<remote, version>>
clone   == <<upstream, fetched, head, tree>>
cache   == <<ledger, recs>>
sync    == <<pc, kept, mine>>
bounds  == <<clock, saves, failures, crashes>>
history == <<published, written>>
vars    == <<repo, clone, cache, mem, sync, bounds, history>>

Nothing == MaxSlots + 1
MaxTime == MaxSaves + Cardinality(Rows)
Record  == [date : 0 .. MaxTime, cloud : BOOLEAN]
Records == [Name -> Record]
NoSweep == <<>>
Copy    == [delta : SUBSET Rows, recs : Records, books : 0 .. MaxSlots]
Empty   == [delta |-> {}, books |-> 0,
            recs |-> [t \in Name |-> [date |-> 0, cloud |-> FALSE]]]

TypeOK ==
  /\ {remote, upstream, head, tree} \subseteq Copy
  /\ version \in Nat /\ fetched \in 0 .. version
  /\ ledger \in Seq(Rows)
  /\ recs \in Records /\ mine \in Records
  /\ mem \in Records \cup {NoSweep}
  /\ pc \in {"idle", "carry", "reset", "restore", "import", "truncate", "read",
             "merge", "copy", "commit", "push"}
  /\ kept \in 0 .. MaxSlots \cup {Nothing}
  /\ clock \in 0 .. MaxTime
  /\ saves \in 0 .. MaxSaves /\ failures \in 0 .. MaxFailures
  /\ crashes \in 0 .. MaxCrashes
  /\ published \subseteq Rows /\ written \in 0 .. MaxSlots

Init ==
  /\ remote = Empty /\ upstream = Empty /\ head = Empty /\ tree = Empty
  /\ version = 0 /\ fetched = 0
  /\ ledger = <<>> /\ recs = Empty.recs /\ mem = NoSweep
  /\ pc = "idle" /\ kept = Nothing /\ mine = Empty.recs
  /\ clock = 0 /\ saves = 0 /\ failures = 0 /\ crashes = 0
  /\ published = {} /\ written = 0

Has(row) == \E i \in 1 .. Len(ledger) : ledger[i] = row

-------------------------------------------------------------------------------
(* The others.                                                             *)

\* The cloud arm, which starts from the remote it pushes to, hands back a verdict
\* row and the record it stamped.
CloudPush(row, t) ==
  /\ row \notin published
  /\ clock' = clock + 1
  /\ remote' = [remote EXCEPT !.delta = @ \cup {row},
                  !.recs[t] = [date |-> clock + 1, cloud |-> TRUE]]
  /\ version' = version + 1
  /\ published' = published \cup {row}
  /\ UNCHANGED <<clone, cache, mem, sync, saves, failures, crashes, written>>

\* orchestrate_depth: load_state at the start of a sweep, ...
SweepLoads ==
  /\ mem = NoSweep /\ saves < MaxSaves
  /\ SweepsOverlap \/ pc = "idle"
  /\ mem' = recs
  /\ UNCHANGED <<repo, clone, cache, sync, bounds, history>>

\* ... save_state of the whole map after every name, ...
SweepSaves(t) ==
  /\ mem # NoSweep /\ saves < MaxSaves
  /\ saves' = saves + 1 /\ clock' = clock + 1
  /\ mem' = [mem EXCEPT ![t] = [date |-> clock + 1, cloud |-> FALSE]]
  /\ recs' = mem'
  /\ UNCHANGED <<repo, clone, ledger, sync, failures, crashes, history>>

\* ... and its end.
SweepEnds ==
  /\ mem # NoSweep
  /\ mem' = NoSweep
  /\ UNCHANGED <<repo, clone, cache, sync, bounds, history>>

\* A formation or archival run appends a slot to its index in the clone's
\* working tree; it commits later or never.
BooksAppend ==
  /\ written < MaxSlots
  /\ WritersOverlap \/ pc = "idle"
  /\ tree' = [tree EXCEPT !.books = @ + 1]
  /\ written' = written + 1
  /\ UNCHANGED <<repo, upstream, fetched, head, cache, mem, sync, bounds,
                 published>>

-------------------------------------------------------------------------------
(* _sync.                                                                  *)
Fetch ==
  /\ pc = "idle"
  /\ SweepsOverlap \/ mem = NoSweep
  /\ upstream' = remote /\ fetched' = version
  /\ pc' = "carry"
  /\ UNCHANGED <<repo, head, tree, cache, mem, kept, mine, bounds, history>>

\* What is uncommitted under paper_books/ is read into memory; a file that
\* HEAD and @{u} disagree on stops the sync.
Carry ==
  /\ pc = "carry"
  /\ IF tree.books = head.books THEN kept' = Nothing /\ pc' = "reset"
     ELSE IF head.books # upstream.books THEN pc' = "idle" /\ UNCHANGED kept
     ELSE kept' = tree.books /\ pc' = "reset"
  /\ UNCHANGED <<repo, clone, cache, mem, mine, bounds, history>>

\* Mutant: the clone goes on from what it held.
ResetSkipped ==
  /\ pc = "reset"
  /\ pc' = "restore"
  /\ UNCHANGED <<repo, clone, cache, mem, kept, mine, bounds, history>>

Reset ==
  /\ pc = "reset"
  /\ head' = upstream /\ tree' = upstream
  /\ pc' = "restore"
  /\ UNCHANGED <<repo, upstream, fetched, cache, mem, kept, mine, bounds, history>>

\* Mutant: nothing is written back.
RestoreNothing ==
  /\ pc = "restore"
  /\ kept' = Nothing
  /\ pc' = "import"
  /\ UNCHANGED <<repo, clone, cache, mem, mine, bounds, history>>

Restore ==
  /\ pc = "restore"
  /\ tree' = IF kept = Nothing THEN tree ELSE [tree EXCEPT !.books = kept]
  /\ kept' = Nothing
  /\ pc' = "import"
  /\ UNCHANGED <<repo, upstream, fetched, head, cache, mem, mine, bounds, history>>

\* Mutant: rows already in the ledger are appended again.
ImportAll ==
  /\ pc = "import"
  /\ ledger' = ledger \o SetToSeq(tree.delta)
  /\ pc' = "truncate"
  /\ UNCHANGED <<repo, clone, recs, mem, kept, mine, bounds, history>>

\* _import_cloud_delta: the rows the ledger lacks are appended, ...
Import ==
  /\ pc = "import"
  /\ ledger' = ledger \o SetToSeq({row \in tree.delta : ~Has(row)})
  /\ pc' = "truncate"
  /\ UNCHANGED <<repo, clone, recs, mem, kept, mine, bounds, history>>

\* ... and the delta in the working tree is emptied.
Truncate ==
  /\ pc = "truncate"
  /\ tree' = [tree EXCEPT !.delta = {}]
  /\ pc' = "read"
  /\ UNCHANGED <<repo, upstream, fetched, head, cache, mem, kept, mine, bounds,
                 history>>

\* _import_cloud_state reads depth_state.json ...
Read ==
  /\ pc = "read"
  /\ mine' = recs
  /\ pc' = "merge"
  /\ UNCHANGED <<repo, clone, cache, mem, kept, bounds, history>>

\* Mutant: every record the cloud stamped is taken, newer or not.
MergeAny ==
  /\ pc = "merge"
  /\ LET taken == {t \in Name : tree.recs[t].cloud} IN
       recs' = IF taken = {} THEN recs
               ELSE [t \in Name |-> IF t \in taken THEN tree.recs[t] ELSE mine[t]]
  /\ pc' = "copy"
  /\ UNCHANGED <<repo, clone, ledger, mem, kept, mine, bounds, history>>

\* ... and replaces it when the cloud stamped a newer record.
Merge ==
  /\ pc = "merge"
  /\ LET taken == {t \in Name : tree.recs[t].cloud
                                  /\ tree.recs[t].date > mine[t].date} IN
       recs' = IF taken = {} THEN recs
               ELSE [t \in Name |-> IF t \in taken THEN tree.recs[t] ELSE mine[t]]
  /\ pc' = "copy"
  /\ UNCHANGED <<repo, clone, ledger, mem, kept, mine, bounds, history>>

CopyFiles ==
  /\ pc = "copy"
  /\ tree' = [tree EXCEPT !.recs = recs]
  /\ pc' = "commit"
  /\ UNCHANGED <<repo, upstream, fetched, head, cache, mem, kept, mine, bounds,
                 history>>

\* add -A and commit: paper_books/ goes into the commit with the rest.
Commit ==
  /\ pc = "commit"
  /\ head' = tree
  /\ pc' = IF tree = head THEN "idle" ELSE "push"
  /\ UNCHANGED <<repo, upstream, fetched, tree, cache, mem, kept, mine, bounds,
                 history>>

\* Mutant: the push is forced.
PushForced ==
  /\ pc = "push"
  /\ remote' = head /\ version' = version + 1
  /\ upstream' = head /\ fetched' = version'
  /\ pc' = "idle"
  /\ UNCHANGED <<head, tree, cache, mem, kept, mine, bounds, history>>

\* The push is rejected when somebody else pushed since the fetch.
Push ==
  /\ pc = "push"
  /\ IF fetched = version
     THEN /\ remote' = head /\ version' = version + 1
          /\ upstream' = head /\ fetched' = version'
     ELSE UNCHANGED <<repo, upstream, fetched>>
  /\ pc' = "idle"
  /\ UNCHANGED <<head, tree, cache, mem, kept, mine, bounds, history>>

\* An outage during the push, or before its answer.
PushFails ==
  /\ pc = "push" /\ failures < MaxFailures
  /\ failures' = failures + 1
  /\ pc' = "idle"
  /\ \/ UNCHANGED repo
     \/ fetched = version /\ remote' = head /\ version' = version + 1
  /\ UNCHANGED <<clone, cache, mem, kept, mine, clock, saves, crashes, history>>

Crash ==
  /\ pc # "idle" /\ crashes < MaxCrashes
  /\ crashes' = crashes + 1
  /\ pc' = "idle" /\ kept' = Nothing
  /\ UNCHANGED <<repo, clone, cache, mem, mine, clock, saves, failures, history>>

-------------------------------------------------------------------------------
SyncStep ==
  \/ Fetch \/ Carry \/ Reset \/ Restore \/ Import \/ Truncate \/ Read \/ Merge
  \/ CopyFiles \/ Commit \/ Push

Next ==
  \/ SyncStep \/ PushFails \/ Crash
  \/ SweepLoads \/ SweepEnds \/ BooksAppend
  \/ \E t \in Name : SweepSaves(t) \/ \E row \in Rows : CloudPush(row, t)

Spec == Init /\ [][Next]_vars

\* control_agent runs the sync every hour, git commands end (120 s each), and so
\* do sweeps (a watchdog kills a child that stalls).  Where sweeps and syncs are
\* kept apart, sweeps that come again and again leave the sync its turn.
FairSpec == Spec /\ SF_vars(SyncStep) /\ WF_vars(SweepEnds)

-------------------------------------------------------------------------------
(* Properties.                                                             *)

\* A verdict row the cloud pushed is never lost between the truncation of the
\* delta, the pushes that race and the syncs that die: it is in the local ledger
\* or still in the remote delta (_import_cloud_delta, the rejected push).
CloudRowsAreKept == \A row \in published : Has(row) \/ row \in remote.delta

\* The import is idempotent: a sync that died after it, or whose push was
\* rejected, imports no row a second time.
NoRowTwice == \A i, j \in 1 .. Len(ledger) : ledger[i] = ledger[j] => i = j

\* A record in depth_state.json is only ever replaced by a newer one
\* (_import_cloud_state: "replaces the local row only if it is NEWER").
RecordsNeverAge ==
  [][\A t \in Name : recs'[t].date >= recs[t].date]_vars

\* paper_books/ in the working tree never loses a slot ("uncommitted files there
\* survive its reset"): whenever no sync runs, every appended slot is there.
BooksSurvive == pc = "idle" => tree.books = written

\* "No state can wedge this permanently": a row the cloud pushed is imported in
\* the end, whatever crashed and whichever pushes were lost on the way.
CloudRowsArrive == \A row \in Rows : row \in published ~> Has(row)

===============================================================================
