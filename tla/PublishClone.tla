------------------------------ MODULE PublishClone -----------------------------
(***************************************************************************)
(* The one clone of the screener repository that everything goes through:  *)
(* publish_overlay pushes the depth artifacts from it, qwen_site.publish   *)
(* the Qwen artifacts, and refresh_screener_data resets it to origin/main  *)
(* so that the analysts read current data.  They serialise on the file     *)
(* screener_publish.lock, which a waiter deletes when it is old, and which *)
(* the depth side does without when it has waited too long.                *)
(*                                                                         *)
(* A commit is its content: a version of each part, where a part is the    *)
(* set of paths one producer writes.  Garbage is a file that does not      *)
(* parse.                                                                  *)
(***************************************************************************)
EXTENDS Naturals

CONSTANTS
  DepthPubs,      \* processes in publish_overlay
  QwenPubs,       \* processes in qwen_site.publish
  Refreshers,     \* processes in refresh_screener_data
  NoProc,         \* "no lock file"
  NoSweep,        \* "no screener_data_commit"
  LockExpires,    \* may a live publisher keep the lock past its timeout, or a
                  \* depth publisher wait past it?
  MaxAttempts,    \* pushes tried (5)
  MaxData,        \* bound: data commits by the screener's own workflow
  MaxVersion,     \* bound: versions of the depth and Qwen artifacts
  MaxRejects,     \* bound: malformed artifacts and refused stagings
  MaxOutages,     \* bound: requests to the remote that fail
  MaxCrashes      \* bound: publishers that die

Proc == DepthPubs \cup QwenPubs \cup Refreshers

ASSUME CloneAssumption ==
  /\ DepthPubs \cap QwenPubs = {}
  /\ (DepthPubs \cup QwenPubs) \cap Refreshers = {}
  /\ NoProc \notin Proc /\ NoSweep \notin Nat
  /\ LockExpires \in BOOLEAN
  /\ MaxAttempts \in Nat \ {0}
  /\ {MaxData, MaxVersion, MaxRejects, MaxOutages, MaxCrashes} \subseteq Nat

VARIABLES
  remote,   \* content of main at the remote, and
  rver,     \*   its number of commits
  origin,   \* origin/main in the clone: [ver, content]
  head,     \* HEAD: [ver, base, content], content on top of version ver, base
  index, tree,
  local,    \* the newest artifacts on this PC, not in the clone
  plock,    \* the process whose lock file exists
  pc,       \* [Proc -> where it is]
  got,      \* [Proc -> it has acquired the lock]
  attempt,  \* [Proc -> pushes tried]
  mine,     \* [Proc -> the version it wrote]
  sweep,    \* screener_data_commit of the sweep: the data that commit has
  claimed,  \* history: newest version of each part reported as pushed
  budget

repo    == <<remote, rver>>
clone   == <<origin, head, index, tree>>
procs   == <<plock, pc, got, attempt, mine>>
analyst == <<sweep, local>>
vars    == <<repo, clone, procs, analyst, claimed, budget>>

Part    == {"data", "depth", "qwen"}
Garbage == 0
Cap     == 1 + MaxData + MaxVersion
Content == [Part -> 0 .. Cap]
Fresh   == [q \in Part |-> 1]

Owns(p) == IF p \in QwenPubs THEN "qwen" ELSE "depth"

TypeOK ==
  /\ {remote, index, tree, local, claimed} \subseteq Content
  /\ rver \in Nat
  /\ origin \in [ver : 0 .. rver, content : Content]
  /\ head \in [ver : 0 .. rver, base : Content, content : Content]
  /\ plock \in Proc \cup {NoProc}
  /\ pc \in [Proc -> {"off", "lock", "fetch", "check", "reset", "stamp", "write",
                      "validate", "add", "commit", "sync", "push", "release"}]
  /\ got \in [Proc -> BOOLEAN]
  /\ attempt \in [Proc -> 0 .. MaxAttempts]
  /\ mine \in [Proc -> 0 .. Cap]
  /\ sweep \in 1 .. Cap \cup {NoSweep}
  /\ budget \in [rejects : 0 .. MaxRejects, outages : 0 .. MaxOutages,
                 crashes : 0 .. MaxCrashes]

Init ==
  /\ remote = Fresh /\ rver = 0
  /\ origin = [ver |-> 0, content |-> Fresh]
  /\ head = [ver |-> 0, base |-> Fresh, content |-> Fresh]
  /\ index = Fresh /\ tree = Fresh /\ local = Fresh
  /\ plock = NoProc
  /\ pc = [p \in Proc |-> "off"] /\ got = [p \in Proc |-> FALSE]
  /\ attempt = [p \in Proc |-> 0] /\ mine = [p \in Proc |-> 0]
  /\ sweep = NoSweep
  /\ claimed = Fresh
  /\ budget = [rejects |-> MaxRejects, outages |-> MaxOutages,
               crashes |-> MaxCrashes]

Goto(p, l) == pc' = [pc EXCEPT ![p] = l]
Spend(b)   == budget[b] > 0 /\ budget' = [budget EXCEPT ![b] = @ - 1]
Forget(p)  == /\ got' = [got EXCEPT ![p] = FALSE]
              /\ attempt' = [attempt EXCEPT ![p] = 0]
              /\ mine' = [mine EXCEPT ![p] = 0]
Dirty(q)   == tree[q] # head.content[q] \/ index[q] # head.content[q]

-------------------------------------------------------------------------------
(* The world: data commits at the remote, verdicts and analyses here.      *)
DataPush ==
  /\ remote["data"] <= MaxData
  /\ remote' = [remote EXCEPT !["data"] = @ + 1] /\ rver' = rver + 1
  /\ UNCHANGED <<clone, procs, analyst, claimed, budget>>

\* A child of a sweep that was refreshed forms a verdict.
Analyse ==
  /\ sweep # NoSweep /\ local["depth"] <= MaxVersion
  /\ local' = [local EXCEPT !["depth"] = @ + 1]
  /\ UNCHANGED <<repo, clone, procs, sweep, claimed, budget>>

AnalyseQwen ==
  /\ local["qwen"] <= MaxVersion
  /\ local' = [local EXCEPT !["qwen"] = @ + 1]
  /\ UNCHANGED <<repo, clone, procs, sweep, claimed, budget>>

-------------------------------------------------------------------------------
(* The lock.                                                               *)
Begin(p) ==
  /\ pc[p] = "off" /\ plock # p
  /\ Goto(p, "lock")
  /\ UNCHANGED <<repo, clone, plock, got, attempt, mine, analyst, claimed, budget>>

FirstStep(p) == IF p \in Refreshers THEN "check" ELSE "fetch"

Acquire(p) ==
  /\ pc[p] = "lock" /\ plock = NoProc
  /\ plock' = p
  /\ got' = [got EXCEPT ![p] = TRUE]
  /\ Goto(p, FirstStep(p))
  /\ UNCHANGED <<repo, clone, attempt, mine, analyst, claimed, budget>>

\* A lock file older than 200 s is removed, whoever made it.
RemoveStale(p) ==
  /\ pc[p] = "lock" /\ plock # NoProc
  /\ LockExpires \/ pc[plock] = "off"
  /\ plock' = NoProc
  /\ UNCHANGED <<repo, clone, pc, got, attempt, mine, analyst, claimed, budget>>

\* After a wait of 200 s, in which several others may have had their turns, Qwen
\* aborts; the depth side goes on without the lock.
WaitIsOver(p) ==
  /\ pc[p] = "lock" /\ plock # NoProc
  /\ LockExpires \/ p \in QwenPubs
  /\ Goto(p, IF p \in QwenPubs THEN "off" ELSE FirstStep(p))
  /\ UNCHANGED <<repo, clone, plock, got, attempt, mine, analyst, claimed, budget>>

Release(p) ==
  /\ pc[p] = "release"
  /\ plock' = IF got[p] THEN NoProc ELSE plock
  /\ Goto(p, "off") /\ Forget(p)
  /\ UNCHANGED <<repo, clone, analyst, claimed, budget>>

-------------------------------------------------------------------------------
(* Up to the reset.                                                        *)
Fetch(p) ==
  /\ pc[p] = "fetch"
  /\ \/ /\ origin' = [ver |-> rver, content |-> remote]
        /\ Goto(p, IF p \in Refreshers THEN "reset" ELSE "check")
        /\ UNCHANGED budget
     \/ Spend("outages") /\ Goto(p, "release") /\ UNCHANGED origin
  /\ UNCHANGED <<repo, head, index, tree, plock, got, attempt, mine, analyst,
                 claimed>>

\* Mutant: a tree dirtied by an earlier run of one's own is refused as well.
CheckEverything(p) ==
  /\ pc[p] = "check"
  /\ Goto(p, IF \E q \in Part : Dirty(q) THEN "release"
             ELSE IF p \in Refreshers THEN "fetch" ELSE "reset")
  /\ UNCHANGED <<repo, clone, plock, got, attempt, mine, analyst, claimed, budget>>

\* git status without one's own paths; refresh excludes the depth paths.
Check(p) ==
  /\ pc[p] = "check"
  /\ Goto(p, IF \E q \in Part \ {Owns(p)} : Dirty(q) THEN "release"
             ELSE IF p \in Refreshers THEN "fetch" ELSE "reset")
  /\ UNCHANGED <<repo, clone, plock, got, attempt, mine, analyst, claimed, budget>>

Blocked ==
  \E q \in Part : /\ Dirty(q) /\ head.content[q] # origin.content[q]
                  /\ index[q] # origin.content[q]

\* Mutant: the branch moves, the working tree stays.
ResetSoft(p) ==
  /\ pc[p] = "reset"
  /\ head' = [ver |-> origin.ver, base |-> origin.content,
              content |-> origin.content]
  /\ index' = origin.content
  /\ UNCHANGED tree
  /\ Goto(p, IF p \in Refreshers THEN "stamp" ELSE "write")
  /\ UNCHANGED <<repo, origin, plock, got, attempt, mine, analyst, claimed, budget>>

\* checkout -B main origin/main: a commit that was never pushed is dropped, a
\* local change is kept when the file is the same in both commits.
Reset(p) ==
  /\ pc[p] = "reset"
  /\ IF Blocked
     THEN Goto(p, "release") /\ UNCHANGED <<head, index, tree>>
     ELSE /\ head' = [ver |-> origin.ver, base |-> origin.content,
                      content |-> origin.content]
          /\ index' = [q \in Part |->
               IF index[q] = head.content[q] THEN origin.content[q] ELSE index[q]]
          /\ tree' = [q \in Part |->
               IF Dirty(q) THEN tree[q] ELSE origin.content[q]]
          /\ Goto(p, IF p \in Refreshers THEN "stamp" ELSE "write")
  /\ UNCHANGED <<repo, origin, plock, got, attempt, mine, analyst, claimed, budget>>

\* rev-parse HEAD, which the sweep hands to every child it starts.
Stamp(p) ==
  /\ pc[p] = "stamp"
  /\ sweep' = head.content["data"]
  /\ Goto(p, "release")
  /\ UNCHANGED <<repo, clone, plock, got, attempt, mine, local, claimed,
                 budget>>

-------------------------------------------------------------------------------
(* Writing, staging, committing.                                           *)
Write(p) ==
  /\ pc[p] = "write"
  /\ \/ tree' = [tree EXCEPT ![Owns(p)] = local[Owns(p)]] /\ UNCHANGED budget
     \/ tree' = [tree EXCEPT ![Owns(p)] = Garbage] /\ Spend("rejects")
  /\ mine' = [mine EXCEPT ![p] = tree'[Owns(p)]]
  /\ Goto(p, "validate")
  /\ UNCHANGED <<repo, origin, head, index, plock, got, attempt, analyst, claimed>>

\* Mutant: nothing is parsed.
ValidateNothing(p) ==
  /\ pc[p] = "validate"
  /\ Goto(p, "add")
  /\ UNCHANGED <<repo, clone, plock, got, attempt, mine, analyst, claimed, budget>>

Validate(p) ==
  /\ pc[p] = "validate"
  /\ Goto(p, IF tree[Owns(p)] = Garbage THEN "release" ELSE "add")
  /\ UNCHANGED <<repo, clone, plock, got, attempt, mine, analyst, claimed, budget>>

Add(p) ==
  /\ pc[p] = "add"
  /\ index' = [index EXCEPT ![Owns(p)] = tree[Owns(p)]]
  /\ Goto(p, "commit")
  /\ UNCHANGED <<repo, origin, head, tree, plock, got, attempt, mine, analyst,
                 claimed, budget>>

\* diff --cached --check may refuse; nothing staged is nothing to push; else
\* the whole index is committed.
Commit(p) ==
  /\ pc[p] = "commit"
  /\ \/ Spend("rejects") /\ Goto(p, "release") /\ UNCHANGED head
     \/ /\ index = head.content
        /\ Goto(p, "release")
        /\ UNCHANGED <<head, budget>>
     \/ /\ index # head.content
        /\ head' = [head EXCEPT !.content = index]
        /\ Goto(p, "sync")
        /\ UNCHANGED budget
  /\ UNCHANGED <<repo, origin, index, tree, plock, got, attempt, mine, analyst,
                 claimed>>

-------------------------------------------------------------------------------
(* Pushing.                                                                *)
Ours(q)     == head.content[q] # head.base[q]
Merged(new) == [q \in Part |-> IF Ours(q) THEN head.content[q] ELSE new[q]]
Conflict(new) ==
  \E q \in Part : Ours(q) /\ new[q] \notin {head.base[q], head.content[q]}

\* Fetch (its failure goes unnoticed) and rebase, which wants a clean tree.
Sync(p) ==
  /\ pc[p] = "sync"
  /\ attempt' = [attempt EXCEPT ![p] = @ + 1]
  /\ \/ origin' = [ver |-> rver, content |-> remote] /\ UNCHANGED budget
     \/ UNCHANGED origin /\ Spend("outages")
  /\ IF (\E q \in Part : Dirty(q)) \/ Conflict(origin'.content)
     THEN Goto(p, "release") /\ UNCHANGED <<head, index, tree>>
     ELSE /\ head' = [ver |-> origin'.ver, base |-> origin'.content,
                      content |-> Merged(origin'.content)]
          /\ index' = head'.content /\ tree' = head'.content
          /\ Goto(p, "push")
  /\ UNCHANGED <<repo, plock, got, mine, analyst, claimed>>

AtLeast(m, n) == IF m >= n THEN m ELSE n

Lands ==
  /\ remote' = head.content
  /\ rver' = IF head.content = head.base THEN rver ELSE rver + 1

Accepted(p) ==
  /\ Lands
  /\ origin' = [ver |-> rver', content |-> head.content]
  /\ head' = [ver |-> rver', base |-> head.content, content |-> head.content]
  /\ claimed' = [claimed EXCEPT ![Owns(p)] = AtLeast(@, mine[p])]
  /\ Goto(p, "release")

\* Mutant: the result of the push is not looked at.
RejectedUnseen(p) ==
  /\ claimed' = [claimed EXCEPT ![Owns(p)] = AtLeast(@, mine[p])]
  /\ Goto(p, "release")
  /\ UNCHANGED <<origin, head>>

Rejected(p) ==
  /\ Goto(p, IF attempt[p] < MaxAttempts THEN "sync" ELSE "release")
  /\ UNCHANGED <<origin, head, claimed>>

\* Mutant: the push is forced.
PushForced(p) ==
  /\ pc[p] = "push"
  /\ \/ Accepted(p) /\ UNCHANGED budget
     \/ Rejected(p) /\ UNCHANGED repo /\ Spend("outages")
  /\ UNCHANGED <<index, tree, plock, got, attempt, mine, analyst>>

\* push origin main: accepted when the remote has nothing that HEAD lacks.  An
\* outage may come before the push or only before its answer.
Push(p) ==
  /\ pc[p] = "push"
  /\ \/ head.ver = rver /\ Accepted(p) /\ UNCHANGED budget
     \/ head.ver # rver /\ Rejected(p) /\ UNCHANGED <<repo, budget>>
     \/ /\ Rejected(p) /\ Spend("outages")
        /\ UNCHANGED repo \/ (head.ver = rver /\ Lands)
  /\ UNCHANGED <<index, tree, plock, got, attempt, mine, analyst>>

Crash(p) ==
  /\ pc[p] # "off" /\ Spend("crashes")
  /\ Goto(p, "off") /\ Forget(p)
  /\ UNCHANGED <<repo, clone, plock, analyst, claimed>>

-------------------------------------------------------------------------------
Wait(p) == RemoveStale(p) \/ WaitIsOver(p)

GitStep(p) ==
  \/ Fetch(p) \/ Check(p) \/ Reset(p) \/ Stamp(p) \/ Write(p) \/ Validate(p)
  \/ Add(p) \/ Commit(p) \/ Sync(p) \/ Push(p) \/ Release(p)

Next ==
  \/ DataPush \/ Analyse \/ AnalyseQwen
  \/ \E p \in Proc :
       Begin(p) \/ Acquire(p) \/ Wait(p) \/ GitStep(p) \/ Crash(p)

Spec == Init /\ [][Next]_vars

\* Both publishers are called again and again (scheduled sweeps and the daily
\* monitor; the Qwen worker, which does not always come in the seconds in which
\* somebody else is at the clone).  Whoever is there goes on, as git calls end (120 s
\* each); a second one would need the lock as well.  A waiter
\* that polls every 2 s meets a lock that is free most of the time, and removes one
\* that a dead publisher left, in the end.
Fairness ==
  /\ WF_vars(\E p \in Proc : GitStep(p))
  /\ \A p \in DepthPubs : WF_vars(Begin(p))
  /\ \A p \in QwenPubs : SF_vars(Begin(p) /\ (plock = NoProc \/ pc[plock] = "off"))
  /\ \A p \in DepthPubs \cup QwenPubs : SF_vars(RemoveStale(p) \/ Acquire(p))

FairSpec == Spec /\ Fairness

-------------------------------------------------------------------------------
(* Properties.                                                             *)

\* "Rebase-and-push that never drops a remote commit" (publish_overlay,
\* qwen_site): no push takes a part of the site back to an older version,
\* whoever else pushed or published in between.
NothingIsRolledBack == [][\A q \in Part : remote'[q] >= remote[q]]_vars

\* "A bad artifact never reaches a commit": what does not parse is never pushed,
\* not by the run that wrote it and not by a later one that finds it in the
\* tree or the index.
OnlyValidIsPushed == \A q \in Part : remote[q] # Garbage

\* A publisher that reports a push, and deletes the bundles it carried ("cleared
\* only once the push that carries them succeeds"), has its version on the site.
PushedIsOnSite == \A q \in Part : claimed[q] <= remote[q]

\* "Never analyse against data nobody has verified is current": the data in the
\* clone is never older than what the sweep was refreshed to.
DataIsCurrent == sweep # NoSweep => tree["data"] >= sweep

\* "Next sweep will retry": a verdict reaches the site in the end, whatever was
\* refused, rejected or died half-way before, and whichever side did.
VerdictsArePublished ==
  \A v \in 2 .. 1 + MaxVersion : local["depth"] >= v ~> remote["depth"] >= v

===============================================================================
