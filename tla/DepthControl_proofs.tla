------------------------- MODULE DepthControl_proofs --------------------------
(***************************************************************************)
(* Theorems about DepthControl, for every set of processes, requesters and *)
(* names and every bound; and about OnDemandMutex, the lock under which    *)
(* DepthControl's processes and requesters rewrite the queue file.         *)
(***************************************************************************)
EXTENDS DepthControl, OnDemandMutex, TLAPS

USE DEF files, procs, callers, history

-------------------------------------------------------------------------------
(* Type correctness.                                                       *)

LEMMA TypeInit == Init => TypeOK
<1> SUFFICES ASSUME Init PROVE TypeOK
  OBVIOUS
<1> USE DEF Init
<1>1. "off" \in Label /\ queue \in Seq(Tickers)
  BY DEF Label
<1>2a. /\ pc \in [Proc -> Label]
       /\ lock \in Proc \cup {NoPid}
       /\ paused \in BOOLEAN
       /\ progress \in Name \cup {NoTicker}
       /\ left \in [Proc -> SUBSET Book]
  BY <1>1
<1>2. /\ cur \in [Proc -> Name \cup {NoTicker}]
      /\ child \in [Proc -> Name \cup {NoTicker}]
      /\ rpc \in [Requesters -> {"idle", "progress", "pause", "lock"}]
      /\ rt \in [Requesters -> Tickers \cup {NoTicker}]
  OBVIOUS
<1>3. /\ accepted \in [Tickers -> Nat]
      /\ claimed \in [Tickers -> Nat]
      /\ stopBy \in [Proc -> BOOLEAN]
  OBVIOUS
<1>4. budget \in [pauses : Nat, crashes : Nat, refusals : Nat]
  BY ProcAssumption
<1> QED BY <1>1, <1>2a, <1>2, <1>3, <1>4 DEF TypeOK

\* Spending a unit of a bound leaves a record of bounds.
LEMMA Spending ==
  ASSUME NEW b \in [pauses : Nat, crashes : Nat, refusals : Nat]
  PROVE  /\ b.pauses > 0 =>
              [b EXCEPT !.pauses = @ - 1]
                \in [pauses : Nat, crashes : Nat, refusals : Nat]
         /\ b.crashes > 0 =>
              [b EXCEPT !.crashes = @ - 1]
                \in [pauses : Nat, crashes : Nat, refusals : Nat]
         /\ b.refusals > 0 =>
              [b EXCEPT !.refusals = @ - 1]
                \in [pauses : Nat, crashes : Nat, refusals : Nat]
OBVIOUS

\* What the queue's two operations do to its type.
LEMMA QueueTypes ==
  ASSUME NEW q \in Seq(Tickers)
  PROVE  /\ q # <<>> => Head(q) \in Tickers /\ Tail(q) \in Seq(Tickers)
         /\ \A t \in Tickers : Append(q, t) \in Seq(Tickers)
OBVIOUS

LEMMA TypeNext == TypeOK /\ [Next]_vars => TypeOK'
<1> SUFFICES ASSUME TypeOK, [Next]_vars PROVE TypeOK'
  OBVIOUS
<1> USE ProcAssumption DEF TypeOK, Goto
<1>l. Label = {"off", "bye", "refresh", "pausechk", "lockchk", "guard", "build",
               "take", "check", "write", "rrefresh", "head", "drain", "mid",
               "exit", "pop", "claimed", "go", "odrun", "run"}
  BY DEF Label, Starting, SweepStart, RunnerStart, Holding, Committed, Running
<1>1. ASSUME NEW p \in Proc, Fire(p) PROVE TypeOK'
  BY <1>1, <1>l DEF Fire
<1>2. ASSUME DoPause PROVE TypeOK'
  BY <1>2, Spending DEF DoPause
<1>3. ASSUME NEW p \in Proc, DoResume(p) PROVE TypeOK'
  BY <1>3, <1>l DEF DoResume, Unpause
<1>4. ASSUME NEW p \in Proc, DetachedStart(p) PROVE TypeOK'
  BY <1>4, <1>l DEF DetachedStart, Unpause
<1>5. ASSUME DryRun PROVE TypeOK'
  BY <1>5 DEF DryRun
<1>6. ASSUME NEW p \in Proc, SweepStep(p) PROVE TypeOK'
  <2>1. CASE SweepRefresh(p)
    <3>1. budget' \in [pauses : Nat, crashes : Nat, refusals : Nat]
      BY <2>1, Spending DEF SweepRefresh
    <3>2. UNCHANGED <<queue, left, cur, child, callers, history, stopBy>>
      BY <2>1 DEF SweepRefresh
    <3>3. /\ pc' \in [Proc -> Label]
          /\ lock' \in Proc \cup {NoPid}
          /\ paused' \in BOOLEAN
          /\ progress' \in Name \cup {NoTicker}
      BY <2>1, <1>l DEF SweepRefresh
    <3> QED BY <3>1, <3>2, <3>3
  <2>2. CASE SweepPauseCheck(p) BY <2>2, <1>l DEF SweepPauseCheck
  <2>3. CASE SweepLockCheck(p) BY <2>3, <1>l DEF SweepLockCheck
  <2>4. CASE SweepGuard(p)
    <3>1. budget' \in [pauses : Nat, crashes : Nat, refusals : Nat]
      BY <2>4, Spending DEF SweepGuard
    <3>2. UNCHANGED <<queue, left, cur, child, callers, history, stopBy>>
      BY <2>4 DEF SweepGuard
    <3>3. /\ pc' \in [Proc -> Label]
          /\ lock' \in Proc \cup {NoPid}
          /\ paused' \in BOOLEAN
          /\ progress' \in Name \cup {NoTicker}
      BY <2>4, <1>l DEF SweepGuard
    <3> QED BY <3>1, <3>2, <3>3
  <2>5. CASE SweepBuild(p)
    <3>1. UNCHANGED <<lock, paused, queue, cur, child, callers, history, stopBy,
                      budget>>
      BY <2>5 DEF SweepBuild
    <3>2. PICK due \in SUBSET Book :
            \/ /\ pc' = [pc EXCEPT ![p] = "off"]
               /\ progress' = NoTicker /\ left' = left
            \/ /\ pc' = [pc EXCEPT ![p] = "take"]
               /\ progress' = progress /\ left' = [left EXCEPT ![p] = due]
      BY <2>5 DEF SweepBuild
    <3>3. /\ pc' \in [Proc -> Label]
          /\ progress' \in Name \cup {NoTicker}
          /\ left' \in [Proc -> SUBSET Book]
      BY <3>2, <1>l
    <3> QED BY <3>1, <3>3
  <2>6. CASE SweepTakeLock(p) BY <2>6, <1>l DEF SweepTakeLock
  <2>7. CASE SweepHead(p) BY <2>7, <1>l DEF SweepHead
  <2>8. CASE SweepMid(p)
    <3>1. CASE paused
      BY <2>8, <3>1, <1>l DEF SweepMid
    <3>2. CASE ~paused
      <4> PICK t \in left[p] :
            /\ pc' = [pc EXCEPT ![p] = "go"]
            /\ cur' = [cur EXCEPT ![p] = t]
            /\ left' = [left EXCEPT ![p] = @ \ {t}]
        BY <2>8, <3>2 DEF SweepMid
      <4>1. t \in Name
        BY DEF Name
      <4>2. left' \in [Proc -> SUBSET Book]
        OBVIOUS
      <4>3. cur' \in [Proc -> Name \cup {NoTicker}]
        BY <4>1
      <4> QED BY <2>8, <4>2, <4>3, <1>l DEF SweepMid
    <3> QED BY <3>1, <3>2
  <2>9. CASE SweepGo(p) BY <2>9, <1>l DEF SweepGo, StartChild
  <2>10. CASE SweepBye(p) BY <2>10, <1>l DEF SweepBye
  <2> QED BY <1>6, <2>1, <2>2, <2>3, <2>4, <2>5, <2>6, <2>7, <2>8, <2>9, <2>10
          DEF SweepStep
<1>7. ASSUME NEW p \in Proc, RunnerStep(p) PROVE TypeOK'
  <2>1. CASE RunnerCheck(p) BY <2>1, <1>l DEF RunnerCheck
  <2>2. CASE RunnerTakeLock(p) BY <2>2, <1>l DEF RunnerTakeLock
  <2>3. CASE RunnerRefresh(p)
    <3>1. budget' \in [pauses : Nat, crashes : Nat, refusals : Nat]
      BY <2>3, Spending DEF RunnerRefresh
    <3>2. UNCHANGED <<queue, left, cur, child, callers, history, stopBy>>
      BY <2>3 DEF RunnerRefresh
    <3>3. /\ pc' \in [Proc -> Label]
          /\ lock' \in Proc \cup {NoPid}
          /\ paused' \in BOOLEAN
          /\ progress' \in Name \cup {NoTicker}
      BY <2>3, <1>l DEF RunnerRefresh
    <3> QED BY <3>1, <3>2, <3>3
  <2> QED BY <1>7, <2>1, <2>2, <2>3 DEF RunnerStep
<1>8. ASSUME NEW p \in Proc, DrainStep(p) PROVE TypeOK'
  <2>1. CASE Drain(p) BY <2>1, <1>l DEF Drain
  <2>2. CASE TakeNext(p)
    <3>1. CASE queue = <<>>
      BY <2>2, <3>1, <1>l DEF TakeNext
    <3>2. CASE queue # <<>>
      <4>1. Head(queue) \in Tickers /\ Tail(queue) \in Seq(Tickers)
        BY <3>2, QueueTypes
      <4>2a. claimed' = [claimed EXCEPT ![Head(queue)] = @ + 1]
        BY <2>2, <3>2 DEF TakeNext
      <4>2. claimed' \in [Tickers -> Nat]
        BY SMTT(30), <4>1, <4>2a
      <4>3. cur' \in [Proc -> Name \cup {NoTicker}]
        BY <2>2, <3>2, <4>1 DEF TakeNext, Name
      <4>4. queue' \in Seq(Tickers) /\ pc' \in [Proc -> Label]
        BY <2>2, <3>2, <4>1, <1>l DEF TakeNext
      <4> QED BY <2>2, <4>2, <4>3, <4>4 DEF TakeNext
    <3> QED BY <3>1, <3>2
  <2>3. CASE StartOnDemand(p) BY <2>3, <1>l DEF StartOnDemand, StartChild
  <2>4. CASE ChildEnds(p) BY <2>4, <1>l DEF ChildEnds
  <2>5. CASE Exit(p) BY <2>5, <1>l DEF Exit
  <2> QED BY <1>8, <2>1, <2>2, <2>3, <2>4, <2>5 DEF DrainStep
<1>9. ASSUME NEW r \in Requesters, CallerStep(r) PROVE TypeOK'
  <2> USE DEF Look
  <2>1. CASE RequestSeesProgress(r) BY <2>1 DEF RequestSeesProgress
  <2>2. CASE RequestSeesPause(r) BY <2>2 DEF RequestSeesPause
  <2>3. CASE RequestSeesLock(r) BY <2>3 DEF RequestSeesLock
  <2>4. ASSUME NEW p \in Proc, RequestSpawns(r, p) PROVE TypeOK'
    BY <2>4, <1>l DEF RequestSpawns
  <2> QED BY <1>9, <2>1, <2>2, <2>3, <2>4 DEF CallerStep
<1>10. ASSUME NEW r \in Requesters, NEW t \in Tickers, Request(r, t)
       PROVE TypeOK'
  <2>1. CASE Queued(t)
    BY <1>10, <2>1 DEF Request
  <2>2. CASE ~Queued(t)
    <3>1. /\ queue' = Append(queue, t)
          /\ accepted' = [accepted EXCEPT ![t] = @ + 1]
          /\ rpc' = [rpc EXCEPT ![r] = "progress"]
      BY <1>10, <2>2 DEF Request
    <3>2. queue' \in Seq(Tickers)
      BY <3>1, QueueTypes
    <3>3. accepted' \in [Tickers -> Nat]
      BY <3>1
    <3> QED BY <1>10, <3>1, <3>2, <3>3 DEF Request
  <2> QED BY <2>1, <2>2
<1>11. ASSUME NEW p \in Proc, Crash(p) PROVE TypeOK'
  BY <1>11, <1>l, Spending DEF Crash
<1>12. ASSUME NEW p \in Proc, OrphanEnds(p) PROVE TypeOK'
  BY <1>12 DEF OrphanEnds
<1>13. ASSUME NEW r \in Requesters, RequesterCrash(r) PROVE TypeOK'
  BY <1>13, Spending DEF RequesterCrash
<1>14. CASE UNCHANGED vars
  BY <1>14 DEF vars
<1> QED
  BY <1>1, <1>2, <1>3, <1>4, <1>5, <1>6, <1>7, <1>8, <1>9, <1>10, <1>11, <1>12,
     <1>13, <1>14 DEF Next, Operator, ProcStep, DoStart

\* The state keeps its types; in particular a sweep only ever runs names of its
\* own book, never a requested name (build_queue, drain_ondemand).
THEOREM TypeCorrect == Spec => []TypeOK
BY TypeInit, TypeNext, PTL DEF Spec

-------------------------------------------------------------------------------
(* The on-demand queue: nothing lost, nothing twice.                       *)

QueueInv == NoDuplicateRequests /\ RequestsConserved

\* Popping a queue without duplicates removes exactly its head.
LEMMA PopFacts ==
  ASSUME NEW q \in Seq(Tickers), q # <<>>,
         \A i, j \in 1 .. Len(q) : q[i] = q[j] => i = j
  PROVE  /\ \A i, j \in 1 .. Len(Tail(q)) : Tail(q)[i] = Tail(q)[j] => i = j
         /\ \A t : (\E i \in 1 .. Len(Tail(q)) : Tail(q)[i] = t)
                   <=> t # Head(q) /\ \E i \in 1 .. Len(q) : q[i] = t
<1>1. /\ Len(q) \in Nat /\ Len(q) > 0 /\ Len(Tail(q)) = Len(q) - 1
      /\ Head(q) = q[1]
      /\ \A i \in 1 .. Len(q) - 1 : Tail(q)[i] = q[i + 1]
  OBVIOUS
<1>2. \A i, j \in 1 .. Len(Tail(q)) : Tail(q)[i] = Tail(q)[j] => i = j
  BY <1>1
<1>3. ASSUME NEW t, NEW i \in 1 .. Len(Tail(q)), Tail(q)[i] = t
      PROVE  t # Head(q) /\ \E k \in 1 .. Len(q) : q[k] = t
  <2>1. i + 1 \in 1 .. Len(q) /\ q[i + 1] = t /\ i + 1 # 1
    BY <1>1, <1>3
  <2> QED BY <1>1, <2>1
<1>4. ASSUME NEW t, t # Head(q), NEW i \in 1 .. Len(q), q[i] = t
      PROVE  \E k \in 1 .. Len(Tail(q)) : Tail(q)[k] = t
  <2>1. i - 1 \in 1 .. Len(q) - 1 /\ Tail(q)[i - 1] = q[i]
    BY <1>1, <1>4
  <2> QED BY <1>1, <1>4, <2>1
<1> QED BY <1>2, <1>3, <1>4

\* Appending a name that is not queued keeps the queue free of duplicates.
LEMMA PushFacts ==
  ASSUME NEW q \in Seq(Tickers), NEW n \in Tickers,
         \A i, j \in 1 .. Len(q) : q[i] = q[j] => i = j,
         ~ \E i \in 1 .. Len(q) : q[i] = n
  PROVE  /\ \A i, j \in 1 .. Len(Append(q, n)) :
              Append(q, n)[i] = Append(q, n)[j] => i = j
         /\ \A t : (\E i \in 1 .. Len(Append(q, n)) : Append(q, n)[i] = t)
                   <=> t = n \/ \E i \in 1 .. Len(q) : q[i] = t
<1>1. /\ Len(q) \in Nat /\ Len(Append(q, n)) = Len(q) + 1
      /\ Append(q, n)[Len(q) + 1] = n
      /\ \A i \in 1 .. Len(q) : Append(q, n)[i] = q[i]
  OBVIOUS
<1>2. 1 .. Len(Append(q, n)) = (1 .. Len(q)) \cup {Len(q) + 1}
  BY <1>1
<1> QED BY <1>1, <1>2

\* request and take_next are the only steps that touch the queue.
LEMMA QueueSteps ==
  ASSUME [Next]_vars,
         \A r \in Requesters, t \in Tickers : ~Request(r, t),
         \A p \in Proc : ~TakeNext(p)
  PROVE  UNCHANGED <<queue, accepted, claimed>>
<1> USE DEF Goto, Look, StartChild, Unpause
<1>1. ASSUME Operator PROVE UNCHANGED <<queue, accepted, claimed>>
  BY <1>1 DEF Operator, DoPause, DryRun, Fire, DoStart, DoResume, DetachedStart
<1>2. ASSUME NEW p \in Proc, SweepStep(p)
      PROVE  UNCHANGED <<queue, accepted, claimed>>
  BY <1>2 DEF SweepStep, SweepRefresh, SweepPauseCheck, SweepLockCheck,
     SweepGuard, SweepBuild, SweepTakeLock, SweepHead, SweepMid, SweepGo,
     SweepBye
<1>3. ASSUME NEW p \in Proc, RunnerStep(p)
      PROVE  UNCHANGED <<queue, accepted, claimed>>
  BY <1>3 DEF RunnerStep, RunnerCheck, RunnerTakeLock, RunnerRefresh
<1>4. ASSUME NEW p \in Proc, DrainStep(p)
      PROVE  UNCHANGED <<queue, accepted, claimed>>
  BY <1>4 DEF DrainStep, Drain, StartOnDemand, ChildEnds, Exit
<1>5. ASSUME NEW r \in Requesters, CallerStep(r) \/ RequesterCrash(r)
      PROVE  UNCHANGED <<queue, accepted, claimed>>
  BY <1>5 DEF CallerStep, RequestSeesProgress, RequestSeesPause,
     RequestSeesLock, RequestSpawns, RequesterCrash
<1>6. ASSUME NEW p \in Proc, Crash(p) \/ OrphanEnds(p)
      PROVE  UNCHANGED <<queue, accepted, claimed>>
  BY <1>6 DEF Crash, OrphanEnds
<1>7. CASE UNCHANGED vars
  BY <1>7 DEF vars
<1> QED BY <1>1, <1>2, <1>3, <1>4, <1>5, <1>6, <1>7 DEF Next, ProcStep

LEMMA QueueNext == TypeOK /\ QueueInv /\ [Next]_vars => QueueInv'
<1> SUFFICES ASSUME TypeOK, QueueInv, [Next]_vars PROVE QueueInv'
  OBVIOUS
<1> USE DEF QueueInv, NoDuplicateRequests
<1>0. /\ queue \in Seq(Tickers)
      /\ accepted \in [Tickers -> Nat]
      /\ claimed \in [Tickers -> Nat]
  BY DEF TypeOK
<1>1. ASSUME NEW r \in Requesters, NEW n \in Tickers, Request(r, n)
      PROVE  QueueInv'
  <2>1. CASE Queued(n)
    BY <1>1, <2>1 DEF Request, RequestsConserved, Queued
  <2>2. CASE ~Queued(n)
    <3>1. /\ queue' = Append(queue, n)
          /\ accepted' = [accepted EXCEPT ![n] = @ + 1]
          /\ claimed' = claimed
      BY <1>1, <2>2 DEF Request
    <3>2. /\ NoDuplicateRequests'
          /\ \A t : Queued(t)' <=> t = n \/ Queued(t)
      BY SMTT(30), <1>0, <2>2, <3>1, PushFacts DEF Queued
    <3>3. RequestsConserved'
      BY <1>0, <2>2, <3>1, <3>2 DEF RequestsConserved
    <3> QED BY <3>2, <3>3
  <2> QED BY <2>1, <2>2
<1>2. ASSUME NEW p \in Proc, TakeNext(p) PROVE QueueInv'
  <2>1. CASE queue = <<>>
    BY <1>2, <2>1 DEF TakeNext, RequestsConserved, Queued
  <2>2. CASE queue # <<>>
    <3>1. /\ queue' = Tail(queue)
          /\ claimed' = [claimed EXCEPT ![Head(queue)] = @ + 1]
          /\ accepted' = accepted
      BY <1>2, <2>2 DEF TakeNext
    <3>2. Head(queue) \in Tickers /\ Queued(Head(queue))
      BY <1>0, <2>2 DEF Queued
    <3>3. /\ NoDuplicateRequests'
          /\ \A t : Queued(t)' <=> t # Head(queue) /\ Queued(t)
      <4>1. /\ \A i, j \in 1 .. Len(Tail(queue)) :
                  Tail(queue)[i] = Tail(queue)[j] => i = j
            /\ \A t : (\E i \in 1 .. Len(Tail(queue)) : Tail(queue)[i] = t)
                      <=> t # Head(queue) /\ \E i \in 1 .. Len(queue) : queue[i] = t
        BY <1>0, <2>2, PopFacts
      <4> QED BY <3>1, <4>1 DEF Queued, NoDuplicateRequests
    <3>4. RequestsConserved'
      BY <1>0, <3>1, <3>2, <3>3 DEF RequestsConserved
    <3> QED BY <3>3, <3>4
  <2> QED BY <2>1, <2>2
<1>3. CASE /\ \A r \in Requesters, t \in Tickers : ~Request(r, t)
           /\ \A p \in Proc : ~TakeNext(p)
  BY <1>3, QueueSteps DEF RequestsConserved, Queued
<1> QED BY <1>1, <1>2, <1>3

\* Every accepted request is queued or was claimed exactly once, and no name is
\* queued twice, whatever the processes, requesters and crashes do.
THEOREM QueueCorrect == Spec => [](NoDuplicateRequests /\ RequestsConserved)
<1>1. Init => QueueInv
  BY DEF Init, QueueInv, NoDuplicateRequests, RequestsConserved, Queued
<1>2. QueueInv => NoDuplicateRequests /\ RequestsConserved
  BY DEF QueueInv
<1> QED BY <1>1, <1>2, TypeCorrect, QueueNext, PTL DEF Spec

-------------------------------------------------------------------------------
(* The red button.                                                         *)

\* A process that owes a stop sees the flag down and is not past its last look.
PauseInv ==
  \A p \in Proc : stopBy[p] => paused /\ pc[p] \notin Committed

LEMMA PauseNext == TypeOK /\ PauseInv /\ [Next]_vars => PauseInv'
<1> SUFFICES ASSUME TypeOK, PauseInv, [Next]_vars,
                    NEW p \in Proc, stopBy'[p]
             PROVE  paused' /\ pc'[p] \notin Committed
  BY DEF PauseInv
<1> USE DEF Goto, Committed
<1>0. /\ pc \in [Proc -> Label] /\ stopBy \in [Proc -> BOOLEAN]
      /\ stopBy[p] => paused /\ pc[p] \notin Committed
  BY DEF TypeOK, PauseInv
<1>1. CASE Operator
  BY <1>0, <1>1 DEF Operator, DoPause, DryRun, Fire, DoStart, DoResume,
     DetachedStart, Unpause
<1>2. ASSUME NEW q \in Proc, SweepStep(q)
      PROVE  paused' /\ pc'[p] \notin Committed
  <2>1. CASE SweepGo(q)
    BY <1>0, <2>1 DEF SweepGo, StartChild
  <2>2. CASE SweepMid(q)
    BY <1>0, <2>2 DEF SweepMid
  <2> QED
    BY <1>0, <1>2, <2>1, <2>2 DEF SweepStep, SweepRefresh, SweepPauseCheck,
       SweepLockCheck, SweepGuard, SweepBuild, SweepTakeLock, SweepHead, SweepBye
<1>3. ASSUME NEW q \in Proc, RunnerStep(q)
      PROVE  paused' /\ pc'[p] \notin Committed
  BY <1>0, <1>3 DEF RunnerStep, RunnerCheck, RunnerTakeLock, RunnerRefresh
<1>4. ASSUME NEW q \in Proc, DrainStep(q)
      PROVE  paused' /\ pc'[p] \notin Committed
  <2>1. CASE Drain(q)
    BY <1>0, <2>1 DEF Drain
  <2>2. CASE TakeNext(q)
    BY <1>0, <2>2 DEF TakeNext
  <2>3. CASE StartOnDemand(q)
    BY <1>0, <2>3 DEF StartOnDemand, StartChild
  <2> QED BY <1>0, <1>4, <2>1, <2>2, <2>3 DEF DrainStep, ChildEnds, Exit
<1>5. ASSUME NEW r \in Requesters,
             CallerStep(r) \/ RequesterCrash(r) \/ \E t \in Tickers : Request(r, t)
      PROVE  paused' /\ pc'[p] \notin Committed
  BY <1>0, <1>5 DEF CallerStep, RequestSeesProgress, RequestSeesPause,
     RequestSeesLock, RequestSpawns, RequesterCrash, Request, Look
<1>6. ASSUME NEW q \in Proc, Crash(q) \/ OrphanEnds(q)
      PROVE  paused' /\ pc'[p] \notin Committed
  BY <1>0, <1>6 DEF Crash, OrphanEnds
<1>7. CASE UNCHANGED vars
  BY <1>0, <1>7 DEF vars
<1> QED BY <1>1, <1>2, <1>3, <1>4, <1>5, <1>6, <1>7 DEF Next, ProcStep

\* Only a committed process claims a request or starts a child.
LEMMA CommittedSteps ==
  ASSUME TypeOK, [Next]_vars, NEW p \in Proc, Starts(p) \/ Claims(p)
  PROVE  pc[p] \in Committed
<1> USE DEF Goto, Committed, Starts, Claims
<1>0. /\ pc \in [Proc -> Label]
      /\ child \in [Proc -> Name \cup {NoTicker}]
      /\ cur \in [Proc -> Name \cup {NoTicker}]
  BY DEF TypeOK
<1>1. CASE Claims(p)
  BY <1>1
<1>2. CASE Starts(p)
  <2>1. CASE Operator
    BY <1>2, <2>1 DEF Operator, DoPause, DryRun, Fire, DoStart, DoResume,
       DetachedStart
  <2>2. ASSUME NEW q \in Proc, SweepStep(q) PROVE pc[p] \in Committed
    BY <1>0, <1>2, <2>2 DEF SweepStep, SweepRefresh, SweepPauseCheck,
       SweepLockCheck, SweepGuard, SweepBuild, SweepTakeLock, SweepHead,
       SweepMid, SweepGo, SweepBye, StartChild
  <2>3. ASSUME NEW q \in Proc, RunnerStep(q) PROVE pc[p] \in Committed
    BY <1>2, <2>3 DEF RunnerStep, RunnerCheck, RunnerTakeLock, RunnerRefresh
  <2>4. ASSUME NEW q \in Proc, DrainStep(q) PROVE pc[p] \in Committed
    BY <1>0, <1>2, <2>4 DEF DrainStep, Drain, TakeNext, StartOnDemand,
       ChildEnds, Exit, StartChild
  <2>5. ASSUME NEW r \in Requesters,
               CallerStep(r) \/ RequesterCrash(r)
                 \/ \E t \in Tickers : Request(r, t)
        PROVE  pc[p] \in Committed
    BY <1>2, <2>5 DEF CallerStep, RequestSeesProgress, RequestSeesPause,
       RequestSeesLock, RequestSpawns, RequesterCrash, Request, Look
  <2>6. ASSUME NEW q \in Proc, Crash(q) \/ OrphanEnds(q)
        PROVE  pc[p] \in Committed
    BY <1>0, <1>2, <2>6 DEF Crash, OrphanEnds
  <2>7. CASE UNCHANGED vars
    BY <1>2, <2>7 DEF vars
  <2> QED BY <2>1, <2>2, <2>3, <2>4, <2>5, <2>6, <2>7 DEF Next, ProcStep
<1> QED BY <1>1, <1>2

\* The red button stops every process at its next boundary: until the flag is
\* cleared it claims no further request and starts no further child.
THEOREM PauseCorrect == Spec => PauseStopsAtBoundary
<1>1. Init => PauseInv
  BY DEF Init, PauseInv
<1>2. TypeOK /\ PauseInv /\ [Next]_vars
        => [\A p \in Proc : Starts(p) \/ Claims(p) => ~stopBy[p]]_vars
  BY CommittedSteps DEF PauseInv
<1> QED
  BY <1>1, <1>2, TypeCorrect, PauseNext, PTL DEF Spec, PauseStopsAtBoundary

-------------------------------------------------------------------------------
(* One child at a time, where launches do not overlap and a crash takes the *)
(* child along: the two assumptions the lock file alone needs.             *)

Cleared == {"guard", "build", "take", "write"}    \* past the lock check

LockInv ==
  /\ \A p, q \in Proc : pc[p] \in Starting /\ pc[q] \in Starting => p = q
  /\ \A p \in Proc : pc[p] \in Holding => lock = p
  /\ \A p, q \in Proc : pc[p] \in Cleared => pc[q] \notin Holding
  /\ \A p \in Proc : child[p] # NoTicker => pc[p] \in Running

\* A launch keeps the invariant: nobody else is starting.
LEMMA LaunchKeepsLock ==
  ASSUME TypeOK, LockInv, ~LaunchesOverlap, NEW p \in Proc, FreshPid(p),
         NEW l \in {"refresh", "check"}, Goto(p, l), UNCHANGED <<lock, child>>
  PROVE  LockInv'
BY DEF TypeOK, LockInv, FreshPid, Goto, Alive, Starting, SweepStart, RunnerStart,
   Holding, Committed, Running, Cleared

LEMMA LockNext ==
  ASSUME ~LaunchesOverlap, ~ChildOutlivesCrash, TypeOK, LockInv, [Next]_vars
  PROVE  LockInv'
<1> USE DEF Starting, SweepStart, RunnerStart, Holding, Committed, Running,
            Cleared
<1>0. /\ pc \in [Proc -> Label] /\ lock \in Proc \cup {NoPid}
      /\ child \in [Proc -> Name \cup {NoTicker}]
      /\ cur \in [Proc -> Name \cup {NoTicker}]
  BY DEF TypeOK
<1>1. CASE Operator
  <2>1. CASE DoPause \/ DryRun
    BY <2>1 DEF LockInv, DoPause, DryRun
  <2>2. ASSUME NEW p \in Proc,
               Fire(p) \/ DoStart(p) \/ DoResume(p) \/ DetachedStart(p)
        PROVE  LockInv'
    <3>1. \/ FreshPid(p) /\ Goto(p, "refresh") /\ UNCHANGED <<lock, child>>
          \/ UNCHANGED <<pc, lock, child>>
      BY <2>2 DEF Fire, DoStart, DoResume, DetachedStart, Unpause
    <3> QED BY <3>1, LaunchKeepsLock DEF LockInv
  <2> QED BY <1>1, <2>1, <2>2 DEF Operator
<1>2. ASSUME NEW p \in Proc, SweepStep(p) PROVE LockInv'
  <2> USE <1>0 DEF LockInv, Goto
  <2>1. CASE SweepRefresh(p) BY <2>1 DEF SweepRefresh
  <2>2. CASE SweepPauseCheck(p) BY <2>2 DEF SweepPauseCheck
  <2>3. CASE SweepLockCheck(p) BY <2>3 DEF SweepLockCheck, LockAlive, Alive
  <2>4. CASE SweepGuard(p) BY <2>4 DEF SweepGuard
  <2>5. CASE SweepBuild(p) BY <2>5 DEF SweepBuild
  <2>6. CASE SweepTakeLock(p) BY <2>6 DEF SweepTakeLock
  <2>7. CASE SweepHead(p) BY <2>7 DEF SweepHead
  <2>8. CASE SweepMid(p) BY <2>8 DEF SweepMid
  <2>9. CASE SweepGo(p) BY <2>9 DEF SweepGo, StartChild
  <2>10. CASE SweepBye(p) BY <2>10 DEF SweepBye
  <2> QED BY <1>2, <2>1, <2>2, <2>3, <2>4, <2>5, <2>6, <2>7, <2>8, <2>9, <2>10
          DEF SweepStep
<1>3. ASSUME NEW p \in Proc, RunnerStep(p) PROVE LockInv'
  <2> USE <1>0 DEF LockInv, Goto
  <2>1. CASE RunnerCheck(p) BY <2>1 DEF RunnerCheck, LockAlive, Alive
  <2>2. CASE RunnerTakeLock(p) BY <2>2 DEF RunnerTakeLock
  <2>3. CASE RunnerRefresh(p) BY <2>3 DEF RunnerRefresh
  <2> QED BY <1>3, <2>1, <2>2, <2>3 DEF RunnerStep
<1>4. ASSUME NEW p \in Proc, DrainStep(p) PROVE LockInv'
  <2> USE <1>0 DEF LockInv, Goto
  <2>1. CASE Drain(p) BY <2>1 DEF Drain
  <2>2. CASE TakeNext(p) BY <2>2 DEF TakeNext
  <2>3. CASE StartOnDemand(p) BY <2>3 DEF StartOnDemand, StartChild
  <2>4. CASE ChildEnds(p) BY <2>4 DEF ChildEnds
  <2>5. CASE Exit(p) BY <2>5 DEF Exit
  <2> QED BY <1>4, <2>1, <2>2, <2>3, <2>4, <2>5 DEF DrainStep
<1>5. ASSUME NEW r \in Requesters,
             CallerStep(r) \/ RequesterCrash(r) \/ \E t \in Tickers : Request(r, t)
      PROVE  LockInv'
  <2>1. \/ UNCHANGED <<pc, lock, child>>
        \/ \E p \in Proc : FreshPid(p) /\ Goto(p, "check")
                            /\ UNCHANGED <<lock, child>>
    BY <1>5 DEF CallerStep, RequestSeesProgress, RequestSeesPause,
       RequestSeesLock, RequestSpawns, RequesterCrash, Request, Look
  <2> QED BY <2>1, LaunchKeepsLock DEF LockInv
<1>6. ASSUME NEW p \in Proc, Crash(p) PROVE LockInv'
  BY <1>0, <1>6 DEF Crash, Goto, LockInv
<1>7. ASSUME NEW p \in Proc, OrphanEnds(p) PROVE LockInv'
  BY <1>0, <1>7 DEF OrphanEnds, LockInv
<1>8. CASE UNCHANGED vars
  BY <1>8 DEF vars, LockInv
<1> QED BY <1>1, <1>2, <1>3, <1>4, <1>5, <1>6, <1>7, <1>8 DEF Next, ProcStep

\* The pid lock admits one depth_pipeline child at a time when launches do not
\* overlap and a crash takes the child along.
THEOREM ExclusionCorrect ==
  ASSUME ~LaunchesOverlap, ~ChildOutlivesCrash
  PROVE  Spec => []OneChildAtATime
<1>1. Init => LockInv
  BY DEF Init, LockInv, Starting, SweepStart, RunnerStart, Holding, Committed,
     Running, Cleared
<1>2. TypeOK /\ LockInv /\ [Next]_vars => LockInv'
  BY LockNext
<1>3. TypeOK /\ LockInv => OneChildAtATime
  BY DEF LockInv, OneChildAtATime, Holding
<1> QED BY <1>1, <1>2, <1>3, TypeCorrect, PTL DEF Spec

-------------------------------------------------------------------------------
(* The queue file's lock.  DepthControl takes the read-modify-write of the *)
(* queue for one step; OnDemandMutex opens it up, and what is proved here  *)
(* of it, for every set of clients and names and every timeout, is what    *)
(* that one step rests on.                                                 *)
(*                                                                         *)
(* Type correctness.  A client that is about to rewrite the file has       *)
(* something to do.                                                        *)
Rewriting == {"truncate", "write"}

HasWork(c) ==
  /\ at[c] \notin {"idle", "dead"} /\ op[c] = "add" => arg[c] \in Stocks
  /\ at[c] \in Rewriting => op[c] \in {"add", "take"}
  /\ at[c] \in Rewriting /\ op[c] = "take" => buf[c] # <<>>

MutexTyped ==
  /\ MutexTypeOK
  /\ buf \in [Clients -> Seq(Stocks)]
  /\ \A c \in Clients : HasWork(c)

LEMMA MutexTypedInit == MutexInit => MutexTyped
BY MutexAssumption
   DEF MutexInit, MutexTyped, MutexTypeOK, HasWork, Rewriting, Inside

LEMMA MutexTypedNext ==
  MutexTyped /\ [MutexNext]_mutexVars => MutexTyped'
<1> SUFFICES ASSUME MutexTyped, [MutexNext]_mutexVars PROVE MutexTyped'
  OBVIOUS
<1> USE MutexAssumption
       DEF MutexTyped, MutexTypeOK, HasWork, Rewriting, Inside, Move
<1>1. ASSUME NEW c \in Clients, NEW o \in {"add", "take", "peek"},
             NEW t \in Stocks \cup {NoStock}, Begin(c, o, t)
      PROVE  MutexTyped'
  BY <1>1 DEF Begin
<1>2. ASSUME NEW c \in Clients, Enter(c) PROVE MutexTyped'
  <2>1. CASE Acquire(c) BY <2>1 DEF Acquire
  <2>2. CASE FindStale(c) BY <2>2 DEF FindStale
  <2>3. CASE RemoveStale(c) BY <2>3 DEF RemoveStale
  <2> QED BY <1>2, <2>1, <2>2, <2>3 DEF Enter
<1>3. ASSUME NEW c \in Clients, Section(c) PROVE MutexTyped'
  <2>1. CASE Read(c) BY <2>1 DEF Read, NothingToDo
  <2>2. CASE Truncate(c) BY <2>2 DEF Truncate
  <2>3. CASE Write(c)
    <3>1. CASE op[c] = "add"
      <4>1. arg[c] \in Stocks
        BY <2>3, <3>1 DEF Write
      <4>2. /\ file' = Append(buf[c], arg[c])
            /\ added' = Append(added, arg[c])
            /\ given' = given
        BY <2>3, <3>1 DEF Write
      <4> QED BY SMTT(30), <2>3, <4>1, <4>2 DEF Write
    <3>2. CASE op[c] = "take"
      <4>1. buf[c] # <<>> /\ buf[c] \in Seq(Stocks)
        BY <2>3, <3>2 DEF Write
      <4>2. Head(buf[c]) \in Stocks /\ Tail(buf[c]) \in Seq(Stocks)
        BY <4>1
      <4>3. /\ file' = Tail(buf[c])
            /\ given' = Append(given, Head(buf[c]))
            /\ added' = added
        BY <2>3, <3>2 DEF Write
      <4> QED BY SMTT(30), <2>3, <4>2, <4>3 DEF Write
    <3> QED BY <2>3, <3>1, <3>2 DEF Write
  <2>4. CASE Release(c) BY <2>4 DEF Release
  <2> QED BY <1>3, <2>1, <2>2, <2>3, <2>4 DEF Section
<1>4. ASSUME NEW c \in Clients, Die(c) PROVE MutexTyped'
  BY <1>4 DEF Die
<1>5. CASE Tick
  BY <1>5 DEF Tick, Older
<1>6. CASE UNCHANGED mutexVars
  BY <1>6 DEF mutexVars, clients
<1> HIDE DEF MutexTyped
<1> QED BY <1>1, <1>2, <1>3, <1>4, <1>5, <1>6 DEF MutexNext

LEMMA MutexTypedAlways == MutexSpec => []MutexTyped
<1>1. MutexInit => MutexTyped
  BY MutexTypedInit
<1>2. MutexTyped /\ [MutexNext]_mutexVars => MutexTyped'
  BY MutexTypedNext
<1> QED BY <1>1, <1>2, PTL DEF MutexSpec

\* Every reachable state is well typed, whatever the environment does: nobody
\* pops an empty queue or appends a name that was refused.
THEOREM MutexTypeCorrect == MutexSpec => []MutexTypeOK
<1>1. MutexTyped => MutexTypeOK
  BY DEF MutexTyped
<1>2. MutexSpec => []MutexTyped
  BY MutexTypedAlways
<1> QED BY <1>1, <1>2, PTL

-------------------------------------------------------------------------------
(* Mutual exclusion in a prompt environment: no holder keeps the lock and  *)
(* no waiter waits for live holders longer than the timeout, and either    *)
(* nobody crashes or there are two clients at most.  (A third could remove *)
(* the lock of the one that removed the dead one's.)  While nobody is      *)
(* dead, the lock file exists exactly while its maker is inside, and       *)
(* neither it nor any waiter gets old.                                     *)
Pair == \A c, d, e \in Clients : c = d \/ d = e \/ c = e

Prompt ==
  /\ ~SlowHolders
  /\ ~Starvation
  /\ MaxDeaths = 0 \/ Pair

NoneDead == \A c \in Clients : at[c] # "dead"

MutexInv ==
  /\ MaxDeaths = 0 => NoneDead
  /\ NoneDead =>
       /\ \A c \in Clients : at[c] # "break"
       /\ \A c \in Clients : at[c] \in Inside => qlock = c
       /\ qlock \in Clients => at[qlock] \in Inside
       /\ age <= Timeout
       /\ \A c \in Clients : at[c] = "try" => waited[c] <= Timeout

LEMMA MutexInvInit == MutexInit => MutexInv
BY MutexAssumption
   DEF MutexInit, MutexInv, NoneDead, Inside

LEMMA MutexInvNext ==
  ASSUME Prompt
  PROVE  MutexTyped /\ MutexInv /\ [MutexNext]_mutexVars => MutexInv'
<1> SUFFICES ASSUME MutexTyped, MutexInv, [MutexNext]_mutexVars PROVE MutexInv'
  OBVIOUS
<1> USE MutexAssumption
       DEF Prompt, MutexTyped, MutexTypeOK, MutexInv, NoneDead, Inside, Move
<1>1. ASSUME NEW c \in Clients, NEW o \in {"add", "take", "peek"},
             NEW t \in Stocks \cup {NoStock}, Begin(c, o, t)
      PROVE  MutexInv'
  BY <1>1 DEF Begin
<1>2. ASSUME NEW c \in Clients, Enter(c) PROVE MutexInv'
  <2>1. CASE Acquire(c) BY <2>1 DEF Acquire
  <2>2. CASE FindStale(c) BY <2>2 DEF FindStale
  <2>3. CASE RemoveStale(c) BY <2>3 DEF RemoveStale
  <2> QED BY <1>2, <2>1, <2>2, <2>3 DEF Enter
<1>3. ASSUME NEW c \in Clients, Section(c) PROVE MutexInv'
  <2>1. CASE Read(c) BY <2>1 DEF Read
  <2>2. CASE Truncate(c) BY <2>2 DEF Truncate
  <2>3. CASE Write(c) BY <2>3 DEF Write
  <2>4. CASE Release(c) BY <2>4 DEF Release
  <2> QED BY <1>3, <2>1, <2>2, <2>3, <2>4 DEF Section
<1>4. ASSUME NEW c \in Clients, Die(c) PROVE MutexInv'
  BY <1>4 DEF Die
<1>5. CASE Tick
  BY <1>5 DEF Tick, Older, OwnerLives
<1>6. CASE UNCHANGED mutexVars
  BY <1>6 DEF mutexVars, clients
<1> QED BY <1>1, <1>2, <1>3, <1>4, <1>5, <1>6 DEF MutexNext

LEMMA MutexExcludes ==
  ASSUME Prompt
  PROVE  MutexInv => MutualExclusion
<1> SUFFICES ASSUME MutexInv, NEW c \in Clients, NEW d \in Clients,
                    at[c] \in Inside, at[d] \in Inside
             PROVE  c = d
  BY DEF MutualExclusion
<1>1. CASE NoneDead
  BY <1>1 DEF MutexInv
<1>2. CASE ~NoneDead
  <2>1. PICK e \in Clients : at[e] = "dead"
    BY <1>2 DEF NoneDead
  <2>2. c # e /\ d # e
    BY <2>1 DEF Inside
  <2> QED BY <1>2, <2>2 DEF MutexInv, Prompt, Pair
<1> QED BY <1>1, <1>2

\* In a prompt environment one client at a time reads and rewrites the queue
\* file: any number of clients that do not crash, or two that may.
THEOREM MutexExclusionCorrect ==
  ASSUME Prompt
  PROVE  MutexSpec => []MutualExclusion
<1>1. MutexTyped /\ MutexInv /\ [MutexNext]_mutexVars => MutexInv'
  BY MutexInvNext
<1>2. MutexInv => MutualExclusion
  BY MutexExcludes
<1>3. MutexInit => MutexInv
  BY MutexInvInit
<1>4. MutexSpec => []MutexTyped
  BY MutexTypedAlways
<1> QED BY <1>1, <1>2, <1>3, <1>4, PTL DEF MutexSpec

-------------------------------------------------------------------------------
(* The refinement.  Until a client rewrites the file, what it read is what *)
(* the file holds, and a name it is to add is not in it.                   *)
BufInv ==
  \A c \in Clients :
    /\ at[c] = "truncate" => buf[c] = file
    /\ at[c] \in Rewriting /\ op[c] = "add" => ~In(arg[c], buf[c])

LEMMA BufNext ==
  MutexTyped /\ MutualExclusion /\ BufInv /\ [MutexNext]_mutexVars => BufInv'
<1> SUFFICES ASSUME MutexTyped, MutualExclusion, BufInv, [MutexNext]_mutexVars
             PROVE  BufInv'
  OBVIOUS
<1> USE DEF MutexTyped, MutexTypeOK, MutualExclusion, BufInv, Inside, Rewriting,
           Move
<1>1. ASSUME NEW c \in Clients, NEW o \in {"add", "take", "peek"},
             NEW t \in Stocks \cup {NoStock}, Begin(c, o, t)
      PROVE  BufInv'
  BY <1>1 DEF Begin
<1>2. ASSUME NEW c \in Clients, Enter(c) PROVE BufInv'
  BY <1>2 DEF Enter, Acquire, FindStale, RemoveStale
<1>3. ASSUME NEW c \in Clients, Section(c) PROVE BufInv'
  <2>1. CASE Read(c)
    BY <2>1 DEF Read, NothingToDo
  <2>2. CASE Truncate(c) BY <2>2 DEF Truncate
  <2>3. CASE Write(c) BY <2>3 DEF Write
  <2>4. CASE Release(c) BY <2>4 DEF Release
  <2> QED BY <1>3, <2>1, <2>2, <2>3, <2>4 DEF Section
<1>4. ASSUME NEW c \in Clients, Die(c) PROVE BufInv'
  BY <1>4 DEF Die
<1>5. CASE Tick
  BY <1>5 DEF Tick
<1>6. CASE UNCHANGED mutexVars
  BY <1>6 DEF mutexVars, clients
<1> QED BY <1>1, <1>2, <1>3, <1>4, <1>5, <1>6 DEF MutexNext

\* What the queue holds, when nobody writes and when one client does.
LEMMA ContentsOf ==
  /\ Writer = {} => Contents = file
  /\ \A c : Writer = {c} => Contents = buf[c]
BY DEF Contents

LEMMA ContentsOfNext ==
  /\ Writer' = {} => Contents' = file'
  /\ \A c : Writer' = {c} => Contents' = buf'[c]
BY DEF Contents

\* Inside its section a client meets no writer but itself.
LEMMA WriterAlone ==
  ASSUME MutualExclusion, NEW c \in Clients, at[c] \in Inside
  PROVE  Writer = IF at[c] = "write" THEN {c} ELSE {}
BY DEF MutualExclusion, Inside, Writer

LEMMA StepPromised ==
  ASSUME ~TornWrites, MutexTyped, MutualExclusion, BufInv, [MutexNext]_mutexVars
  PROVE  [Promise!Next]_<<Contents, given>>
<1> USE DEF MutexTyped, MutexTypeOK, Move
<1>0. ASSUME Writer' = Writer, file' = file, given' = given,
             \A c \in Writer : buf'[c] = buf[c]
      PROVE  UNCHANGED <<Contents, given>>
  <2>1. CASE Writer = {}
    BY <1>0, <2>1 DEF Contents
  <2>2. CASE Writer # {}
    <3>1. (CHOOSE c \in Writer : TRUE) \in Writer
      BY <2>2
    <3> QED BY <1>0, <2>2, <3>1 DEF Contents
  <2> QED BY <2>1, <2>2
<1>1. ASSUME NEW c \in Clients, NEW o \in {"add", "take", "peek"},
             NEW t \in Stocks \cup {NoStock}, Begin(c, o, t)
      PROVE  UNCHANGED <<Contents, given>>
  BY <1>0, <1>1 DEF Begin, Writer
<1>2. ASSUME NEW c \in Clients, Enter(c)
      PROVE  UNCHANGED <<Contents, given>>
  BY <1>0, <1>2 DEF Enter, Acquire, FindStale, RemoveStale, Writer
<1>3. ASSUME NEW c \in Clients, Read(c)
      PROVE  UNCHANGED <<Contents, given>>
  BY <1>0, <1>3 DEF Read, Writer
<1>4. ASSUME NEW c \in Clients, Truncate(c)
      PROVE  UNCHANGED <<Contents, given>>
  <2>1. Writer = {} /\ buf[c] = file
    BY <1>4, WriterAlone DEF Truncate, Inside, BufInv
  <2>2. Writer' = {c}
    BY <1>4, <2>1 DEF Truncate, Writer
  <2> QED BY <1>4, <2>1, <2>2, ContentsOf, ContentsOfNext DEF Truncate
<1>5. ASSUME NEW c \in Clients, Write(c)
      PROVE  Promise!Next
  <2>1. Writer = {c} /\ Contents = buf[c]
    BY <1>5, WriterAlone, ContentsOf DEF Write, Inside
  <2>2. Writer' = {} /\ Contents' = file'
    BY <1>5, <2>1, ContentsOfNext DEF Write, Writer
  <2>3. CASE op[c] = "add"
    <3>1. arg[c] \in Stocks /\ ~In(arg[c], buf[c])
      BY <1>5, <2>3 DEF Write, HasWork, BufInv, Rewriting
    <3>2. file' = Append(buf[c], arg[c]) /\ given' = given
      BY <1>5, <2>3 DEF Write
    <3>3. Promise!Add(arg[c])
      BY <2>1, <2>2, <3>1, <3>2 DEF Promise!Add, Promise!Waits, In
    <3> QED BY <3>1, <3>3 DEF Promise!Next
  <2>4. CASE op[c] = "take"
    <3>1. buf[c] # <<>>
      BY <1>5, <2>4 DEF Write, HasWork, Rewriting
    <3>2. file' = Tail(buf[c]) /\ given' = Append(given, Head(buf[c]))
      BY <1>5, <2>4 DEF Write
    <3>3. Promise!Take
      BY <2>1, <2>2, <3>1, <3>2 DEF Promise!Take
    <3> QED BY <3>3 DEF Promise!Next
  <2> QED BY <1>5, <2>3, <2>4 DEF Write, HasWork, Rewriting
<1>6. ASSUME NEW c \in Clients, Release(c)
      PROVE  UNCHANGED <<Contents, given>>
  BY <1>0, <1>6 DEF Release, Writer
<1>7. ASSUME NEW c \in Clients, Die(c)
      PROVE  UNCHANGED <<Contents, given>>
  BY <1>0, <1>7 DEF Die, Writer
<1>8. CASE Tick
  BY <1>0, <1>8 DEF Tick, Writer
<1>9. CASE UNCHANGED mutexVars
  BY <1>0, <1>9 DEF mutexVars, clients, Writer
<1> QED
  BY <1>1, <1>2, <1>3, <1>4, <1>5, <1>6, <1>7, <1>8, <1>9 DEF MutexNext, Section

\* In a prompt environment in which no crash hits a half-written file, the lock
\* file and the file rewritten in place are the FIFO queue that OnDemandQueue
\* promises: every step of a client is a step of the queue or none.
THEOREM PromiseKept ==
  ASSUME Prompt, ~TornWrites
  PROVE  MutexSpec => KeepsPromise
<1>1. MutexInit => Promise!Init
  BY DEF MutexInit, Promise!Init, Contents, Writer
<1>2. MutexInit => BufInv
  BY DEF MutexInit, BufInv, Rewriting
<1>3. MutexSpec => []MutualExclusion
  BY MutexExclusionCorrect
<1>4. MutexTyped /\ MutualExclusion /\ BufInv /\ [MutexNext]_mutexVars
        => [Promise!Next]_<<Contents, given>>
  BY StepPromised
<1>5. MutexSpec => []MutexTyped
  BY MutexTypedAlways
<1> QED
  BY <1>1, <1>2, <1>3, <1>4, <1>5, BufNext, PTL
     DEF MutexSpec, KeepsPromise, Promise!Spec

===============================================================================
