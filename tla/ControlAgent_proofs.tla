------------------------- MODULE ControlAgent_proofs --------------------------
(***************************************************************************)
(* Theorems about ControlAgent, for every set of commands and passes, every *)
(* threshold and every bound.                                              *)
(***************************************************************************)
EXTENDS ControlAgent, FiniteSetTheorems, TLAPS

USE DEF bus, pass, history

-------------------------------------------------------------------------------
(* Type correctness.                                                       *)

\* What the saturating counters need.
LEMMA Saturates ==
  ASSUME NEW n \in Nat, NEW cap \in Nat
  PROVE  AtMost(n, cap) \in 0 .. cap
BY DEF AtMost

LEMMA TypeInit == Init => TypeOK
BY AgentAssumption DEF Init, TypeOK, Counter, Cap, AlertCap

\* What a request that marks a row, answered or not, and the ends of a command
\* change.
LEMMA MarkedType ==
  ASSUME TypeOK, NEW a \in Agents, NEW s \in {"running", "done", "error"},
         Marked(a, s) \/ UNCHANGED status
  PROVE  status' \in [Commands -> {"none", "pending", "running", "done", "error"}]
BY DEF TypeOK, Marked

LEMMA LeaveType ==
  ASSUME TypeOK, NEW a \in Agents, Leave(a)
  PROVE  /\ rows' \in [Agents -> SUBSET Commands]
         /\ pc' = [pc EXCEPT ![a] = "sync"]
BY DEF TypeOK, Leave, Goto

LEMMA MarkEndType ==
  ASSUME TypeOK, NEW a \in Agents, NEW s, MarkEnd(a, s)
  PROVE  /\ rows' \in [Agents -> SUBSET Commands]
         /\ pc' = [pc EXCEPT ![a] = "take"]
BY DEF TypeOK, MarkEnd, Goto

LEMMA SuccessType ==
  ASSUME TypeOK, NEW a \in Agents, NEW k \in Counter, NEW next,
         Success(a, k, next)
  PROVE  /\ count' \in [Counter -> 0 .. Cap]
         /\ alerts' \in [Counter -> 0 .. AlertCap]
         /\ fails' \in [Agents -> 0 .. Cap]
BY AgentAssumption DEF TypeOK, Success, Cap, AlertCap

LEMMA StrikeType ==
  ASSUME TypeOK, NEW a \in Agents, NEW k \in Counter, NEW next,
         Strike(a, k, next)
  PROVE  /\ count' \in [Counter -> 0 .. Cap]
         /\ alerts' \in [Counter -> 0 .. AlertCap]
         /\ fails' \in [Agents -> 0 .. Cap]
<1> DEFINE n == AtMost(count[k] + 1, Cap)
           m == AtMost(alerts[k] + 1, AlertCap)
<1>1. Cap \in Nat /\ AlertCap \in Nat
  BY AgentAssumption DEF Cap, AlertCap
<1>2. count[k] + 1 \in Nat /\ alerts[k] + 1 \in Nat /\ alerts[k] \in 0 .. AlertCap
  BY <1>1 DEF TypeOK
<1>3. n \in 0 .. Cap /\ m \in 0 .. AlertCap
  BY <1>1, <1>2, Saturates
<1>4. /\ fails' = [fails EXCEPT ![a] = n]
      /\ alerts' = [alerts EXCEPT ![k] = IF n = Threshold /\ tg THEN m ELSE @]
      /\ count' = count
  BY DEF Strike
<1> QED BY <1>2, <1>3, <1>4 DEF TypeOK

LEMMA TypeNext == TypeOK /\ [Next]_vars => TypeOK'
<1> SUFFICES ASSUME TypeOK, [Next]_vars PROVE TypeOK'
  OBVIOUS
<1> USE AgentAssumption DEF Goto
<1>k. "heartbeat" \in Counter /\ "sync" \in Counter
  BY DEF Counter
<1>1. CASE Reachability
  BY <1>1 DEF Reachability, TypeOK
<1>2. ASSUME NEW c \in Commands, Insert(c) PROVE TypeOK'
  BY <1>2 DEF Insert, TypeOK
<1>3. ASSUME NEW a \in Agents, Begin(a) PROVE TypeOK'
  BY <1>3 DEF Begin, TypeOK
<1>4. ASSUME NEW a \in Agents, Heartbeat(a) PROVE TypeOK'
  <2>1. /\ count' \in [Counter -> 0 .. Cap]
        /\ alerts' \in [Counter -> 0 .. AlertCap]
        /\ fails' \in [Agents -> 0 .. Cap]
    BY <1>4, <1>k, SuccessType, StrikeType DEF Heartbeat
  <2>2a. pc' = [pc EXCEPT ![a] = "poll"] \/ pc' = [pc EXCEPT ![a] = "beatmark"]
    BY <1>4 DEF Heartbeat, Success, Strike
  <2>2. pc' \in [Agents -> {"off", "beat", "beatmark", "poll", "take", "run",
                            "report", "blame", "sync", "syncmark"}]
    BY <2>2a DEF TypeOK
  <2>3. UNCHANGED <<bus, rows, result, executed, worked, crashes>>
    BY <1>4 DEF Heartbeat
  <2> QED BY <2>1, <2>2, <2>3 DEF TypeOK
<1>5. ASSUME NEW a \in Agents, HeartbeatMark(a) PROVE TypeOK'
  BY <1>5, <1>k DEF HeartbeatMark, Mark, TypeOK
<1>6. ASSUME NEW a \in Agents, Poll(a) PROVE TypeOK'
  <2>0. Oldest(Limit) \subseteq Commands
    BY DEF Oldest, Pending
  <2>1. rows' \in [Agents -> SUBSET Commands]
    BY <1>6, <2>0 DEF Poll, TypeOK
  <2>2. pc' \in [Agents -> {"off", "beat", "beatmark", "poll", "take", "run",
                            "report", "blame", "sync", "syncmark"}]
    BY <1>6 DEF Poll, TypeOK
  <2>3. UNCHANGED <<bus, result, fails, count, history, crashes>>
    BY <1>6 DEF Poll
  <2> QED BY <2>1, <2>2, <2>3 DEF TypeOK
<1>7. ASSUME NEW a \in Agents, Take(a) PROVE TypeOK'
  <2>1. status' \in [Commands -> {"none", "pending", "running", "done", "error"}]
    BY <1>7, MarkedType DEF Take, Unanswered
  <2>2. /\ rows' \in [Agents -> SUBSET Commands]
        /\ pc' = [pc EXCEPT ![a] = "sync"] \/ pc' = [pc EXCEPT ![a] = "run"]
    <3>1. CASE Leave(a) BY <3>1, LeaveType
    <3>2. CASE Goto(a, "run") /\ UNCHANGED rows BY <3>2 DEF TypeOK
    <3> QED BY <1>7, <3>1, <3>2 DEF Take
  <2>3. UNCHANGED <<net, tg, result, fails, count, history, crashes>>
    BY <1>7 DEF Take
  <2> QED BY <2>1, <2>2, <2>3 DEF TypeOK
<1>8. ASSUME NEW a \in Agents, Run(a) PROVE TypeOK'
  BY <1>8 DEF Run, TypeOK
<1>9. ASSUME NEW a \in Agents, Report(a) \/ Blame(a) PROVE TypeOK'
  <2>1. \E s \in {"done", "error"} : Marked(a, s) \/ UNCHANGED status
    BY <1>9 DEF Report, Blame, MarkEnd, Unanswered, Ended
  <2>2. status' \in [Commands -> {"none", "pending", "running", "done", "error"}]
    BY <2>1, MarkedType
  <2>3. /\ rows' \in [Agents -> SUBSET Commands]
        /\ \E l \in {"take", "sync", "blame"} : pc' = [pc EXCEPT ![a] = l]
    <3>1. CASE Leave(a) BY <3>1, LeaveType
    <3>2. CASE \E s : MarkEnd(a, s) BY <3>2, MarkEndType
    <3>3. CASE Goto(a, "blame") /\ UNCHANGED rows BY <3>3 DEF TypeOK
    <3> QED BY <1>9, <3>1, <3>2, <3>3 DEF Report, Blame
  <2>4. UNCHANGED <<net, tg, result, fails, count, history, crashes>>
    BY <1>9 DEF Report, Blame
  <2> QED BY <2>2, <2>3, <2>4 DEF TypeOK
<1>11. ASSUME NEW a \in Agents, Sync(a) PROVE TypeOK'
  <2>1. /\ count' \in [Counter -> 0 .. Cap]
        /\ alerts' \in [Counter -> 0 .. AlertCap]
        /\ fails' \in [Agents -> 0 .. Cap]
    <3>1. CASE UNCHANGED <<count, fails, alerts>>
      BY <3>1 DEF TypeOK
    <3>2. CASE Success(a, "sync", "off") \/ Strike(a, "sync", "syncmark")
      BY <3>2, <1>k, SuccessType, StrikeType
    <3> QED BY <1>11, <3>1, <3>2 DEF Sync
  <2>2a. pc' = [pc EXCEPT ![a] = "off"] \/ pc' = [pc EXCEPT ![a] = "syncmark"]
    BY <1>11 DEF Sync, Success, Strike
  <2>2. pc' \in [Agents -> {"off", "beat", "beatmark", "poll", "take", "run",
                            "report", "blame", "sync", "syncmark"}]
    BY <2>2a DEF TypeOK
  <2>3. UNCHANGED <<bus, rows, result, executed, worked, crashes>>
    BY <1>11 DEF Sync
  <2> QED BY <2>1, <2>2, <2>3 DEF TypeOK
<1>12. ASSUME NEW a \in Agents, SyncMark(a) PROVE TypeOK'
  BY <1>12, <1>k DEF SyncMark, Mark, TypeOK
<1>13. ASSUME NEW a \in Agents, Crash(a) PROVE TypeOK'
  BY <1>13 DEF Crash, TypeOK
<1>14. CASE UNCHANGED vars
  BY <1>14 DEF vars, TypeOK
<1> QED
  BY <1>1, <1>2, <1>3, <1>4, <1>5, <1>6, <1>7, <1>8, <1>9, <1>11, <1>12, <1>13,
     <1>14 DEF Next, Step

\* Every reachable state is well typed: counters stay within their bounds and
\* the passes work on commands that exist.
THEOREM TypeCorrect == Spec => []TypeOK
<1>1. Init => TypeOK BY TypeInit
<1>2. TypeOK /\ [Next]_vars => TypeOK' BY TypeNext
<1> QED BY <1>1, <1>2, PTL DEF Spec

-------------------------------------------------------------------------------
(* done is true.                                                           *)

\* There is one current row.
LEMMA CurrentUnique ==
  ASSUME TypeOK, NEW a \in Agents, NEW c, NEW d, Current(a, c), Current(a, d)
  PROVE  c = d
BY AgentAssumption DEF TypeOK, Current

\* A handler that returned is remembered before its row is marked.
DoneInv ==
  /\ DoneMeansWorked
  /\ \A a \in Agents : pc[a] = "report" /\ result[a] = "returned" =>
       \A c \in Commands : Current(a, c) => c \in worked

LEMMA DoneNext == TypeOK /\ DoneInv /\ [Next]_vars => DoneInv'
<1> SUFFICES ASSUME TypeOK, DoneInv, [Next]_vars PROVE DoneInv'
  OBVIOUS
<1> USE DEF DoneInv, DoneMeansWorked, Goto, Current
<1>1. CASE Reachability
  BY <1>1 DEF Reachability
<1>2. ASSUME NEW c \in Commands, Insert(c) PROVE DoneInv'
  BY <1>2 DEF Insert, TypeOK
<1>3. ASSUME NEW a \in Agents, Begin(a) \/ HeartbeatMark(a) \/ SyncMark(a) PROVE DoneInv'
  BY <1>3 DEF Begin, HeartbeatMark, SyncMark, Mark, TypeOK
<1>4. ASSUME NEW a \in Agents, Heartbeat(a) PROVE DoneInv'
  BY <1>4 DEF Heartbeat, Success, Strike, TypeOK
<1>5. ASSUME NEW a \in Agents, Sync(a) PROVE DoneInv'
  BY <1>5 DEF Sync, Success, Strike, TypeOK
<1>6. ASSUME NEW a \in Agents, Poll(a) PROVE DoneInv'
  BY <1>6 DEF Poll, TypeOK
<1>7. ASSUME NEW a \in Agents, Take(a) PROVE DoneInv'
  <2>1. \A d \in Commands : status'[d] = "done" => status[d] = "done"
    BY <1>7 DEF Take, Unanswered, Marked, TypeOK
  <2>2. UNCHANGED <<result, worked>>
    BY <1>7 DEF Take
  <2>3. \A b \in Agents : pc'[b] = "report" =>
                            pc[b] = "report" /\ rows'[b] = rows[b]
    BY <1>7 DEF Take, Leave, TypeOK
  <2> QED BY <2>1, <2>2, <2>3
<1>8. ASSUME NEW a \in Agents, Run(a) PROVE DoneInv'
  <2>1. PICK c \in Commands, r \in {"returned", "raised"} :
          /\ Current(a, c)
          /\ result' = [result EXCEPT ![a] = r]
          /\ worked' = IF r = "returned" THEN worked \cup {c} ELSE worked
    BY <1>8 DEF Run
  <2>2. \A d \in Commands : Current(a, d) => d = c
    BY <2>1, CurrentUnique
  <2>3. UNCHANGED <<status, rows>> /\ pc' = [pc EXCEPT ![a] = "report"]
    BY <1>8 DEF Run
  <2> QED BY <2>1, <2>2, <2>3 DEF TypeOK
<1>9. ASSUME NEW a \in Agents, Report(a) \/ Blame(a) PROVE DoneInv'
  <2>1. \A d \in Commands : status'[d] = "done" => d \in worked
    <3>1. CASE \/ Marked(a, "error") \/ UNCHANGED status
      BY <3>1 DEF Marked, TypeOK
    <3>2. CASE Marked(a, "done") /\ pc[a] = "report" /\ result[a] = "returned"
      BY <3>2 DEF Marked, TypeOK
    <3>3. CASE Report(a)
      BY <3>1, <3>2, <3>3 DEF Report, MarkEnd, Unanswered, Ended
    <3>4. CASE Blame(a)
      BY <3>1, <3>4 DEF Blame, MarkEnd, Unanswered
    <3> QED BY <1>9, <3>3, <3>4
  <2>2. UNCHANGED <<result, worked>>
    BY <1>9 DEF Report, Blame
  <2>3. \A b \in Agents : pc'[b] = "report" =>
                            pc[b] = "report" /\ rows'[b] = rows[b]
    BY <1>9 DEF Report, Blame, Leave, MarkEnd, TypeOK
  <2> QED BY <2>1, <2>2, <2>3
<1>11. ASSUME NEW a \in Agents, Crash(a) PROVE DoneInv'
  BY <1>11 DEF Crash, TypeOK
<1>12. CASE UNCHANGED vars
  BY <1>12 DEF vars
<1> QED
  BY <1>1, <1>2, <1>3, <1>4, <1>5, <1>6, <1>7, <1>8, <1>9, <1>11, <1>12
  DEF Next, Step

\* A row that says done was executed and its handler returned, even when passes
\* overlap.
THEOREM DoneCorrect == Spec => []DoneMeansWorked
<1>1. Init => DoneInv
  BY DEF Init, DoneInv, DoneMeansWorked
<1>2. DoneInv => DoneMeansWorked
  BY DEF DoneInv
<1> QED BY <1>1, <1>2, TypeCorrect, DoneNext, PTL DEF Spec

-------------------------------------------------------------------------------
(* Commands run at most once and in order, when passes do not overlap.     *)
Fresh == {c \in Commands : status[c] \in {"none", "pending"}}

\* At most one pass is alive.
Alone == \A a, b \in Agents : pc[a] # "off" /\ pc[b] # "off" => a = b

\* The admin site numbers the rows it inserts.
Numbered ==
  \A c, d \in Commands : c < d /\ status[c] = "none" => status[d] = "none"

\* Whatever has not been taken up is younger than everything that ran.
RanAreOlder ==
  \A i \in 1 .. Len(executed) : \A c \in Fresh : executed[i] < c

\* The rows r of a pass that are pending, and the rows it has not fetched.
Fetched(r) ==
  /\ r \subseteq Pending
  /\ \A c \in r, d \in Pending \ r : c < d

\* What a pass has in hand.
InHand(a) ==
  /\ pc[a] = "take" => Fetched(rows[a])
  /\ pc[a] \in {"run", "report", "blame"} =>
       \A c \in Commands : Current(a, c) =>
         /\ c \notin Fresh
         /\ rows[a] \ {c} \subseteq Pending
         /\ \A e \in rows[a], d \in Pending \ rows[a] : e < d
  /\ pc[a] = "run" =>
       \A c \in Commands : Current(a, c) =>
         \A i \in 1 .. Len(executed) : executed[i] < c

OrderInv ==
  Alone /\ Numbered /\ RanAreOlder /\ ExecutedOnceInOrder
    /\ \A a \in Agents : InHand(a)

\* The rows a request fetches are older than those it leaves.
LEMMA OldestFirst ==
  ASSUME NEW n \in Nat, TypeOK
  PROVE  Fetched(Oldest(n))
<1>1. Oldest(n) \subseteq Pending
  BY DEF Oldest
<1>2. ASSUME NEW c \in Oldest(n), NEW d \in Pending \ Oldest(n) PROVE c < d
  <2> DEFINE Below(x) == {e \in Pending : e < x}
  <2>1. c \in Nat /\ d \in Nat /\ c \in Pending /\ d \in Pending /\ Pending \subseteq Nat
    BY AgentAssumption DEF Oldest, Pending
  <2>2. SUFFICES ASSUME ~(c < d) PROVE FALSE
    OBVIOUS
  <2>3a. \A e \in Pending : e \in Nat /\ (e < d => e < c)
    BY <2>1, <2>2
  <2>3. Below(d) \subseteq Below(c)
    BY <2>3a
  <2>4a. \A e \in Pending : (e < d => e \in 0 .. d) /\ (e < c => e \in 0 .. c)
    BY <2>1, <2>3a
  <2>4. Below(c) \subseteq 0 .. c /\ Below(d) \subseteq 0 .. d
    BY <2>4a
  <2>5. \A x \in Nat : IsFiniteSet(0 .. x)
    BY FS_Interval
  <2>6. IsFiniteSet(Below(c)) /\ IsFiniteSet(Below(d))
    <3> HIDE DEF Below
    <3> QED BY <2>1, <2>4, <2>5, FS_Subset
  <2>8. /\ Cardinality(Below(d)) <= Cardinality(Below(c))
        /\ Cardinality(Below(c)) \in Nat /\ Cardinality(Below(d)) \in Nat
    <3> HIDE DEF Below
    <3> QED BY <2>3, <2>6, FS_Subset, FS_CardinalityType
  <2>7. Cardinality(Below(c)) < n /\ ~(Cardinality(Below(d)) < n)
    BY <2>1 DEF Oldest
  <2> HIDE DEF Below
  <2> QED BY <2>8, <2>7
<1> QED BY <1>1, <1>2 DEF Fetched

LEMMA OrderNext ==
  TypeOK /\ OrderInv /\ ~Overlap /\ [Next]_vars => OrderInv'
<1> SUFFICES ASSUME TypeOK, OrderInv, ~Overlap, [Next]_vars PROVE OrderInv'
  OBVIOUS
<1> USE DEF Goto
<1>n. Commands \subseteq Nat
  BY AgentAssumption
\* A step that leaves rows, status and executed alone and enters none of the
\* labels at which a pass has something in hand.
<1>q. ASSUME NEW a \in Agents, NEW l \in {"beat", "poll", "beatmark", "sync",
                                          "syncmark", "off"},
             pc' = [pc EXCEPT ![a] = l], UNCHANGED <<status, executed>>,
             pc[a] # "off" \/ Alone',
             \A b \in Agents : b # a => rows'[b] = rows[b]
      PROVE  OrderInv'
  <2>1. Alone'
    BY <1>q DEF Alone, OrderInv, TypeOK
  <2>2. Numbered' /\ RanAreOlder' /\ ExecutedOnceInOrder'
    BY <1>q DEF OrderInv, Numbered, RanAreOlder, Fresh, ExecutedOnceInOrder
  <2>3. ASSUME NEW b \in Agents PROVE InHand(b)'
    <3>1. CASE b = a
      BY <1>q, <3>1 DEF InHand, TypeOK
    <3>2. CASE b # a
      <4>1. pc'[b] = pc[b] /\ rows'[b] = rows[b] /\ InHand(b)
        BY <1>q, <3>2 DEF TypeOK, OrderInv
      <4> QED BY <1>q, <4>1 DEF InHand, Fetched, Fresh, Pending, Current
    <3> QED BY <3>1, <3>2
  <2> QED BY <2>1, <2>2, <2>3 DEF OrderInv
<1>1. CASE Reachability
  BY <1>1 DEF Reachability, OrderInv, Alone, Numbered, RanAreOlder, Fresh,
              ExecutedOnceInOrder, InHand, Fetched, Pending, Current
<1>2. ASSUME NEW c \in Commands, Insert(c) PROVE OrderInv'
  <2>1. /\ status[c] = "none" /\ status' = [status EXCEPT ![c] = "pending"]
        /\ \A d \in Commands : d < c => status[d] # "none"
        /\ UNCHANGED <<pc, rows, executed>>
    BY <1>2 DEF Insert
  <2>2. Alone' /\ ExecutedOnceInOrder'
    BY <2>1 DEF OrderInv, Alone, ExecutedOnceInOrder
  <2>3. Numbered'
    BY <2>1, <1>n DEF OrderInv, Numbered, TypeOK
  <2>4. RanAreOlder'
    BY <2>1 DEF OrderInv, RanAreOlder, Fresh, TypeOK
  <2>5. \A e \in Commands : status[e] # "none" => e < c
    BY <2>1, <1>n DEF OrderInv, Numbered
  <2>6. Pending' = Pending \cup {c} /\ c \notin Pending
    BY <2>1 DEF Pending, TypeOK
  <2>7. ASSUME NEW a \in Agents PROVE InHand(a)'
    <3>1. InHand(a) /\ pc'[a] = pc[a] /\ rows'[a] = rows[a] /\ rows[a] \subseteq Commands
      BY <2>1 DEF OrderInv, TypeOK
    <3>2. \A d \in Commands : Current(a, d)' <=> Current(a, d)
      BY <2>1 DEF Current
    <3>3. CASE pc[a] = "take"
      <4>1. \A e \in rows[a] : e < c
        BY <2>5, <3>1, <3>3 DEF InHand, Fetched, Pending
      <4> QED BY <2>6, <3>1, <3>3, <4>1 DEF InHand, Fetched
    <3>4. CASE pc[a] \in {"run", "report", "blame"}
      <4>1. ASSUME NEW d \in Commands, Current(a, d)
            PROVE  /\ d \notin Fresh'
                   /\ rows[a] \ {d} \subseteq Pending'
                   /\ \A e \in rows[a], g \in Pending' \ rows[a] : e < g
        <5>1. /\ d \notin Fresh
              /\ rows[a] \ {d} \subseteq Pending
              /\ \A e \in rows[a], g \in Pending \ rows[a] : e < g
          BY <3>1, <3>4, <4>1 DEF InHand
        <5>2. \A e \in rows[a] : e < c
          BY <2>5, <5>1, <3>1 DEF Pending, Fresh
        <5>3. Fresh' = Fresh
          BY <2>1 DEF Fresh, TypeOK
        <5> QED BY <2>1, <2>6, <5>1, <5>2, <5>3
      <4>2. pc[a] = "run" => \A d \in Commands : Current(a, d) =>
              \A i \in 1 .. Len(executed) : executed[i] < d
        BY <3>1 DEF InHand
      <4> QED BY <2>1, <3>1, <3>2, <3>4, <4>1, <4>2 DEF InHand
    <3> QED BY <3>1, <3>3, <3>4 DEF InHand
  <2> QED BY <2>2, <2>3, <2>4, <2>7 DEF OrderInv
<1>3. ASSUME NEW a \in Agents, Begin(a) PROVE OrderInv'
  <2>1. Alone'
    BY <1>3 DEF Begin, Alone, TypeOK
  <2> QED BY <1>3, <1>q, <2>1 DEF Begin
<1>4. ASSUME NEW a \in Agents,
             Heartbeat(a) \/ HeartbeatMark(a) \/ Sync(a) \/ SyncMark(a)
      PROVE  OrderInv'
  <2>1. pc[a] # "off" /\ UNCHANGED <<status, rows, executed>>
    BY <1>4 DEF Heartbeat, HeartbeatMark, Sync, SyncMark, Mark
  <2>2. \E l \in {"beat", "poll", "beatmark", "sync", "syncmark", "off"} :
          pc' = [pc EXCEPT ![a] = l]
    BY <1>4 DEF Heartbeat, HeartbeatMark, Sync, SyncMark, Mark, Success, Strike
  <2> QED BY <1>q, <2>1, <2>2
<1>5. ASSUME NEW a \in Agents, Crash(a) PROVE OrderInv'
  <2>1. /\ pc[a] # "off" /\ UNCHANGED <<status, executed>>
        /\ pc' = [pc EXCEPT ![a] = "off"]
        /\ \A b \in Agents : b # a => rows'[b] = rows[b]
    BY <1>5 DEF Crash, TypeOK
  <2> QED BY <1>q, <2>1
\* From here on a is the only pass alive.
<1>7. ASSUME NEW a \in Agents, pc[a] # "off",
             pc'[a] # "off", \A b \in Agents : b # a => pc'[b] = pc[b]
      PROVE  Alone' /\ \A b \in Agents : b # a => InHand(b)'
  <2>1. \A b \in Agents : b # a => pc'[b] = "off"
    BY <1>7 DEF OrderInv, Alone
  <2> QED BY <2>1 DEF Alone, InHand
\* A mark takes its row out of what is fresh.
<1>m. ASSUME NEW a \in Agents, NEW s \in {"running", "done", "error"},
             Marked(a, s) \/ UNCHANGED status,
             \A c \in Commands : Current(a, c) => status[c] # "none"
      PROVE  Numbered' /\ Fresh' \subseteq Fresh
  <2>1. \A c \in Commands : /\ status'[c] = "none" <=> status[c] = "none"
                            /\ status'[c] \in {status[c], s}
    BY <1>m DEF Marked, TypeOK
  <2> QED BY <2>1 DEF OrderInv, Numbered, Fresh
<1>6. ASSUME NEW a \in Agents, Leave(a), pc[a] # "off", UNCHANGED executed,
             Numbered', Fresh' \subseteq Fresh
      PROVE  OrderInv'
  <2>1. pc' = [pc EXCEPT ![a] = "sync"]
    BY <1>6 DEF Leave
  <2>2. Alone' /\ \A b \in Agents : b # a => InHand(b)'
    BY <1>6, <1>7, <2>1 DEF TypeOK
  <2>3. InHand(a)'
    BY <2>1 DEF InHand, TypeOK
  <2>4. RanAreOlder' /\ ExecutedOnceInOrder'
    BY <1>6 DEF OrderInv, RanAreOlder, ExecutedOnceInOrder
  <2> QED BY <1>6, <2>2, <2>3, <2>4 DEF OrderInv
<1>8. ASSUME NEW a \in Agents, Poll(a) PROVE OrderInv'
  <2>1. CASE ~net
    BY <1>8, <2>1, <1>q DEF Poll
  <2>2. CASE net
    <3>1. /\ pc[a] = "poll" /\ pc' = [pc EXCEPT ![a] = "take"]
          /\ rows'[a] = Oldest(Limit)
          /\ UNCHANGED <<status, executed>>
      BY <1>8, <2>2 DEF Poll, TypeOK
    <3>2. Fetched(Oldest(Limit)) /\ Pending' = Pending
      BY <3>1, OldestFirst, AgentAssumption DEF Pending
    <3>3. InHand(a)'
      BY <3>1, <3>2 DEF InHand, Fetched, TypeOK
    <3>4. Numbered' /\ RanAreOlder' /\ ExecutedOnceInOrder'
      BY <3>1 DEF OrderInv, Numbered, RanAreOlder, Fresh, ExecutedOnceInOrder
    <3>5. Alone' /\ \A b \in Agents : b # a => InHand(b)'
      BY <3>1, <1>7 DEF TypeOK
    <3> QED BY <3>3, <3>4, <3>5 DEF OrderInv
  <2> QED BY <2>1, <2>2 DEF TypeOK
<1>9. ASSUME NEW a \in Agents, Take(a) PROVE OrderInv'
  <2>1. CASE Marked(a, "running") /\ Goto(a, "run") /\ UNCHANGED rows
    <3>1. PICK c \in Commands : Current(a, c)
                                  /\ status' = [status EXCEPT ![c] = "running"]
      BY <2>1 DEF Marked
    <3>2. /\ pc[a] = "take" /\ pc' = [pc EXCEPT ![a] = "run"]
          /\ UNCHANGED <<rows, executed>>
      BY <1>9, <2>1 DEF Take
    <3>3. /\ rows[a] \subseteq Pending
          /\ \A e \in rows[a], d \in Pending \ rows[a] : e < d
      BY <3>2 DEF OrderInv, InHand, Fetched
    <3>4. c \in Pending /\ status[c] = "pending" /\ c \in Nat
      BY <3>1, <3>3, <1>n DEF Current, Pending
    <3>5. Pending' = Pending \ {c} /\ Fresh' = Fresh \ {c} /\ c \in Fresh
      BY <3>1, <3>4 DEF Pending, Fresh, TypeOK
    <3>6. Numbered'
      BY <3>1, <3>4 DEF OrderInv, Numbered, TypeOK
    <3>7. RanAreOlder' /\ ExecutedOnceInOrder'
      BY <3>2, <3>5 DEF OrderInv, RanAreOlder, ExecutedOnceInOrder
    <3>8. \A i \in 1 .. Len(executed) : executed[i] < c
      BY <3>5 DEF OrderInv, RanAreOlder
    <3>9. \A d \in Commands : Current(a, d)' => d = c
      <4>1. ASSUME NEW d \in Commands, Current(a, d)' PROVE d = c
        <5>1. Current(a, d)
          BY <3>2, <4>1 DEF Current
        <5> QED BY <3>1, <5>1, CurrentUnique
      <4> QED BY <4>1
    <3>10. c \notin Fresh'
      BY <3>5
    <3>11. InHand(a)'
      BY <3>2, <3>3, <3>5, <3>8, <3>9, <3>10 DEF InHand, TypeOK
    <3>12. Alone' /\ \A b \in Agents : b # a => InHand(b)'
      BY <3>2, <1>7 DEF TypeOK
    <3> QED BY <3>6, <3>7, <3>11, <3>12 DEF OrderInv
  <2>2. CASE Leave(a) /\ (Marked(a, "running") \/ UNCHANGED status)
    <3>1. pc[a] = "take" /\ UNCHANGED executed
      BY <1>9 DEF Take
    <3>2. \A c \in Commands : Current(a, c) => status[c] # "none"
      BY <3>1 DEF OrderInv, InHand, Fetched, Pending, Current
    <3>3. Numbered' /\ Fresh' \subseteq Fresh
      BY <2>2, <3>2, <1>m
    <3> QED BY <2>2, <3>1, <3>3, <1>6
  <2> QED BY <1>9, <2>1, <2>2 DEF Take, Unanswered
<1>10. ASSUME NEW a \in Agents, Run(a) PROVE OrderInv'
  <2>1. PICK c \in Commands : Current(a, c) /\ executed' = Append(executed, c)
    BY <1>10 DEF Run
  <2>2. /\ pc[a] = "run" /\ pc' = [pc EXCEPT ![a] = "report"]
        /\ UNCHANGED <<status, rows>>
    BY <1>10 DEF Run
  <2>3. /\ c \notin Fresh /\ rows[a] \ {c} \subseteq Pending
        /\ \A e \in rows[a], d \in Pending \ rows[a] : e < d
        /\ \A i \in 1 .. Len(executed) : executed[i] < c
    BY <2>1, <2>2 DEF OrderInv, InHand
  <2>4. c \in rows[a] /\ c \in Nat /\ \A d \in rows[a] : c <= d
    BY <2>1, <1>n DEF Current
  <2>5. \A d \in Fresh : c < d
    <3>1. ASSUME NEW d \in Fresh PROVE c < d
      <4>1. d \in Commands /\ d \in Nat /\ d # c
        BY <2>3, <1>n DEF Fresh
      <4>2. CASE status[d] = "none"
        BY <2>3, <2>4, <4>1, <4>2, <1>n DEF OrderInv, Numbered, Fresh, Current
      <4>3. CASE d \in Pending
        BY <2>3, <2>4, <4>1, <4>3
      <4> QED BY <4>2, <4>3 DEF Fresh, Pending
    <3> QED BY <3>1
  <2>6. /\ Len(executed') = Len(executed) + 1 /\ Len(executed) \in Nat
        /\ executed'[Len(executed) + 1] = c
        /\ \A i \in 1 .. Len(executed) : executed'[i] = executed[i]
    BY <2>1 DEF TypeOK
  <2>7. Numbered' /\ Fresh' = Fresh
    BY <2>2 DEF OrderInv, Numbered, Fresh
  <2>8. RanAreOlder'
    <3>1. ASSUME NEW i \in 1 .. Len(executed'), NEW d \in Fresh
          PROVE  executed'[i] < d
      <4>1. CASE i = Len(executed) + 1
        BY <2>5, <2>6, <4>1
      <4>2. CASE i \in 1 .. Len(executed)
        BY <2>6, <4>2 DEF OrderInv, RanAreOlder
      <4> QED BY <2>6, <4>1, <4>2
    <3> QED BY <3>1, <2>7 DEF RanAreOlder
  <2>9. ExecutedOnceInOrder'
    <3>1. ASSUME NEW i \in 1 .. Len(executed'), NEW j \in 1 .. Len(executed'), i < j
          PROVE  executed'[i] < executed'[j]
      <4>1. i \in 1 .. Len(executed)
        BY <2>6, <3>1
      <4>2. CASE j = Len(executed) + 1
        BY <2>3, <2>6, <4>1, <4>2
      <4>3. CASE j \in 1 .. Len(executed)
        BY <2>6, <3>1, <4>1, <4>3 DEF OrderInv, ExecutedOnceInOrder
      <4> QED BY <2>6, <4>2, <4>3
    <3> QED BY <3>1 DEF ExecutedOnceInOrder
  <2>10. InHand(a)'
    <3>1. pc'[a] = "report" /\ rows'[a] = rows[a] /\ Pending' = Pending
      BY <2>2 DEF TypeOK, Pending
    <3>2. \A d \in Commands : Current(a, d)' => d = c
      <4>1. ASSUME NEW d \in Commands, Current(a, d)' PROVE d = c
        <5>1. Current(a, d)
          BY <2>2, <4>1 DEF Current
        <5> QED BY <2>1, <5>1, CurrentUnique
      <4> QED BY <4>1
    <3> QED BY <2>2, <2>3, <2>7, <3>1, <3>2 DEF InHand
  <2>11. Alone' /\ \A b \in Agents : b # a => InHand(b)'
    BY <2>2, <1>7 DEF TypeOK
  <2> QED BY <2>7, <2>8, <2>9, <2>10, <2>11 DEF OrderInv
\* The end of a command: its row leaves the pass and is not fresh again.
<1>11. ASSUME NEW a \in Agents, NEW s \in {"done", "error"}, MarkEnd(a, s),
              pc[a] \in {"report", "blame"}, UNCHANGED executed
       PROVE  OrderInv'
  <2>1. PICK c \in Commands : Current(a, c) /\ status' = [status EXCEPT ![c] = s]
    BY <1>11 DEF MarkEnd, Marked
  <2>1a. \A d \in rows[a] : Current(a, d) <=> d = c
    BY <2>1, CurrentUnique
  <2>1b. rows'[a] = rows[a] \ {c}
    BY <1>11, <2>1a DEF MarkEnd, TypeOK
  <2>2. pc' = [pc EXCEPT ![a] = "take"]
    BY <1>11 DEF MarkEnd
  <2>3. /\ c \notin Fresh /\ rows[a] \ {c} \subseteq Pending
        /\ \A e \in rows[a], d \in Pending \ rows[a] : e < d
    BY <2>1, <1>11 DEF OrderInv, InHand
  <2>4. Pending' = Pending /\ Fresh' = Fresh /\ c \notin Pending
    BY <2>1, <2>3 DEF Pending, Fresh, TypeOK
  <2>5. Numbered'
    BY <2>1, <2>3 DEF OrderInv, Numbered, Fresh, TypeOK
  <2>6. RanAreOlder' /\ ExecutedOnceInOrder'
    BY <1>11, <2>4 DEF OrderInv, RanAreOlder, ExecutedOnceInOrder
  <2>7. InHand(a)'
    <3>1. pc'[a] = "take" /\ rows'[a] = rows[a] \ {c}
      BY <2>1b, <2>2 DEF TypeOK
    <3> QED BY <2>3, <2>4, <3>1 DEF InHand, Fetched
  <2>8. Alone' /\ \A b \in Agents : b # a => InHand(b)'
    BY <1>11, <2>2, <1>7 DEF TypeOK
  <2> QED BY <2>5, <2>6, <2>7, <2>8 DEF OrderInv
<1>12. ASSUME NEW a \in Agents, Report(a) \/ Blame(a) PROVE OrderInv'
  <2>1. pc[a] \in {"report", "blame"} /\ UNCHANGED executed
    BY <1>12 DEF Report, Blame
  <2>2. CASE \E s \in {"done", "error"} : MarkEnd(a, s)
    BY <2>1, <2>2, <1>11
  <2>3. ASSUME NEW s \in {"done", "error"}, Unanswered(a, s)
        PROVE  /\ Numbered' /\ Fresh' \subseteq Fresh
               /\ \A c \in Commands : Current(a, c) => c \notin Fresh
               /\ Pending' = Pending
    <3>1. \A c \in Commands : Current(a, c) => c \notin Fresh
      BY <2>1 DEF OrderInv, InHand
    <3>2. Numbered' /\ Fresh' \subseteq Fresh
      BY <2>3, <3>1, <1>m DEF Unanswered, Fresh
    <3>3. Pending' = Pending
      BY <2>3, <3>1 DEF Unanswered, Marked, Pending, Fresh, TypeOK
    <3> QED BY <3>1, <3>2, <3>3
  <2>4. CASE Leave(a) /\ \E s \in {"done", "error"} : Unanswered(a, s)
    BY <2>1, <2>3, <2>4, <1>6
  <2>5. CASE /\ Goto(a, "blame") /\ UNCHANGED rows
             /\ \E s \in {"done", "error"} : Unanswered(a, s)
    <3>1. /\ Numbered' /\ Fresh' \subseteq Fresh /\ Pending' = Pending
          /\ \A c \in Commands : Current(a, c) => c \notin Fresh
      BY <2>3, <2>5
    <3>2. RanAreOlder' /\ ExecutedOnceInOrder'
      BY <2>1, <3>1 DEF OrderInv, RanAreOlder, ExecutedOnceInOrder
    <3>3. pc' = [pc EXCEPT ![a] = "blame"] /\ InHand(a)
      BY <2>5 DEF OrderInv
    <3>4. InHand(a)'
      BY <2>1, <2>5, <3>1, <3>3 DEF InHand, Current, TypeOK
    <3>5. Alone' /\ \A b \in Agents : b # a => InHand(b)'
      BY <2>1, <3>3, <1>7 DEF TypeOK
    <3> QED BY <3>1, <3>2, <3>4, <3>5 DEF OrderInv
  <2>6. Ended(a) \in {"done", "error"}
    BY DEF Ended
  <2> QED BY <1>12, <2>2, <2>4, <2>5, <2>6 DEF Report, Blame
<1>14. CASE UNCHANGED vars
  BY <1>14 DEF vars, OrderInv, Alone, Numbered, RanAreOlder, Fresh,
               ExecutedOnceInOrder, InHand, Fetched, Pending, Current
<1> QED
  BY <1>1, <1>2, <1>3, <1>4, <1>5, <1>8, <1>9, <1>10, <1>12, <1>14
  DEF Next, Step

\* A command is executed at most once, and commands take effect in the order in
\* which they were given, as long as passes do not overlap.
THEOREM OrderCorrect ==
  ASSUME ~Overlap
  PROVE  Spec => []ExecutedOnceInOrder
<1>1. Init => OrderInv
  BY DEF Init, OrderInv, Alone, Numbered, RanAreOlder, ExecutedOnceInOrder, InHand
<1>2. TypeOK /\ OrderInv /\ [Next]_vars => OrderInv'
  BY OrderNext
<1>3. OrderInv => ExecutedOnceInOrder
  BY DEF OrderInv
<1> QED BY <1>1, <1>2, <1>3, TypeCorrect, PTL DEF Spec

-------------------------------------------------------------------------------
(* Alerts.                                                                 *)
MarkLabel(k) == IF k = "heartbeat" THEN "beatmark" ELSE "syncmark"
AtMark(k)    == {a \in Agents : pc[a] = MarkLabel(k)}
Reached(n)   == IF n >= Threshold THEN 1 ELSE 0

\* An alert beyond the crashes is owed to a count that reached the threshold,
\* in the marker file or in the hands of the pass that is about to write it.
AlertInv ==
  /\ Alone
  /\ \A k \in Counter :
       /\ AtMark(k) = {} => alerts[k] <= crashes + Reached(count[k])
       /\ \A a \in AtMark(k) : alerts[k] <= crashes + Reached(fails[a])

LEMMA StrikeAlerts ==
  ASSUME TypeOK, NEW a \in Agents, NEW k \in Counter, NEW next,
         Strike(a, k, next), alerts[k] <= crashes + Reached(count[k])
  PROVE  alerts'[k] <= crashes + Reached(fails'[a])
<1> DEFINE n == AtMost(count[k] + 1, Cap)
<1>1. /\ Threshold \in Nat /\ Cap = Threshold + 1 /\ count[k] \in 0 .. Cap
      /\ alerts[k] \in Nat /\ crashes \in Nat /\ AlertCap \in Nat
  BY AgentAssumption DEF TypeOK, Cap, AlertCap
<1>2. fails'[a] = n
  BY DEF Strike, TypeOK
<1>3. CASE n = Threshold
  <2>1. ~(count[k] >= Threshold)
    BY <1>1, <1>3 DEF AtMost
  <2>2. alerts'[k] \in {alerts[k], AtMost(alerts[k] + 1, AlertCap)}
    BY DEF Strike, TypeOK
  <2> QED BY <1>1, <1>2, <1>3, <2>1, <2>2 DEF Reached, AtMost
<1>4. CASE n # Threshold
  <2>1. alerts'[k] = alerts[k]
    BY <1>4 DEF Strike, TypeOK
  <2>2. count[k] >= Threshold => n >= Threshold
    BY <1>1 DEF AtMost
  <2>3. Reached(count[k]) <= Reached(n)
    BY <2>2 DEF Reached
  <2> QED BY <1>1, <1>2, <2>1, <2>3 DEF Reached
<1> QED BY <1>3, <1>4

LEMMA AloneNext == TypeOK /\ Alone /\ ~Overlap /\ [Next]_vars => Alone'
<1> SUFFICES ASSUME TypeOK, Alone, ~Overlap, [Next]_vars PROVE Alone'
  OBVIOUS
<1>1. ASSUME NEW a \in Agents, Begin(a) PROVE Alone'
  BY <1>1 DEF Begin, Goto, Alone, TypeOK
<1>2. ASSUME NEW a \in Agents, pc[a] # "off" \/ pc'[a] = "off",
             \A b \in Agents : b # a => pc'[b] = pc[b]
      PROVE  Alone'
  BY <1>2 DEF Alone
<1>3. ASSUME NEW a \in Agents, Step(a) \/ Crash(a), ~Begin(a) PROVE Alone'
  <2>1. pc[a] # "off"
    BY <1>3 DEF Step, Heartbeat, HeartbeatMark, Poll, Take, Run, Report, Blame,
                Sync, SyncMark, Crash
  <2>2. \E l : Goto(a, l)
    BY <1>3 DEF Step, Heartbeat, HeartbeatMark, Poll, Take, Run, Report, Blame,
                Sync, SyncMark, Crash, Success, Strike, Mark, MarkEnd, Leave
  <2> QED BY <1>2, <2>1, <2>2 DEF Goto, TypeOK
<1>4. CASE UNCHANGED pc
  BY <1>4 DEF Alone
<1> QED
  BY <1>1, <1>3, <1>4 DEF Next, Step, Reachability, Insert, vars

LEMMA AlertNext == TypeOK /\ AlertInv /\ ~Overlap /\ [Next]_vars => AlertInv'
<1> SUFFICES ASSUME TypeOK, AlertInv, ~Overlap, [Next]_vars PROVE AlertInv'
  OBVIOUS
<1>a. Alone /\ Alone'
  BY AloneNext DEF AlertInv
<1>r. \A n : Reached(n) \in {0, 1}
  BY DEF Reached
<1>c. crashes \in Nat /\ \A k \in Counter : alerts[k] \in Nat
  BY AgentAssumption DEF TypeOK, AlertCap
<1>m. MarkLabel("heartbeat") = "beatmark" /\ MarkLabel("sync") = "syncmark"
      /\ Counter = {"heartbeat", "sync"}
  BY DEF MarkLabel, Counter
\* A step between labels that are no marks.
<1>q. ASSUME UNCHANGED <<count, fails, alerts, crashes>>,
             \A k \in Counter : AtMark(k)' = AtMark(k)
      PROVE  AlertInv'
  BY <1>a, <1>q DEF AlertInv, Reached
\* Where the live pass is, is where anybody is.
<1>l. ASSUME NEW a \in Agents, pc[a] # "off", NEW k \in Counter
      PROVE  AtMark(k) = IF pc[a] = MarkLabel(k) THEN {a} ELSE {}
  BY <1>a, <1>l, <1>m DEF Alone, AtMark
<1>p. ASSUME NEW a \in Agents, pc'[a] # "off", NEW k \in Counter
      PROVE  AtMark(k)' = IF pc'[a] = MarkLabel(k) THEN {a} ELSE {}
  BY <1>a, <1>p, <1>m DEF Alone, AtMark
<1>1. ASSUME UNCHANGED <<count, fails, alerts, crashes>>,
             NEW a \in Agents, NEW l, pc' = [pc EXCEPT ![a] = l],
             pc[a] \notin {"beatmark", "syncmark"}, l \notin {"beatmark", "syncmark"}
      PROVE  AlertInv'
  <2>1. \A k \in Counter : AtMark(k)' = AtMark(k)
    BY <1>1, <1>m DEF AtMark, TypeOK
  <2> QED BY <1>1, <1>q, <2>1
\* The end of an attempt, for either counter.
<1>2. ASSUME NEW a \in Agents, NEW k \in Counter, NEW l,
             pc[a] \notin {"off", "beatmark", "syncmark"},
             l \notin {"beatmark", "syncmark"}, Success(a, k, l), UNCHANGED crashes
      PROVE  AlertInv'
  <2>1. \A j \in Counter : AtMark(j) = {} /\ AtMark(j)' = {}
    BY <1>2, <1>l, <1>m DEF Success, Goto, AtMark, TypeOK
  <2>2. alerts'[k] = 0 /\ \A j \in Counter \ {k} :
                            alerts'[j] = alerts[j] /\ count'[j] = count[j]
    BY <1>2 DEF Success, TypeOK
  <2>3. \A j \in Counter : alerts'[j] <= crashes' + Reached(count'[j])
    BY <1>2, <1>r, <1>c, <2>1, <2>2 DEF AlertInv
  <2>4. \A j \in Counter : AtMark(j)' = {} => alerts'[j] <= crashes' + Reached(count[j]')
    BY <2>3
  <2> QED BY <1>a, <2>1, <2>4 DEF AlertInv, Reached
<1>3. ASSUME NEW a \in Agents, NEW k \in Counter,
             pc[a] \notin {"off", "beatmark", "syncmark"},
             Strike(a, k, MarkLabel(k)), UNCHANGED crashes
      PROVE  AlertInv'
  <2>1. pc'[a] = MarkLabel(k)
    BY <1>3 DEF Strike, Goto, TypeOK
  <2>2. \A j \in Counter : AtMark(j) = {} /\ AtMark(j)' = IF j = k THEN {a} ELSE {}
    BY <1>3, <1>l, <1>p, <1>m, <2>1
  <2>3. alerts'[k] <= crashes' + Reached(fails'[a])
    BY <1>3, <2>2, StrikeAlerts DEF AlertInv
  <2>4. \A j \in Counter \ {k} : alerts'[j] = alerts[j] /\ count'[j] = count[j]
    BY <1>3 DEF Strike, TypeOK
  <2>5. \A j \in Counter \ {k} : alerts'[j] <= crashes' + Reached(count'[j])
    BY <1>3, <2>2, <2>4 DEF AlertInv
  <2> QED BY <1>a, <2>2, <2>3, <2>5 DEF AlertInv, Reached
<1>4. ASSUME NEW a \in Agents, NEW k \in Counter, NEW l,
             pc[a] = MarkLabel(k), l \notin {"beatmark", "syncmark"},
             Mark(a, k, l)
      PROVE  AlertInv'
  <2>1. \A j \in Counter : AtMark(j) = IF j = k THEN {a} ELSE {}
    BY <1>4, <1>l, <1>m
  <2>2. \A j \in Counter : AtMark(j)' = {}
    BY <1>4, <1>m, <2>1 DEF Mark, Goto, AtMark, TypeOK
  <2>3. /\ count'[k] = fails[a] /\ UNCHANGED <<alerts, crashes>>
        /\ \A j \in Counter \ {k} : count'[j] = count[j]
    BY <1>4 DEF Mark, TypeOK
  <2>4. \A j \in Counter : alerts'[j] <= crashes' + Reached(count'[j])
    BY <2>1, <2>3 DEF AlertInv
  <2> QED BY <1>a, <2>2, <2>4 DEF AlertInv, Reached
<1>5. ASSUME NEW a \in Agents, Crash(a) PROVE AlertInv'
  <2>1. /\ pc[a] # "off" /\ pc' = [pc EXCEPT ![a] = "off"]
        /\ crashes' = crashes + 1 /\ UNCHANGED <<count, fails, alerts>>
    BY <1>5 DEF Crash, Goto
  <2>2. \A j \in Counter : AtMark(j)' = {}
    BY <1>l, <1>m, <2>1 DEF AtMark, TypeOK
  <2>3. ASSUME NEW j \in Counter PROVE alerts[j] <= crashes + 1
    <3>1. CASE AtMark(j) = {}
      BY <3>1, <1>r, <1>c DEF AlertInv
    <3>2. CASE AtMark(j) # {}
      BY <3>2, <1>r, <1>c DEF AlertInv
    <3> QED BY <3>1, <3>2
  <2>4. \A j \in Counter : alerts'[j] <= crashes' + Reached(count'[j])
    BY <1>r, <1>c, <2>1, <2>3
  <2> QED BY <1>a, <2>2, <2>4 DEF AlertInv, Reached
<1>6. ASSUME NEW a \in Agents, Heartbeat(a) PROVE AlertInv'
  BY <1>6, <1>2, <1>3, <1>m DEF Heartbeat
<1>7. ASSUME NEW a \in Agents, Sync(a) PROVE AlertInv'
  <2>1. CASE Goto(a, "off") /\ UNCHANGED <<count, fails, alerts>>
    BY <1>7, <2>1, <1>1 DEF Sync, Goto
  <2> QED BY <1>7, <2>1, <1>2, <1>3, <1>m DEF Sync
<1>8. ASSUME NEW a \in Agents, HeartbeatMark(a) \/ SyncMark(a) PROVE AlertInv'
  BY <1>8, <1>4, <1>m DEF HeartbeatMark, SyncMark
<1>9. ASSUME NEW a \in Agents, Begin(a) \/ Poll(a) \/ Take(a) \/ Run(a)
                               \/ Report(a) \/ Blame(a)
      PROVE  AlertInv'
  <2>1. /\ UNCHANGED <<count, fails, alerts, crashes>>
        /\ pc[a] \notin {"beatmark", "syncmark"}
    BY <1>9 DEF Begin, Poll, Take, Run, Report, Blame
  <2>2. \E l : pc' = [pc EXCEPT ![a] = l] /\ l \notin {"beatmark", "syncmark"}
    BY ZenonT(30), <1>9 DEF Begin, Poll, Take, Run, Report, Blame, MarkEnd, Leave, Goto
  <2> QED BY <1>1, <2>1, <2>2
<1>10. CASE UNCHANGED <<pc, count, fails, alerts, crashes>>
  <2>1. \A k \in Counter : AtMark(k)' = AtMark(k)
    BY <1>10 DEF AtMark
  <2> QED BY <1>10, <2>1, <1>q
<1> QED
  BY <1>5, <1>6, <1>7, <1>8, <1>9, <1>10
  DEF Next, Step, Reachability, Insert, vars

\* An outage is reported once, a crash between the message and the marker
\* aside, as long as passes do not overlap.
THEOREM AlertCorrect ==
  ASSUME ~Overlap
  PROVE  Spec => []OneAlertPerOutage
<1>1. Init => AlertInv
  BY AgentAssumption DEF Init, AlertInv, Alone, AtMark, MarkLabel, Reached
<1>2. TypeOK /\ AlertInv /\ [Next]_vars => AlertInv'
  BY AlertNext
<1>3. TypeOK /\ AlertInv => OneAlertPerOutage
  <2> SUFFICES ASSUME TypeOK, AlertInv, NEW k \in Counter
               PROVE  alerts[k] <= 1 + crashes
    BY DEF OneAlertPerOutage
  <2>1. crashes \in Nat /\ alerts[k] \in Nat
    BY AgentAssumption DEF TypeOK, AlertCap
  <2>2. \A n : Reached(n) \in {0, 1}
    BY DEF Reached
  <2>3. CASE AtMark(k) = {} BY <2>1, <2>2, <2>3 DEF AlertInv
  <2>4. CASE AtMark(k) # {} BY <2>1, <2>2, <2>4 DEF AlertInv
  <2> QED BY <2>3, <2>4
<1> QED BY <1>1, <1>2, <1>3, TypeCorrect, PTL DEF Spec

===============================================================================
