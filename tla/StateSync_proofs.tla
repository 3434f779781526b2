--------------------------- MODULE StateSync_proofs ---------------------------
(***************************************************************************)
(* Theorems about StateSync, for all sets of rows and names and all bounds. *)
(***************************************************************************)
EXTENDS StateSync, FiniteSetTheorems, TLAPS

USE DEF repo, clone, cache, sync, bounds, history

-------------------------------------------------------------------------------
(* The rows an import appends.                                             *)

\* A finite set as a sequence: every element once.
LEMMA SetToSeqFacts ==
  ASSUME NEW S, IsFiniteSet(S)
  PROVE  LET s == SetToSeq(S)
         IN  /\ s \in Seq(S)
             /\ \A x \in S : \E i \in 1 .. Len(s) : s[i] = x
             /\ \A i, j \in 1 .. Len(s) : s[i] = s[j] => i = j
<1> DEFINE n == Cardinality(S)
           s == SetToSeq(S)
<1>1. n \in Nat /\ ExistsBijection(1 .. n, S)
  BY FS_CardinalityType
<1>2. \E f \in [1 .. n -> S] : IsInjective(f)
  BY <1>1 DEF ExistsBijection, Bijection, Injection, IsInjective
<1>3. s \in [1 .. n -> S] /\ IsInjective(s)
  BY <1>2 DEF SetToSeq
<1> HIDE DEF s
<1>4. s \in Injection(1 .. n, S)
  BY <1>3 DEF Injection, IsInjective
<1>5. IsFiniteSet(1 .. n) /\ Cardinality(1 .. n) = n
  BY <1>1, FS_Interval
<1>6. s \in Surjection(1 .. n, S)
  BY <1>4, <1>5, FS_Injection
<1>7. s \in Seq(S) /\ Len(s) = n
  BY <1>1, <1>3
<1>8. \A x \in S : \E i \in 1 .. n : s[i] = x
  BY <1>6 DEF Surjection
<1>9. \A i, j \in 1 .. n : s[i] = s[j] => i = j
  BY <1>3 DEF IsInjective
<1> QED BY <1>7, <1>8, <1>9 DEF s

LEMMA ImportFacts ==
  ASSUME NEW S \in SUBSET Rows, ledger \in Seq(Rows),
         ledger' = ledger \o SetToSeq(S)
  PROVE  /\ ledger' \in Seq(Rows)
         /\ \A row : Has(row) \/ row \in S => Has(row)'
         /\ (S \cap {row \in Rows : Has(row)} = {}) /\ NoRowTwice => NoRowTwice'
<1> DEFINE s == SetToSeq(S)
<1>1. IsFiniteSet(S)
  BY SyncAssumption, FS_Subset
<1>2. /\ s \in Seq(S)
      /\ \A x \in S : \E i \in 1 .. Len(s) : s[i] = x
      /\ \A i, j \in 1 .. Len(s) : s[i] = s[j] => i = j
  BY <1>1, SetToSeqFacts
<1> HIDE DEF s
<1>3. s \in Seq(Rows) /\ ledger' = ledger \o s
  BY <1>2 DEF s
<1>4. /\ ledger' \in Seq(Rows)
      /\ Len(ledger') = Len(ledger) + Len(s)
      /\ Len(ledger) \in Nat /\ Len(s) \in Nat
      /\ \A i \in 1 .. Len(ledger) : ledger'[i] = ledger[i]
      /\ \A i \in 1 .. Len(s) : ledger'[Len(ledger) + i] = s[i]
  BY <1>3
<1>5. \A row : Has(row) => Has(row)'
  BY <1>4 DEF Has
<1>6. \A row \in S : Has(row)'
  <2> SUFFICES ASSUME NEW row \in S PROVE Has(row)'
    OBVIOUS
  <2>1. PICK i \in 1 .. Len(s) : s[i] = row
    BY <1>2
  <2>2. Len(ledger) + i \in 1 .. Len(ledger')
    BY <1>4, <2>1
  <2> QED BY <1>4, <2>1, <2>2 DEF Has
<1>7. ASSUME S \cap {row \in Rows : Has(row)} = {}, NoRowTwice PROVE NoRowTwice'
  <2> SUFFICES ASSUME NEW i \in 1 .. Len(ledger'), NEW j \in 1 .. Len(ledger'),
                      ledger'[i] = ledger'[j]
               PROVE  i = j
    BY DEF NoRowTwice
  <2>1. \A k \in 1 .. Len(ledger') :
          \/ k \in 1 .. Len(ledger) /\ ledger'[k] = ledger[k]
          \/ /\ k - Len(ledger) \in 1 .. Len(s)
             /\ ledger'[k] = s[k - Len(ledger)]
    <3> SUFFICES ASSUME NEW k \in 1 .. Len(ledger'), k \notin 1 .. Len(ledger)
                 PROVE  /\ k - Len(ledger) \in 1 .. Len(s)
                        /\ ledger'[k] = s[k - Len(ledger)]
      BY <1>4
    <3>1. k - Len(ledger) \in 1 .. Len(s)
      BY <1>4
    <3>2. k = Len(ledger) + (k - Len(ledger))
      BY <1>4
    <3> QED BY <1>4, <3>1, <3>2
  <2>2. \A k \in 1 .. Len(s) : \A l \in 1 .. Len(ledger) : s[k] # ledger[l]
    <3> SUFFICES ASSUME NEW k \in 1 .. Len(s), NEW l \in 1 .. Len(ledger),
                        s[k] = ledger[l]
                 PROVE  FALSE
      OBVIOUS
    <3>1. s[k] \in S /\ Has(s[k])
      BY SMTT(30), <1>2 DEF Has
    <3> QED BY <1>7, <3>1
  <2>3. CASE i \in 1 .. Len(ledger) /\ j \in 1 .. Len(ledger)
    BY <2>3, <1>4, <1>7 DEF NoRowTwice
  <2>4. CASE /\ i - Len(ledger) \in 1 .. Len(s)
             /\ j - Len(ledger) \in 1 .. Len(s)
             /\ ledger'[i] = s[i - Len(ledger)]
             /\ ledger'[j] = s[j - Len(ledger)]
    <3>1. i - Len(ledger) = j - Len(ledger)
      BY <2>4, <1>2
    <3> QED BY <3>1, <1>4
  <2> QED BY ZenonT(30), <1>4, <2>1, <2>2, <2>3, <2>4
<1> QED BY <1>4, <1>5, <1>6, <1>7

-------------------------------------------------------------------------------
(* Type correctness.                                                       *)

\* What keeps the bounded counters within their bounds: every tick of the clock
\* is a save or a row of the cloud, and no copy of paper_books/ is ahead of what
\* was appended.
Counted ==
  /\ clock = saves + Cardinality(published)
  /\ \A c \in {remote, upstream, head, tree} : c.books <= written
  /\ kept # Nothing => kept <= written

LEMMA TypeInit == Init => TypeOK /\ Counted
<1> SUFFICES ASSUME Init PROVE TypeOK /\ Counted
  OBVIOUS
<1>1. Cardinality({}) = 0 /\ Cardinality(Rows) \in Nat
  BY SyncAssumption, FS_EmptySet, FS_CardinalityType
<1>2. {MaxSaves, MaxSlots, MaxFailures, MaxCrashes} \subseteq Nat
  BY SyncAssumption
<1>3. MaxTime \in Nat
  BY <1>1, <1>2 DEF MaxTime
<1>4. Empty \in Copy /\ Empty.books = 0 /\ Empty.recs \in Records
  BY <1>2, <1>3 DEF Empty, Copy, Records, Record
<1>5. <<>> \in Seq(Rows)
  OBVIOUS
<1> QED BY <1>1, <1>2, <1>3, <1>4, <1>5 DEF Init, TypeOK, Counted, Nothing

\* Copies are updated field by field.
LEMMA CopyUpdate ==
  ASSUME NEW c \in Copy
  PROVE  /\ \A d \in SUBSET Rows :
              /\ [c EXCEPT !.delta = d] \in Copy
              /\ [c EXCEPT !.delta = d].recs = c.recs
              /\ [c EXCEPT !.delta = d].books = c.books
              /\ [c EXCEPT !.delta = d].delta = d
         /\ \A b \in 0 .. MaxSlots :
              /\ [c EXCEPT !.books = b] \in Copy
              /\ [c EXCEPT !.books = b].recs = c.recs
              /\ [c EXCEPT !.books = b].delta = c.delta
              /\ [c EXCEPT !.books = b].books = b
         /\ \A r \in Records :
              /\ [c EXCEPT !.recs = r] \in Copy
              /\ [c EXCEPT !.recs = r].books = c.books
              /\ [c EXCEPT !.recs = r].delta = c.delta
              /\ [c EXCEPT !.recs = r].recs = r
         /\ c.delta \in SUBSET Rows /\ c.recs \in Records /\ c.books \in 0 .. MaxSlots
BY DEF Copy

LEMMA CloudPushFacts ==
  ASSUME TypeOK, Counted, NEW row \in Rows, NEW t \in Name, CloudPush(row, t)
  PROVE  /\ clock + 1 \in 0 .. MaxTime
         /\ published' \subseteq Rows
         /\ clock' = saves' + Cardinality(published')
         /\ remote' \in Copy
         /\ remote'.delta = remote.delta \cup {row}
         /\ remote'.books = remote.books
         /\ remote'.recs = [remote.recs EXCEPT ![t] = [date |-> clock + 1, cloud |-> TRUE]]
<1>1. published' = published \cup {row} /\ row \notin published /\ published' \subseteq Rows
  BY DEF CloudPush, TypeOK
<1>2. /\ Cardinality(published') = Cardinality(published) + 1
      /\ Cardinality(published') <= Cardinality(Rows)
      /\ Cardinality(published) \in Nat /\ Cardinality(Rows) \in Nat
  <2>1. IsFiniteSet(published)
    BY SyncAssumption, FS_Subset DEF TypeOK
  <2>2. Cardinality(published') = Cardinality(published) + 1
    BY <1>1, <2>1, FS_AddElement
  <2>3. Cardinality(published') <= Cardinality(Rows)
    BY <1>1, SyncAssumption, FS_Subset
  <2> QED BY <2>1, <2>2, <2>3, SyncAssumption, FS_CardinalityType
<1>3. clock' = clock + 1 /\ saves' = saves /\ saves \in 0 .. MaxSaves /\ MaxSaves \in Nat
  BY SyncAssumption DEF CloudPush, TypeOK
<1>4. clock + 1 \in 0 .. MaxTime
  BY <1>2, <1>3 DEF Counted, MaxTime
<1>5. /\ remote \in Copy
      /\ remote' = [remote EXCEPT !.delta = @ \cup {row},
                      !.recs[t] = [date |-> clock + 1, cloud |-> TRUE]]
  BY DEF CloudPush, TypeOK
<1>6. [date |-> clock + 1, cloud |-> TRUE] \in Record
  BY <1>4 DEF Record
<1>7. /\ remote' \in Copy
      /\ remote'.delta = remote.delta \cup {row} /\ remote'.books = remote.books
      /\ remote'.recs = [remote.recs EXCEPT ![t] = [date |-> clock + 1, cloud |-> TRUE]]
  BY <1>5, <1>6 DEF Copy, Records
<1> QED BY <1>1, <1>2, <1>3, <1>4, <1>7 DEF Counted

\* What Merge leaves is a map of records.
LEMMA MergeType ==
  ASSUME TypeOK, Merge
  PROVE  recs' \in Records
BY CopyUpdate DEF TypeOK, Merge, Records

LEMMA TypeNext == TypeOK /\ Counted /\ [Next]_vars => TypeOK' /\ Counted'
<1> SUFFICES ASSUME TypeOK, Counted, [Next]_vars PROVE TypeOK' /\ Counted'
  OBVIOUS
<1>b. /\ MaxSaves \in Nat /\ MaxSlots \in Nat /\ MaxFailures \in Nat
      /\ MaxCrashes \in Nat /\ Nothing = MaxSlots + 1 /\ written \in 0 .. MaxSlots
  BY SyncAssumption DEF TypeOK, Nothing
<1>c. \A c \in {remote, upstream, head, tree} :
        c \in Copy /\ c.recs \in Records /\ c.delta \in SUBSET Rows
          /\ c.books \in 0 .. MaxSlots /\ c.books <= written
  BY CopyUpdate DEF TypeOK, Counted
<1>1. ASSUME NEW t \in Name, NEW row \in Rows, CloudPush(row, t)
      PROVE  TypeOK' /\ Counted'
  <2>1. /\ UNCHANGED <<clone, cache, mem, sync, saves, failures, crashes, written>>
        /\ clock' = clock + 1 /\ version' = version + 1
    BY <1>1 DEF CloudPush
  <2>2. /\ clock' \in 0 .. MaxTime /\ published' \subseteq Rows
        /\ clock' = saves' + Cardinality(published')
        /\ remote' \in Copy /\ remote'.books = remote.books
    BY <1>1, <2>1, CloudPushFacts
  <2>3. version' \in Nat /\ fetched' \in 0 .. version'
    BY <2>1 DEF TypeOK
  <2>4. \A c \in {remote', upstream', head', tree'} : c.books <= written'
    BY <1>c, <2>1, <2>2
  <2> QED BY <2>1, <2>2, <2>3, <2>4 DEF TypeOK, Counted
<1>2. CASE SweepLoads
  BY <1>2 DEF SweepLoads, TypeOK, Counted
<1>3. ASSUME NEW t \in Name, SweepSaves(t) PROVE TypeOK' /\ Counted'
  <2>1. /\ saves' = saves + 1 /\ saves < MaxSaves /\ clock' = clock + 1
        /\ mem \in Records /\ recs' = mem'
        /\ mem' = [mem EXCEPT ![t] = [date |-> clock + 1, cloud |-> FALSE]]
        /\ UNCHANGED <<repo, clone, ledger, sync, failures, crashes, history>>
    BY <1>3 DEF SweepSaves, TypeOK
  <2>2. Cardinality(published) \in Nat /\ Cardinality(published) <= Cardinality(Rows)
        /\ Cardinality(Rows) \in Nat
    BY SyncAssumption, FS_Subset, FS_CardinalityType DEF TypeOK
  <2>3. clock + 1 \in 0 .. MaxTime /\ clock' = saves' + Cardinality(published)
        /\ saves' \in 0 .. MaxSaves
    BY <1>b, <2>1, <2>2 DEF TypeOK, Counted, MaxTime
  <2>4. mem' \in Records
    BY <2>1, <2>3 DEF Records, Record
  <2> QED BY <2>1, <2>3, <2>4 DEF TypeOK, Counted
<1>4. CASE SweepEnds
  BY <1>4 DEF SweepEnds, TypeOK, Counted
<1>5. CASE BooksAppend
  <2>1. /\ written < MaxSlots /\ written' = written + 1
        /\ tree' = [tree EXCEPT !.books = tree.books + 1]
        /\ UNCHANGED <<repo, upstream, fetched, head, cache, mem, sync, bounds,
                       published>>
    BY <1>5 DEF BooksAppend
  <2>2. tree.books + 1 \in 0 .. MaxSlots /\ written' \in 0 .. MaxSlots
        /\ tree.books + 1 <= written'
    BY <1>b, <1>c, <2>1
  <2>3. tree' \in Copy /\ tree'.books = tree.books + 1
    BY <1>c, <2>1, <2>2, CopyUpdate
  <2>4. \A c \in {remote, upstream, head} : c.books <= written'
    BY <1>b, <1>c, <2>1
  <2>5. kept # Nothing => kept <= written'
    BY SMTT(30), <1>b, <2>1 DEF Counted, TypeOK
  <2> QED BY <2>1, <2>2, <2>3, <2>4, <2>5 DEF TypeOK, Counted
<1>6. CASE Fetch
  <2>1. upstream' = remote /\ fetched' = version /\ pc' = "carry"
        /\ UNCHANGED <<repo, head, tree, cache, mem, kept, mine, bounds, history>>
    BY <1>6 DEF Fetch
  <2> QED BY <2>1 DEF TypeOK, Counted
<1>7. CASE Carry
  <2>1. UNCHANGED <<repo, clone, cache, mem, mine, bounds, history>>
    BY <1>7 DEF Carry
  <2>2. kept' \in {kept, Nothing, tree.books} /\ pc' \in {"reset", "idle"}
    BY <1>7 DEF Carry
  <2> QED BY <1>c, <2>1, <2>2 DEF TypeOK, Counted
<1>8. CASE Reset
  BY <1>8 DEF Reset, TypeOK, Counted
<1>9. CASE Restore
  <2>1. /\ tree' = IF kept = Nothing THEN tree ELSE [tree EXCEPT !.books = kept]
        /\ kept' = Nothing /\ pc' = "import"
        /\ UNCHANGED <<repo, upstream, fetched, head, cache, mem, mine, bounds,
                       history>>
    BY <1>9 DEF Restore
  <2>2. tree' \in Copy /\ tree'.books <= written
    <3>1. CASE kept = Nothing BY <1>c, <2>1, <3>1
    <3>2. CASE kept # Nothing
      <4>1. kept \in 0 .. MaxSlots /\ kept <= written
        BY <3>2 DEF TypeOK, Counted
      <4> QED BY <1>c, <2>1, <3>2, <4>1, CopyUpdate
    <3> QED BY <3>1, <3>2
  <2> QED BY <2>1, <2>2 DEF TypeOK, Counted
<1>10. CASE Import
  <2>1. ledger' \in Seq(Rows)
    <3>1. {row \in tree.delta : ~Has(row)} \in SUBSET Rows
      BY <1>c
    <3> QED BY <1>10, <3>1, ImportFacts DEF Import, TypeOK
  <2>2. pc' = "truncate"
        /\ UNCHANGED <<repo, clone, recs, mem, kept, mine, bounds, history>>
    BY <1>10 DEF Import
  <2> QED BY <2>1, <2>2 DEF TypeOK, Counted
<1>11. CASE Truncate \/ CopyFiles
  <2>0. /\ \/ tree' = [tree EXCEPT !.delta = {}]
           \/ tree' = [tree EXCEPT !.recs = recs]
        /\ pc' \in {"read", "commit"}
        /\ UNCHANGED <<repo, upstream, fetched, head, cache, mem, kept, mine,
                       bounds, history>>
    BY <1>11 DEF Truncate, CopyFiles
  <2>1. tree' \in Copy /\ tree'.books = tree.books
    <3>1. {} \in SUBSET Rows /\ recs \in Records /\ tree \in Copy
      BY DEF TypeOK
    <3>2. /\ [tree EXCEPT !.delta = {}] \in Copy
          /\ [tree EXCEPT !.delta = {}].books = tree.books
      BY <3>1, CopyUpdate
    <3>3. /\ [tree EXCEPT !.recs = recs] \in Copy
          /\ [tree EXCEPT !.recs = recs].books = tree.books
      BY <3>1, CopyUpdate
    <3>4. CASE tree' = [tree EXCEPT !.delta = {}]
      BY <3>2, <3>4
    <3>5. CASE tree' = [tree EXCEPT !.recs = recs]
      BY <3>3, <3>5
    <3> QED BY <2>0, <3>4, <3>5
  <2>2. /\ pc' \in {"read", "commit"}
        /\ UNCHANGED <<repo, upstream, fetched, head, cache, mem, kept, mine,
                       bounds, history>>
    BY <2>0
  <2>3. \A c \in {remote', upstream', head', tree'} : c.books <= written'
    BY <1>c, <2>1, <2>2
  <2> QED BY <2>1, <2>2, <2>3 DEF TypeOK, Counted
<1>12. CASE Read
  BY <1>12 DEF Read, TypeOK, Counted
<1>13. CASE Merge
  <2>1. recs' \in Records
    BY <1>13, MergeType
  <2>2. pc' = "copy"
        /\ UNCHANGED <<repo, clone, ledger, mem, kept, mine, bounds, history>>
    BY <1>13 DEF Merge
  <2> QED BY <2>1, <2>2 DEF TypeOK, Counted
<1>14. CASE Commit
  BY <1>14 DEF Commit, TypeOK, Counted
<1>15. CASE Push \/ PushFails
  <2>1. /\ pc' = "idle" /\ failures' \in 0 .. MaxFailures
        /\ UNCHANGED <<head, tree, cache, mem, kept, mine, clock, saves, crashes,
                       history>>
    BY <1>15, <1>b DEF Push, PushFails, TypeOK
  <2>2. /\ remote' \in {remote, head} /\ upstream' \in {upstream, head}
        /\ version' \in Nat /\ fetched' \in 0 .. version'
    BY <1>15 DEF Push, PushFails, TypeOK
  <2> QED BY <2>1, <2>2 DEF TypeOK, Counted
<1>16. CASE Crash
  BY <1>16, <1>b DEF Crash, TypeOK, Counted
<1>17. CASE UNCHANGED vars
  BY <1>17 DEF vars, TypeOK, Counted
<1> QED
  BY <1>1, <1>2, <1>3, <1>4, <1>5, <1>6, <1>7, <1>8, <1>9, <1>10, <1>11, <1>12,
     <1>13, <1>14, <1>15, <1>16, <1>17 DEF Next, SyncStep

\* Every reachable state is well typed: no copy of the books holds more slots than
\* were appended and nothing undefined is written back after a reset.
THEOREM TypeCorrect == Spec => []TypeOK
<1>1. Init => TypeOK /\ Counted BY TypeInit
<1>2. TypeOK /\ Counted /\ [Next]_vars => TypeOK' /\ Counted' BY TypeNext
<1> QED BY <1>1, <1>2, PTL DEF Spec

-------------------------------------------------------------------------------
(* The rows of the cloud.                                                  *)

\* Only an import changes the ledger.
LEMMA LedgerSteps ==
  ASSUME [Next]_vars
  PROVE  Import \/ ledger' = ledger
BY DEF Next, SyncStep, vars, CloudPush, SweepLoads, SweepSaves, SweepEnds,
       BooksAppend, Fetch, Carry, Reset, Restore, Truncate, Read, Merge,
       CopyFiles, Commit, Push, PushFails, Crash

LEMMA ImportStep ==
  ASSUME TypeOK, Import
  PROVE  /\ \A row \in tree.delta : Has(row)'
         /\ \A row : Has(row) => Has(row)'
         /\ NoRowTwice => NoRowTwice'
<1> DEFINE S == {row \in tree.delta : ~Has(row)}
<1>1. S \in SUBSET Rows
  BY CopyUpdate DEF TypeOK
<1>2. ledger \in Seq(Rows) /\ ledger' = ledger \o SetToSeq(S)
  BY DEF Import, TypeOK
<1>3. S \cap {row \in Rows : Has(row)} = {}
  OBVIOUS
<1>4. \A row \in tree.delta : Has(row) \/ row \in S
  OBVIOUS
<1> HIDE DEF S
<1> QED BY <1>1, <1>2, <1>3, <1>4, ImportFacts

\* The import is idempotent: no row is imported a second time, whatever died or
\* was rejected in between.
THEOREM NoRowTwiceCorrect == Spec => []NoRowTwice
<1>1. Init => NoRowTwice
  BY DEF Init, NoRowTwice
<1>2. TypeOK /\ NoRowTwice /\ [Next]_vars => NoRowTwice'
  <2> SUFFICES ASSUME TypeOK, NoRowTwice, [Next]_vars PROVE NoRowTwice'
    OBVIOUS
  <2>1. CASE Import BY <2>1, ImportStep
  <2>2. CASE ledger' = ledger BY <2>2 DEF NoRowTwice
  <2> QED BY <2>1, <2>2, LedgerSteps
<1> QED BY <1>1, <1>2, TypeCorrect, PTL DEF Spec

\* Where the rows are that the remote is about to lose: the delta the sync works
\* on is the one it fetched until it is imported, and in the ledger afterwards;
\* and what it fetched is still what the remote has, or its push is refused.
KeptInv ==
  /\ CloudRowsAreKept
  /\ fetched = version => upstream = remote
  /\ pc \in {"restore", "import"} => tree.delta = upstream.delta
  /\ pc \in {"truncate", "read", "merge", "copy", "commit", "push"} =>
       \A row \in upstream.delta : Has(row)

LEMMA KeptNext == TypeOK /\ Counted /\ KeptInv /\ [Next]_vars => KeptInv'
<1> SUFFICES ASSUME TypeOK, Counted, KeptInv, [Next]_vars PROVE KeptInv'
  OBVIOUS
<1>l. ~Import => \A row : Has(row)' <=> Has(row)
  BY LedgerSteps DEF Has
<1>t. tree \in Copy /\ tree.books \in 0 .. MaxSlots /\ version \in Nat
      /\ fetched \in 0 .. version
  BY CopyUpdate DEF TypeOK
<1>1. ASSUME NEW t \in Name, NEW row \in Rows, CloudPush(row, t) PROVE KeptInv'
  <2>1. /\ remote'.delta = remote.delta \cup {row}
        /\ published' = published \cup {row} /\ version' = version + 1
        /\ UNCHANGED <<clone, ledger, pc>>
    BY <1>1, CloudPushFacts DEF CloudPush
  <2>2. fetched' # version'
    BY <1>t, <2>1
  <2>3. CloudRowsAreKept'
    BY <2>1 DEF KeptInv, CloudRowsAreKept, Has
  <2> QED BY <2>1, <2>2, <2>3 DEF KeptInv, Has
\* Steps that leave the repositories, the delta and the ledger alone.
<1>2. ASSUME UNCHANGED <<remote, version, upstream, fetched, ledger, published>>,
             tree'.delta = tree.delta,
             \/ pc' = pc \/ pc' = "idle"
             \/ pc = "restore" /\ pc' = "import"
             \/ /\ pc \in {"truncate", "read", "merge", "copy", "commit"}
                /\ pc' \in {"read", "merge", "copy", "commit", "push", "idle"}
             \/ pc' \in {"carry", "reset"}
      PROVE  KeptInv'
  BY <1>2 DEF KeptInv, CloudRowsAreKept, Has
<1>3. CASE SweepLoads \/ SweepEnds \/ \E t \in Name : SweepSaves(t)
  BY <1>2, <1>3 DEF SweepLoads, SweepEnds, SweepSaves
<1>4. CASE BooksAppend
  <2>1. tree' = [tree EXCEPT !.books = tree.books + 1]
    BY <1>4 DEF BooksAppend
  <2>2. tree'.delta = tree.delta
    BY <1>t, <2>1 DEF Copy
  <2> QED BY <1>2, <1>4, <2>2 DEF BooksAppend
<1>5. CASE Fetch
  BY <1>5 DEF Fetch, KeptInv, CloudRowsAreKept, Has
<1>6. CASE Carry \/ Read \/ Merge \/ Commit \/ Crash
  BY <1>2, <1>6 DEF Carry, Read, Merge, Commit, Crash
<1>7. CASE Reset
  BY <1>7 DEF Reset, KeptInv, CloudRowsAreKept, Has
<1>8. CASE Restore
  <2>1. tree'.delta = tree.delta
    BY <1>8, <1>t DEF Restore, Copy
  <2> QED BY <1>2, <1>8, <2>1 DEF Restore
<1>9. CASE Import
  <2>1. /\ UNCHANGED <<repo, clone, published>>
        /\ pc = "import" /\ pc' = "truncate"
    BY <1>9 DEF Import
  <2>2. /\ \A row \in tree.delta : Has(row)'
        /\ \A row : Has(row) => Has(row)'
    BY <1>9, ImportStep
  <2> QED BY <2>1, <2>2 DEF KeptInv, CloudRowsAreKept
<1>10. CASE Truncate
  <2>1. /\ UNCHANGED <<remote, version, upstream, fetched, ledger, published>>
        /\ pc = "truncate" /\ pc' = "read"
    BY <1>10 DEF Truncate
  <2> QED BY <2>1 DEF KeptInv, CloudRowsAreKept, Has
<1>11. CASE CopyFiles
  <2>1. tree'.delta = tree.delta
    BY <1>11, <1>t DEF CopyFiles, Copy
  <2> QED BY <1>2, <1>11, <2>1 DEF CopyFiles
\* The push replaces the remote by a delta that is empty of what the ledger has.
<1>12. CASE Push \/ PushFails
  <2>1. /\ pc = "push" /\ pc' = "idle" /\ UNCHANGED <<ledger, published>>
    BY <1>12 DEF Push, PushFails
  <2>2. \/ UNCHANGED <<remote, version, upstream, fetched>>
        \/ /\ fetched = version /\ version' = version + 1
           /\ \/ upstream' = remote'
              \/ fetched' = fetched
    BY <1>12 DEF Push, PushFails
  <2>3. CASE UNCHANGED <<remote, version, upstream, fetched>>
    BY <2>1, <2>3 DEF KeptInv, CloudRowsAreKept, Has
  <2>4. CASE /\ fetched = version /\ version' = version + 1
             /\ upstream' = remote' \/ fetched' = fetched
    <3>1. \A row \in published : Has(row)
      BY <2>1, <2>4 DEF KeptInv, CloudRowsAreKept
    <3>2. CloudRowsAreKept'
      BY <2>1, <3>1 DEF CloudRowsAreKept, Has
    <3>3. fetched' = version' => upstream' = remote'
      BY <1>t, <2>4
    <3> QED BY <2>1, <3>2, <3>3 DEF KeptInv
  <2> QED BY <2>2, <2>3, <2>4
<1>13. CASE UNCHANGED vars
  BY <1>13, <1>2 DEF vars
<1> QED
  BY <1>1, <1>3, <1>4, <1>5, <1>6, <1>7, <1>8, <1>9, <1>10, <1>11, <1>12, <1>13
  DEF Next, SyncStep

\* No verdict row of the cloud is lost, whichever pushes race, fail or die: it is
\* in the ledger or still in the delta at the remote.
THEOREM KeptCorrect == Spec => []CloudRowsAreKept
<1>1. Init => KeptInv
  BY DEF Init, KeptInv, CloudRowsAreKept
<1>2. Init => TypeOK /\ Counted BY TypeInit
<1>3. TypeOK /\ Counted /\ [Next]_vars => TypeOK' /\ Counted' BY TypeNext
<1>4. KeptInv => CloudRowsAreKept BY DEF KeptInv
<1> QED BY <1>1, <1>2, <1>3, <1>4, KeptNext, PTL DEF Spec

-------------------------------------------------------------------------------
(* The records.                                                            *)

\* With sweeps and syncs apart, what a sweep holds in memory and what the merge
\* has read is what the file has; and no copy has a record of the future.
RecordsInv ==
  /\ mem # NoSweep => pc = "idle" /\ mem = recs
  /\ pc = "merge" => mine = recs
  /\ \A t \in Name : /\ recs[t].date <= clock
                     /\ \A c \in {remote, upstream, head, tree} :
                          c.recs[t].date <= clock

LEMMA RecordsNext ==
  TypeOK /\ Counted /\ RecordsInv /\ ~SweepsOverlap /\ [Next]_vars =>
    RecordsInv' /\ \A t \in Name : recs'[t].date >= recs[t].date
<1> SUFFICES ASSUME TypeOK, Counted, RecordsInv, ~SweepsOverlap, [Next]_vars
             PROVE  RecordsInv' /\ \A t \in Name : recs'[t].date >= recs[t].date
  OBVIOUS
<1>d. \A r \in Records : \A t \in Name : r[t].date \in Nat /\ r[t] \in Record
  <2>1. MaxTime \in Nat
    BY SyncAssumption, FS_CardinalityType DEF MaxTime
  <2> QED BY <2>1 DEF Records, Record
<1>t. /\ clock \in Nat /\ recs \in Records /\ mine \in Records
      /\ \A c \in {remote, upstream, head, tree} : c \in Copy /\ c.recs \in Records
  <2>1. MaxTime \in Nat
    BY SyncAssumption, FS_CardinalityType DEF MaxTime
  <2> QED BY <2>1, CopyUpdate DEF TypeOK
<1>g. \A t \in Name : recs[t].date >= recs[t].date
  BY <1>d, <1>t
\* Steps that change no record.
<1>1. ASSUME UNCHANGED <<recs, clock>>,
             \A c \in {remote', upstream', head', tree'} :
               \E b \in {remote, upstream, head, tree} : c.recs = b.recs,
             mem' # NoSweep => pc' = "idle" /\ mem' = recs,
             pc' = "merge" => mine' = recs
      PROVE  RecordsInv' /\ \A t \in Name : recs'[t].date >= recs[t].date
  BY <1>1, <1>g DEF RecordsInv
<1>2. ASSUME NEW t \in Name, NEW row \in Rows, CloudPush(row, t)
      PROVE  RecordsInv' /\ \A u \in Name : recs'[u].date >= recs[u].date
  <2>1. /\ remote'.recs = [remote.recs EXCEPT ![t] =
                             [date |-> clock + 1, cloud |-> TRUE]]
        /\ clock' = clock + 1
        /\ UNCHANGED <<clone, recs, mem, pc, mine>>
    BY <1>2, CloudPushFacts DEF CloudPush
  <2>2. \A u \in Name : remote'.recs[u].date <= clock'
    BY SMTT(30), <1>d, <1>t, <2>1 DEF RecordsInv, Records
  <2>3. \A u \in Name : \A c \in {upstream, head, tree} :
          c.recs[u].date <= clock' /\ recs[u].date <= clock'
    BY <1>d, <1>t, <2>1 DEF RecordsInv
  <2> QED BY <1>g, <2>1, <2>2, <2>3 DEF RecordsInv
<1>3. CASE SweepLoads
  BY <1>1, <1>3 DEF SweepLoads, RecordsInv
<1>4. ASSUME NEW t \in Name, SweepSaves(t)
      PROVE  RecordsInv' /\ \A u \in Name : recs'[u].date >= recs[u].date
  <2>1. /\ clock' = clock + 1 /\ mem = recs /\ pc = "idle"
        /\ recs' = [recs EXCEPT ![t] = [date |-> clock + 1, cloud |-> FALSE]]
        /\ mem' = recs'
        /\ UNCHANGED <<repo, clone, pc>>
    BY <1>4 DEF SweepSaves, RecordsInv
  <2>2. \A u \in Name : recs'[u].date = IF u = t THEN clock + 1 ELSE recs[u].date
    BY <1>t, <2>1 DEF Records
  <2>3. \A u \in Name : recs'[u].date >= recs[u].date /\ recs'[u].date <= clock'
    BY <1>d, <1>t, <2>1, <2>2 DEF RecordsInv
  <2>4. \A u \in Name : \A c \in {remote, upstream, head, tree} :
          c.recs[u].date <= clock'
    BY <1>d, <1>t, <2>1 DEF RecordsInv
  <2> QED BY <2>1, <2>3, <2>4 DEF RecordsInv
<1>5. CASE SweepEnds
  BY <1>1, <1>5 DEF SweepEnds, RecordsInv
<1>6. CASE BooksAppend
  <2>1. tree'.recs = tree.recs
    BY <1>6, <1>t DEF BooksAppend, Copy
  <2> QED BY <1>1, <1>6, <2>1 DEF BooksAppend, RecordsInv
<1>7. CASE Fetch \/ Carry \/ Reset \/ Import \/ Read \/ Commit \/ Crash
  BY <1>1, <1>7 DEF Fetch, Carry, Reset, Import, Read, Commit, Crash, RecordsInv
<1>8. CASE Restore
  <2>1. tree'.recs = tree.recs
    BY <1>8, <1>t DEF Restore, Copy
  <2> QED BY <1>1, <1>8, <2>1 DEF Restore, RecordsInv
<1>9. CASE Truncate
  <2>1. tree'.recs = tree.recs
    BY <1>9, <1>t DEF Truncate, Copy
  <2> QED BY <1>1, <1>9, <2>1 DEF Truncate, RecordsInv
\* The merge takes what is newer and keeps the rest.
<1>10. CASE Merge
  <2>1. /\ pc = "merge" /\ mine = recs /\ mem = NoSweep /\ pc' = "copy"
        /\ UNCHANGED <<repo, clone, mem, clock>>
    BY <1>10 DEF Merge, RecordsInv
  <2>2. ASSUME NEW t \in Name
        PROVE  \/ recs'[t] = recs[t]
               \/ recs'[t] = tree.recs[t] /\ tree.recs[t].date > recs[t].date
    BY <1>10, <2>1 DEF Merge
  <2>3. \A t \in Name : recs'[t].date >= recs[t].date /\ recs'[t].date <= clock
    BY <1>d, <1>t, <2>2 DEF RecordsInv
  <2> QED BY <2>1, <2>3 DEF RecordsInv
<1>11. CASE CopyFiles
  <2>1. tree'.recs = recs
    BY <1>11, <1>t DEF CopyFiles, Copy
  <2> QED BY <1>11, <1>g, <2>1 DEF CopyFiles, RecordsInv
<1>12. CASE Push \/ PushFails
  BY <1>1, <1>12 DEF Push, PushFails, RecordsInv
<1>13. CASE UNCHANGED vars
  BY <1>1, <1>13 DEF vars, RecordsInv
<1> QED
  BY <1>2, <1>3, <1>4, <1>5, <1>6, <1>7, <1>8, <1>9, <1>10, <1>11, <1>12, <1>13
  DEF Next, SyncStep

\* A record is only ever replaced by a newer one, when sweeps and syncs do not
\* overlap.
THEOREM RecordsCorrect ==
  ASSUME ~SweepsOverlap
  PROVE  Spec => RecordsNeverAge
<1>1. Init => RecordsInv
  BY DEF Init, RecordsInv, Empty, NoSweep
<1>2. Init => TypeOK /\ Counted BY TypeInit
<1>3. TypeOK /\ Counted /\ [Next]_vars => TypeOK' /\ Counted' BY TypeNext
<1>4. TypeOK /\ Counted /\ RecordsInv /\ [Next]_vars =>
        RecordsInv' /\ [\A t \in Name : recs'[t].date >= recs[t].date]_vars
  BY RecordsNext
<1> QED BY <1>1, <1>2, <1>3, <1>4, PTL DEF Spec, RecordsNeverAge

===============================================================================
