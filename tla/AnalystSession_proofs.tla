------------------------ MODULE AnalystSession_proofs -------------------------
(***************************************************************************)
(* Theorems about AnalystSession, for every set of arms and of kinds of    *)
(* runs and every budget: the types, one desk run per question, stage A,   *)
(* which stands unless the revision after the reference is accepted, and   *)
(* that a session without a failure has no gap.                            *)
(***************************************************************************)
EXTENDS AnalystSession, WellFoundedInduction, TLAPS

USE DEF desk, budgets, once, judged

-------------------------------------------------------------------------------
(* The rules at the end of a turn.                                         *)
LEMMA JudgedRule ==
  ASSUME NEW rule, Judging(rule)
  PROVE  pc = "ended" /\ Applies(rule)
BY DEF Judging

\* What the rules say of the phase and of stage B.
LEMMA RuleFacts ==
  /\ Applies("breach") <=> phase = 1
  /\ Applies("end_stage_b") <=> reveal # NoRec
  /\ Applies("open_pass2") => phase = 1
  /\ Applies("window_twice") => runs = <<>>
  /\ Applies("first_stands") => follow # NoRec
  /\ Applies("crux_followup") => follow = NoRec /\ reveal = NoRec /\ Directional
  /\ Applies("merge_memo") => follow # NoRec /\ reveal = NoRec
  /\ Applies("reference_reveal") => Answer # 0
BY DEF Applies

\* A rule is reached only when the rules above it do not apply.
LEMMA PastBreach ==
  ASSUME NEW rule \in {"crux_followup", "merge_memo", "end_stage_b", "reference_reveal",
                       "first_stands", "force_report", "deliver"},
         Judging(rule)
  PROVE  phase # 1
<1>1. PICK i \in 1 .. 12 : Order[i] = rule /\ \A j \in 1 .. (i - 1) : ~Applies(Order[j])
  BY DEF Judging, Order
<1>2. i >= 6
  BY <1>1 DEF Order
<1>3. ~Applies(Order[5])
  BY <1>1, <1>2
<1> QED BY <1>3, RuleFacts DEF Order

LEMMA PastStageB ==
  ASSUME NEW rule \in {"reference_reveal", "first_stands", "force_report", "deliver"},
         Judging(rule)
  PROVE  reveal = NoRec
<1>1. PICK i \in 1 .. 12 : Order[i] = rule /\ \A j \in 1 .. (i - 1) : ~Applies(Order[j])
  BY DEF Judging, Order
<1>2. i >= 9
  BY <1>1 DEF Order
<1>3. ~Applies(Order[8])
  BY <1>1, <1>2
<1> QED BY <1>3, RuleFacts DEF Order

-------------------------------------------------------------------------------
(* The answer run: the last complete one, or the last with a base.         *)
LEMMA LastIn ==
  ASSUME NEW n \in Nat, NEW S, S \subseteq 1 .. n, S # {}
  PROVE  LastOf(S) \in S
<1> DEFINE R == OpToRel(<, Nat)
           T == {k \in Nat : k <= n /\ n - k \in S}
<1>1. T \subseteq Nat /\ T # {}
  <2>1. PICK x \in S : TRUE
    OBVIOUS
  <2>2. x \in Nat /\ x <= n /\ n - (n - x) = x
    BY <2>1
  <2>3. n - x \in T
    BY <2>2
  <2> QED BY <2>3
<1>2. PICK k \in T : \A y \in T : ~(<<y, k>> \in R)
  <2>1. IsWellFoundedOn(R, Nat)
    BY NatLessThanWellFounded
  <2> HIDE DEF R, T
  <2> QED BY <1>1, <2>1, WFMin
<1>3. ASSUME NEW y \in S PROVE y <= n - k
  <2>1. y \in Nat /\ y <= n /\ n - y \in Nat /\ n - (n - y) = y
    OBVIOUS
  <2>2. n - y \in T
    BY <2>1
  <2>3. ~(n - y < k)
    BY <1>2, <2>2 DEF OpToRel
  <2>4. k \in Nat /\ k <= n
    BY <1>2
  <2> HIDE DEF T, R
  <2> QED BY <2>1, <2>3, <2>4
<1>4. n - k \in S
  BY <1>2
<1>5. \E i \in S : \A j \in S : j <= i
  BY <1>3, <1>4
<1> QED BY <1>5 DEF LastOf

LEMMA AnswerIn ==
  ASSUME runs \in Seq(RunRec), Answer # 0
  PROVE  Answer \in 1 .. Len(runs) /\ Completed(Answer)
<1> DEFINE full == {i \in All : Completed(i) /\ runs[i].values = "all"}
           any  == {i \in All : Completed(i)}
<1>1. full \subseteq 1 .. Len(runs) /\ any \subseteq 1 .. Len(runs) /\ Len(runs) \in Nat
  BY DEF All
<1>2. (full # {} => LastOf(full) \in full) /\ (any # {} => LastOf(any) \in any)
  BY <1>1, LastIn
<1>3. Answer \in full \/ Answer \in any
  BY <1>2 DEF Answer
<1> QED BY <1>1, <1>3

-------------------------------------------------------------------------------
(* Type correctness, with what a session that goes on has left: an error of *)
(* the server to spare, and no stage B in a last turn.                     *)
Shape ==
  /\ pc # "done" => errors \in 0 .. 1
  /\ pc \in {"forced", "exhausted", "recover"} => reveal = NoRec
  /\ follow # NoRec \/ reveal # NoRec => phase # 1

TInv == TypeOK /\ Shape

\* The report of a turn, and the ones kept aside.
LEMMA WrittenType ==
  ASSUME TypeOK, NEW text \in Texts
  PROVE  Written(text) \in Reports
BY DEF TypeOK, Written, Reports

LEMMA NoReportType ==
  ASSUME TypeOK
  PROVE  NoReport \in Reports
BY DEF TypeOK, NoReport, Reports, Texts

LEMMA StageAReportType ==
  ASSUME TypeOK
  PROVE  StageAReport \in Reports
BY NoReportType DEF TypeOK, StageAReport

LEMMA NoReplyType == NoReply \in Replies
BY DEF NoReply, Replies, Texts

\* A record kept of the reveal is not NoRec.
LEMMA RevealIsRec ==
  ASSUME NEW n \in Nat, NEW s \in 0 .. n, NEW r \in [text : Texts, at : 0 .. n],
         NEW a \in 0 .. n
  PROVE  [start |-> s, report |-> r, answer |-> a] # NoRec
BY NoRecAssumption

LEMMA ZeroIn ==
  /\ 0 \in 0..(MaxRefused + 1) /\ 0 \in 0..MaxSearch /\ 0 \in 0..Cap /\ 0 \in 0..2
  /\ 0 \in 0..MaxFree
BY BoundsAssumption

LEMMA TypeInit == Init => TInv
<1> SUFFICES ASSUME Init PROVE TInv
  OBVIOUS
<1>1. arm \in Arms /\ arm.desk \in Nat /\ arm.two_pass \in BOOLEAN
  BY ArmsAssumption DEF Init
<1>2. runs = <<>> /\ runs \in Seq(RunRec) /\ Len(runs) = 0
  BY DEF Init
<1>3. NoReport \in Reports
  BY <1>2 DEF NoReport, Reports, Texts
<1>4. TypeOK
  <2>1. phase \in 0 .. 2
    BY <1>1 DEF Init
  <2>2. report \in Reports /\ reply \in Replies
    BY <1>3, NoReplyType DEF Init
  <2>3. cap \in Nat /\ Len(runs) <= cap
    BY <1>1, <1>2 DEF Init
  <2>4. /\ pc = "ask" /\ retried = FALSE /\ continued = FALSE /\ desk_only = FALSE
        /\ refused = 0 /\ search = 0 /\ primary = 0 /\ errors = 0 /\ free = 0
        /\ follow = NoRec /\ reveal = NoRec /\ outcome = "none" /\ failure = "none"
    BY DEF Init
  <2>5. /\ refused \in 0..(MaxRefused + 1) /\ search \in 0..MaxSearch
        /\ primary \in 0..Cap /\ errors \in 0..2 /\ free \in 0..MaxFree
    BY <2>4, ZeroIn
  <2> QED BY <1>1, <1>2, <2>1, <2>2, <2>3, <2>4, <2>5 DEF TypeOK
<1>5. Shape
  BY DEF Init, Shape
<1> QED BY <1>4, <1>5 DEF TInv

\* How stage B ends: no run is added, and a run after the reveal that does not
\* count is marked.
SomeStageB(text) == \E content \in BOOLEAN : EndStageB(text, content)

LEMMA StageBType ==
  ASSUME TypeOK, reveal # NoRec, phase # 1, NEW text \in Texts, SomeStageB(text)
  PROVE  /\ pc' = "done" /\ reply' = NoReply /\ failure' = "none"
         /\ runs' \in Seq(RunRec) /\ Len(runs') = Len(runs)
         /\ outcome' \in {"accepted", "stands"}
         /\ report' \in Reports
<1>1. PICK content \in BOOLEAN : EndStageB(text, content)
  BY DEF SomeStageB
<1> DEFINE since == {i \in All : i > reveal.start /\ Completed(i)}
<1>2. /\ pc' = "done" /\ reply' = NoReply /\ failure' = "none"
      /\ outcome' \in {"accepted", "stands"}
  BY <1>1 DEF EndStageB, Ends
<1>3. report' \in Reports
  <2>1. reveal.report \in Reports
    BY DEF TypeOK
  <2>2. report' = Written(text) \/ report' = reveal.report
    BY <1>1 DEF EndStageB
  <2> QED BY <2>1, <2>2, WrittenType
<1>4. runs' = runs \/ (since # {} /\ runs' = [runs EXCEPT ![LastOf(since)].rejected = TRUE])
  BY <1>1 DEF EndStageB
<1>5. runs \in Seq(RunRec)
  BY DEF TypeOK
<1>6. CASE since # {} /\ runs' = [runs EXCEPT ![LastOf(since)].rejected = TRUE]
  <2>1. since \subseteq 1 .. Len(runs) /\ Len(runs) \in Nat
    BY <1>5 DEF All
  <2>2. LastOf(since) \in 1 .. Len(runs)
    BY <1>6, <2>1, LastIn
  <2> HIDE DEF since
  <2>3. [runs[LastOf(since)] EXCEPT !.rejected = TRUE] \in RunRec
    <3>1. runs[LastOf(since)] \in RunRec
      BY <1>5, <2>2
    <3> QED BY <3>1 DEF RunRec
  <2> QED BY <1>2, <1>3, <1>5, <1>6, <2>2, <2>3
<1> QED BY <1>2, <1>3, <1>4, <1>5, <1>6

LEMMA RaisesType ==
  ASSUME TInv, Raises
  PROVE  TInv'
<1>1. /\ pc' = "raised" /\ UNCHANGED arm
      /\ cap' = 0 /\ runs' = <<>> /\ refused' = 0
      /\ search' = 0 /\ primary' = 0 /\ errors' = 0 /\ free' = 0
      /\ retried' = FALSE /\ continued' = FALSE /\ desk_only' = FALSE /\ phase' = 0
      /\ follow' = NoRec /\ reveal' = NoRec /\ outcome' = "none"
      /\ reply' = NoReply /\ report' = NoReport /\ failure' = "none"
  BY DEF Raises
<1>2. runs' \in Seq(RunRec) /\ Len(runs') = 0
  BY <1>1
<1>3. report' \in Reports'
  BY <1>1, <1>2 DEF Reports, NoReport, Texts
<1>4. reply' \in Replies
  BY <1>1, NoReplyType
<1>5. /\ refused' \in 0..(MaxRefused + 1) /\ search' \in 0..MaxSearch
      /\ primary' \in 0..Cap /\ errors' \in 0..2 /\ free' \in 0..MaxFree
  BY <1>1, ZeroIn
<1>6. arm' \in Arms
  BY <1>1 DEF TInv, TypeOK
<1>7. TypeOK'
  <2>1. retried' \in BOOLEAN /\ continued' \in BOOLEAN /\ desk_only' \in BOOLEAN
    BY <1>1
  <2>2. /\ pc' = "raised" /\ cap' = 0 /\ phase' = 0 /\ follow' = NoRec /\ reveal' = NoRec
        /\ outcome' = "none" /\ failure' = "none"
    BY <1>1
  <2> QED BY <1>2, <1>3, <1>4, <1>5, <1>6, <2>1, <2>2 DEF TypeOK
<1>8. Shape'
  BY <1>1 DEF Shape
<1> QED BY <1>7, <1>8 DEF TInv

LEMMA BatchType ==
  ASSUME TInv,
         \/ ToolCalls \/ Search \/ SearchOfPrimary \/ FreeCall \/ DeskRefuses
         \/ Raises \/ BatchEnds
  PROVE  TInv'
<1> USE DEF Dispatching, TInv, TypeOK, Shape, Reports
<1>1. CASE ToolCalls
  BY <1>1 DEF ToolCalls
<1>2. CASE Search
  BY <1>2, BoundsAssumption DEF Search, SearchOpen
<1>3. CASE SearchOfPrimary
  BY <1>3, BoundsAssumption DEF SearchOfPrimary, SearchOpen
<1>4. CASE FreeCall
  BY <1>4, BoundsAssumption DEF FreeCall
<1>5. CASE DeskRefuses
  BY <1>5, BoundsAssumption DEF DeskRefuses, DeskOpen
<1>6. CASE Raises
  BY <1>6, RaisesType
<1>7. CASE BatchEnds
  <2>1. /\ UNCHANGED <<arm, runs, refused, search, primary, errors, free, retried, continued,
                       desk_only, follow, reveal, outcome, report>>
        /\ pc = "more" /\ reply' \in {reply, NoReply}
        /\ failure' \in {failure, "none", "two_pass_breach"}
        /\ \/ cap' = Reopened /\ phase' = 2 /\ pc' = "ask"
           \/ UNCHANGED <<cap, phase>> /\ pc' \in {"done", "ask"}
           \/ UNCHANGED <<cap, phase>> /\ pc' = "exhausted" /\ reveal = NoRec
    BY <1>7 DEF BatchEnds, OpenPass2, Asks, Ends
  <2>2. cap' \in Nat /\ Len(runs') <= cap'
    BY <2>1 DEF Reopened
  <2>3. reply' \in Replies
    BY <2>1, NoReplyType
  <2> QED BY SMTT(30), <2>1, <2>2, <2>3
<1> QED BY <1>1, <1>2, <1>3, <1>4, <1>5, <1>6, <1>7

LEMMA DeskRunType ==
  ASSUME TInv, NEW k \in Kinds, DeskRun(k)
  PROVE  TInv'
<1>1. runs \in Seq(RunRec) /\ Len(runs) \in Nat /\ cap \in Nat
  BY DEF TInv, TypeOK
<1>2. Run(k) \in RunRec
  BY KindsAssumption DEF Run, RunRec, TInv, TypeOK
<1>3. runs' = Append(runs, Run(k))
  BY DEF DeskRun
<1>4. runs' \in Seq(RunRec) /\ Len(runs') = Len(runs) + 1
  BY <1>1, <1>2, <1>3
<1>5. cap' \in Nat /\ Len(runs') <= cap'
  BY <1>1, <1>4 DEF DeskRun, DeskOpen
<1>6. \A r \in Reports : r \in Reports'
  BY <1>1, <1>4 DEF Reports
<1>7. /\ pc' = "more" /\ pc \in {"dispatch", "more"}
      /\ UNCHANGED <<arm, once, judged, refused, search, primary, errors, free>>
  BY DEF DeskRun, Dispatching
<1>8. follow' = NoRec \/ follow' \in [start : 1 .. Len(runs'), report : Reports', merged : BOOLEAN]
  BY <1>1, <1>4, <1>6, <1>7 DEF TInv, TypeOK
<1>9. reveal' = NoRec
       \/ reveal' \in [start : 1 .. Len(runs'), report : Reports', answer : 1 .. Len(runs')]
  BY <1>1, <1>4, <1>6, <1>7 DEF TInv, TypeOK
<1>10. report' \in Reports'
  BY <1>6, <1>7 DEF TInv, TypeOK
<1>11. TypeOK'
  BY <1>4, <1>5, <1>7, <1>8, <1>9, <1>10 DEF TInv, TypeOK
<1>12. Shape'
  BY <1>7 DEF TInv, Shape
<1> QED BY <1>11, <1>12 DEF TInv

\* A step that ends stage B, whether the model or the server ended it.
LEMMA StageBStepType ==
  ASSUME TInv, reveal # NoRec, phase # 1, NEW text \in Texts, SomeStageB(text),
         errors' \in 0 .. 2,
         UNCHANGED <<arm, cap, refused, search, primary, free, retried, continued, desk_only,
                     phase, follow, reveal>>
  PROVE  TInv'
<1>1. /\ pc' = "done" /\ reply' = NoReply /\ failure' = "none"
      /\ runs' \in Seq(RunRec) /\ Len(runs') = Len(runs)
      /\ outcome' \in {"accepted", "stands"}
      /\ report' \in Reports
  BY StageBType DEF TInv
<1>2. Reports' = Reports
  BY <1>1 DEF Reports
<1>3. reply' \in Replies
  BY <1>1, NoReplyType
<1>4. TypeOK'
  BY <1>1, <1>2, <1>3 DEF TInv, TypeOK
<1>5. Shape'
  BY <1>1 DEF TInv, Shape
<1> QED BY <1>4, <1>5 DEF TInv

\* A turn without a tool call, and the last one.
LEMMA TurnType ==
  ASSUME TInv, NEW r \in Replies, TurnEnds(r) \/ LastTurn(r) \/ Recover(r)
  PROVE  TInv'
<1>0. r.text \in Texts /\ "memo" \in Texts
  BY DEF Replies, Texts
<1>1. CASE TurnEnds(r)
  <2>1. report' \in Reports
    BY <1>0, <1>1, WrittenType DEF TurnEnds, TInv
  <2>2. Reports' = Reports
    BY <1>1 DEF TurnEnds, Reports
  <2>3. /\ errors' \in 0 .. 1 /\ pc' = "ended" /\ reply' = r
        /\ UNCHANGED <<arm, desk, search, primary, free, once, failure>>
    BY <1>1 DEF TurnEnds, TInv, Shape
  <2>4. TypeOK'
    BY <2>1, <2>2, <2>3 DEF TInv, TypeOK
  <2> QED BY <2>3, <2>4 DEF TInv, Shape
<1>2. CASE LastTurn(r) \/ Recover(r)
  <2>1. /\ pc \in {"forced", "exhausted", "recover"} /\ errors \in 0 .. 1 /\ reveal = NoRec
        /\ UNCHANGED <<arm, desk, search, primary, free, once>>
        /\ errors' = IF r.reason = "server_error" THEN errors + 1 ELSE errors
        /\ reply' = NoReply
    BY <1>2 DEF LastTurn, Recover, Answered, TInv, Shape, Ends, AsksForBrief
  <2>2. errors' \in 0 .. 2 /\ (r.reason = "length" => errors' \in 0 .. 1)
    BY <2>1
  <2>3. report' \in Reports
    BY <1>0, <1>2, WrittenType, NoReportType DEF LastTurn, Recover, TInv, TypeOK
  <2>4. Reports' = Reports
    BY <2>1 DEF Reports
  <2>5. /\ pc' = "done" \/ (pc' = "recover" /\ r.reason = "length")
        /\ failure' \in {failure, "none", "server_error", "report_not_delivered",
                         "brief_not_delivered", "two_pass_breach"}
    BY <1>2 DEF LastTurn, Recover, Ends, AsksForBrief, CutOff
  <2>6. reply' \in Replies
    BY <2>1, NoReplyType
  <2>7. TypeOK'
    BY <2>1, <2>2, <2>3, <2>4, <2>5, <2>6 DEF TInv, TypeOK
  <2> QED BY <2>1, <2>2, <2>5, <2>7 DEF TInv, Shape
<1> QED BY <1>1, <1>2

\* The rules that keep every record.
LEMMA SimpleRuleType ==
  ASSUME TInv,
         \/ WindowRetry \/ WindowTwice \/ DeskContinuation \/ PassEnds \/ FirstStands
         \/ ForceReport \/ Deliver
  PROVE  TInv'
<1>1. /\ UNCHANGED <<arm, runs, refused, search, primary, errors, free, follow, reveal, outcome>>
      /\ pc = "ended" /\ reply' = NoReply
  BY DEF WindowRetry, WindowTwice, DeskContinuation, PassEnds, FirstStands, ForceReport, Deliver,
         OpenPass2, Asks, Ends, Judging, AsksForBrief
<1>2. /\ pc' \in {"ask", "done", "forced", "recover"}
      /\ failure' \in {failure, "none", "window_exhausted_twice", "two_pass_breach"}
      /\ phase' \in {phase, 2}
  BY DEF WindowRetry, WindowTwice, DeskContinuation, PassEnds, FirstStands, ForceReport, Deliver,
         OpenPass2, Asks, Ends, Judging, AsksForBrief
<1>3. retried' \in BOOLEAN /\ continued' \in BOOLEAN /\ desk_only' \in BOOLEAN
  BY DEF WindowRetry, WindowTwice, DeskContinuation, PassEnds, FirstStands, ForceReport, Deliver,
         OpenPass2, Asks, Ends, TInv, TypeOK
<1>4. cap' \in {cap, Reopened}
  BY DEF WindowRetry, WindowTwice, DeskContinuation, PassEnds, FirstStands, ForceReport, Deliver,
         OpenPass2, Asks, Ends
<1>5. report' \in Reports
  <2>1. FirstStands => follow # NoRec /\ report' = follow.report
    BY JudgedRule, RuleFacts DEF FirstStands
  <2>2. WindowTwice => report' \in Reports
    BY NoReportType DEF WindowTwice, TInv
  <2>3. ~FirstStands /\ ~WindowTwice => report' = report
    BY DEF WindowRetry, DeskContinuation, PassEnds, ForceReport, Deliver, OpenPass2
  <2> QED BY <2>1, <2>2, <2>3 DEF TInv, TypeOK
<1>6. pc' \in {"forced", "recover"} => reveal = NoRec
  <2>1. pc' \in {"forced", "recover"} => ForceReport \/ Deliver
    BY DEF WindowRetry, WindowTwice, DeskContinuation, PassEnds, FirstStands, OpenPass2, Asks, Ends
  <2>2. ForceReport \/ Deliver => reveal = NoRec
    BY PastStageB DEF ForceReport, Deliver
  <2> QED BY <2>1, <2>2
<1>7. cap' \in Nat /\ Len(runs) <= cap' /\ Len(runs) \in Nat
  BY <1>4 DEF TInv, TypeOK, Reopened
<1>8. Reports' = Reports /\ reply' \in Replies
  BY <1>1, NoReplyType DEF Reports
<1>9. TypeOK'
  BY <1>1, <1>2, <1>3, <1>5, <1>7, <1>8 DEF TInv, TypeOK
<1>10. Shape'
  BY <1>1, <1>2, <1>6 DEF TInv, Shape
<1> QED BY <1>9, <1>10 DEF TInv

\* Sending a question needs an answer run, so there is one to count from.
LEMMA Asked ==
  ASSUME TInv, Answer # 0
  PROVE  /\ Answer \in 1 .. Len(runs) /\ Len(runs) \in 1 .. Len(runs) /\ Len(runs) \in Nat
         /\ Reopened \in Nat /\ Len(runs) <= Reopened /\ Reopened <= cap + 1
<1>1. runs \in Seq(RunRec) /\ cap \in Nat /\ Len(runs) <= cap
  BY DEF TInv, TypeOK
<1>2. Answer \in 1 .. Len(runs) /\ Len(runs) \in Nat
  BY <1>1, AnswerIn
<1> QED BY <1>1, <1>2 DEF Reopened

LEMMA CruxType ==
  ASSUME TInv, CruxFollowup
  PROVE  TInv' /\ follow' # NoRec
<1>1. reveal = NoRec /\ Answer # 0 /\ phase # 1 /\ pc = "ended"
  BY JudgedRule, RuleFacts, PastBreach DEF CruxFollowup, Directional
<1>2. /\ pc' = "ask" /\ reply' = NoReply /\ cap' = Reopened /\ desk_only' = TRUE
      /\ follow' = [start |-> Len(runs), report |-> report, merged |-> FALSE]
      /\ UNCHANGED <<arm, runs, refused, search, primary, errors, free, retried, continued,
                     phase, reveal, outcome, report, failure>>
  BY DEF CruxFollowup, Asks
<1>3. /\ Len(runs) \in 1 .. Len(runs) /\ Len(runs) \in Nat /\ cap' \in Nat
      /\ Len(runs) <= cap'
  BY <1>1, <1>2, Asked
<1>4. report \in Reports
  BY DEF TInv, TypeOK
<1>5. follow' \in [start : 1 .. Len(runs), report : Reports, merged : BOOLEAN]
  BY <1>2, <1>3, <1>4
<1>6. follow' # NoRec
  <2>1. report \in [text : Texts, at : Nat] /\ Len(runs) \in Nat
    BY <1>3, <1>4 DEF Reports
  <2>2. follow' \in [start : Nat, report : [text : Texts, at : Nat], merged : BOOLEAN]
    BY <1>2, <2>1
  <2> QED BY <2>2, NoRecAssumption
<1>7. Reports' = Reports /\ reply' \in Replies
  BY <1>2, NoReplyType DEF Reports
<1>8. desk_only' \in BOOLEAN
  BY <1>2
<1>9. TypeOK'
  BY <1>2, <1>3, <1>5, <1>7, <1>8 DEF TInv, TypeOK
<1>10. Shape'
  BY <1>1, <1>2 DEF TInv, Shape
<1> QED BY <1>6, <1>9, <1>10 DEF TInv

LEMMA RevealType ==
  ASSUME TInv, ReferenceReveal
  PROVE  TInv' /\ reveal' # NoRec
<1>1. reveal = NoRec /\ Answer # 0 /\ phase # 1 /\ pc = "ended"
  BY JudgedRule, RuleFacts, PastBreach, PastStageB DEF ReferenceReveal
<1>2. /\ pc' = "ask" /\ reply' = NoReply /\ cap' = Reopened /\ desk_only' = TRUE
      /\ reveal' = [start |-> Len(runs), report |-> StageAReport, answer |-> Answer]
      /\ UNCHANGED <<arm, runs, refused, search, primary, errors, free, retried, continued,
                     phase, follow, outcome, report, failure>>
  BY DEF ReferenceReveal, Asks
<1>3. /\ Len(runs) \in 1 .. Len(runs) /\ Len(runs) \in Nat /\ cap' \in Nat
      /\ Len(runs) <= cap' /\ Answer \in 1 .. Len(runs)
  BY <1>1, <1>2, Asked
<1>4. StageAReport \in Reports
  BY StageAReportType DEF TInv
<1>5. reveal' \in [start : 1 .. Len(runs), report : Reports, answer : 1 .. Len(runs)]
  BY <1>2, <1>3, <1>4
<1>6. reveal' # NoRec
  BY <1>2, <1>3, <1>4, RevealIsRec DEF Reports
<1>7. Reports' = Reports /\ reply' \in Replies
  BY <1>2, NoReplyType DEF Reports
<1>8. desk_only' \in BOOLEAN
  BY <1>2
<1>9. TypeOK'
  BY <1>2, <1>3, <1>5, <1>7, <1>8 DEF TInv, TypeOK
<1>10. Shape'
  BY <1>1, <1>2 DEF TInv, Shape
<1> QED BY <1>6, <1>9, <1>10 DEF TInv

LEMMA MergeType ==
  ASSUME TInv, NEW text \in Texts, MergeMemo(text)
  PROVE  TInv' /\ follow' # NoRec /\ follow'.start = follow.start /\ follow # NoRec
<1>1. follow # NoRec /\ phase # 1 /\ reveal = NoRec /\ pc = "ended"
  BY JudgedRule, RuleFacts, PastBreach DEF MergeMemo
<1>2. /\ reply' = [reply EXCEPT !.text = text] /\ report' = Written(text)
      /\ follow' = [follow EXCEPT !.merged = TRUE]
      /\ UNCHANGED <<pc, arm, budgets, retried, continued, desk_only, phase, reveal, outcome,
                     failure>>
  BY DEF MergeMemo
<1>3. follow \in [start : 1 .. Len(runs), report : Reports, merged : BOOLEAN]
  BY <1>1 DEF TInv, TypeOK
<1>4. follow' = [start |-> follow.start, report |-> follow.report, merged |-> TRUE]
  BY <1>2, <1>3
<1>5. /\ follow' \in [start : 1 .. Len(runs), report : Reports, merged : BOOLEAN]
      /\ follow'.start = follow.start
  BY <1>3, <1>4
<1>6. follow' # NoRec
  <2>1. Len(runs) \in Nat /\ follow.start \in Nat /\ follow.report \in [text : Texts, at : Nat]
    BY <1>3 DEF TInv, TypeOK, Reports
  <2>2. follow' \in [start : Nat, report : [text : Texts, at : Nat], merged : BOOLEAN]
    BY <1>4, <2>1
  <2> QED BY <2>2, NoRecAssumption
<1>7. reply' \in Replies
  BY <1>2 DEF TInv, TypeOK, Replies
<1>8. report' \in Reports /\ Reports' = Reports
  BY <1>2, WrittenType DEF TInv, Reports
<1>9. TypeOK'
  BY <1>2, <1>5, <1>7, <1>8 DEF TInv, TypeOK
<1>10. Shape'
  BY <1>1, <1>2 DEF TInv, Shape
<1> QED BY <1>1, <1>5, <1>6, <1>9, <1>10 DEF TInv

LEMMA TypeNext == TInv /\ [Next]_vars => TInv'
<1> SUFFICES ASSUME TInv, [Next]_vars PROVE TInv'
  OBVIOUS
<1>1. CASE SecondError
  <2>1. UNCHANGED <<arm, cap, refused, search, primary, free, retried, continued, desk_only,
                    phase, follow, reveal>> /\ errors' = 2 /\ errors = 1 /\ pc = "ask"
    BY <1>1 DEF SecondError
  <2>2. CASE reveal # NoRec
    <3>1. SomeStageB("empty") /\ phase # 1
      BY <1>1, <2>2 DEF SecondError, SomeStageB, TInv, Shape
    <3> QED BY <2>1, <2>2, <3>1, StageBStepType DEF Texts
  <2>3. CASE reveal = NoRec
    <3>1. /\ pc' = "done" /\ reply' = NoReply /\ report' = NoReport /\ UNCHANGED <<runs, outcome>>
          /\ failure' = "server_error"
      BY <1>1, <2>3 DEF SecondError, Ends
    <3>2. Reports' = Reports /\ report' \in Reports /\ reply' \in Replies
      BY <3>1, NoReportType, NoReplyType DEF Reports, TInv
    <3>3. TypeOK'
      BY <2>1, <3>1, <3>2 DEF TInv, TypeOK
    <3> QED BY <2>1, <3>1, <3>3 DEF TInv, Shape
  <2> QED BY <2>2, <2>3
<1>2. CASE \E content \in BOOLEAN : StageBEnds(content)
  <2>1. /\ reveal # NoRec /\ phase # 1 /\ SomeStageB(reply.text)
        /\ UNCHANGED <<arm, cap, refused, search, primary, errors, free, retried, continued,
                       desk_only, phase, follow, reveal>>
    BY <1>2, JudgedRule, RuleFacts, PastBreach DEF StageBEnds, SomeStageB
  <2>2. reply.text \in Texts /\ errors' \in 0 .. 2
    BY <2>1 DEF TInv, TypeOK, Replies
  <2> QED BY <2>1, <2>2, StageBStepType
<1>3. CASE UNCHANGED vars
  BY <1>3 DEF vars, TInv, TypeOK, Shape, Reports
<1> QED
  BY <1>1, <1>2, <1>3, BatchType, DeskRunType, TurnType, SimpleRuleType, CruxType, RevealType,
     MergeType DEF Next

\* The session's records stay what the module says they are, and no rule but the
\* reopening for a question lets the desk run past its cap, for every budget.
THEOREM TypeCorrect == Spec => []TypeOK
<1>1. TInv => TypeOK
  BY DEF TInv
<1> QED BY <1>1, TypeInit, TypeNext, PTL DEF Spec

-------------------------------------------------------------------------------
(* One run per question.  The cap grows by at most one run with each       *)
(* question, and the first run after a question is the last the cap allows.*)
Grant == arm.desk + Fired(follow) + Fired(reveal) + (IF phase = 2 THEN 1 ELSE 0)

After(rec) == Len(runs) = rec.start \/ (Len(runs) = rec.start + 1 /\ cap = Len(runs))

Granted ==
  /\ cap <= Grant
  /\ reveal # NoRec => After(reveal)
  /\ follow # NoRec /\ reveal = NoRec => After(follow)
  /\ follow # NoRec /\ reveal # NoRec => reveal.start <= follow.start + 1

LEMMA Numbers ==
  ASSUME TInv
  PROVE  /\ cap \in Nat /\ Len(runs) \in Nat /\ Len(runs) <= cap /\ arm.desk \in Nat
         /\ Fired(follow) \in {0, 1} /\ Fired(reveal) \in {0, 1}
         /\ follow # NoRec => follow.start \in Nat /\ follow.start <= Len(runs)
         /\ reveal # NoRec => reveal.start \in Nat /\ reveal.start <= Len(runs)
<1>1. cap \in Nat /\ Len(runs) \in Nat /\ Len(runs) <= cap /\ arm \in Arms
  BY DEF TInv, TypeOK
<1>2. arm.desk \in Nat
  BY <1>1, ArmsAssumption
<1>3. follow # NoRec => follow.start \in Nat /\ follow.start <= Len(runs)
  BY <1>1 DEF TInv, TypeOK
<1>4. reveal # NoRec => reveal.start \in Nat /\ reveal.start <= Len(runs)
  BY <1>1 DEF TInv, TypeOK
<1> QED BY <1>1, <1>2, <1>3, <1>4 DEF Fired

LEMMA GrantedInit == Init => Granted
<1> SUFFICES ASSUME Init PROVE Granted
  OBVIOUS
<1>1. arm.desk \in Nat /\ cap = arm.desk /\ follow = NoRec /\ reveal = NoRec
  BY ArmsAssumption DEF Init
<1> QED BY <1>1 DEF Granted, Grant, Fired

\* Steps that add no run and move neither the cap nor a question.
LEMMA GrantedSame ==
  ASSUME Granted,
         UNCHANGED <<arm, cap, phase, follow, reveal>>, Len(runs') = Len(runs)
  PROVE  Granted'
BY DEF Granted, Grant, After, Fired

LEMMA GrantedNext == TInv /\ TInv' /\ Granted /\ [Next]_vars => Granted'
<1> SUFFICES ASSUME TInv, TInv', Granted, [Next]_vars PROVE Granted'
  OBVIOUS
<1>0. /\ cap \in Nat /\ Len(runs) \in Nat /\ Len(runs) <= cap /\ arm.desk \in Nat
      /\ Fired(follow) \in {0, 1} /\ Fired(reveal) \in {0, 1}
      /\ follow # NoRec => follow.start \in Nat /\ follow.start <= Len(runs)
      /\ reveal # NoRec => reveal.start \in Nat /\ reveal.start <= Len(runs)
  BY Numbers
<1>1. CASE \E k \in Kinds : DeskRun(k)
  <2>1. PICK k \in Kinds : DeskRun(k)
    BY <1>1
  <2>2. Len(runs') = Len(runs) + 1
    BY <2>1 DEF DeskRun, TInv, TypeOK
  <2>3. /\ Len(runs) < cap /\ UNCHANGED <<arm, phase, follow, reveal>>
        /\ cap' = IF follow # NoRec \/ reveal # NoRec THEN Len(runs') ELSE cap
    BY <2>1 DEF DeskRun, DeskOpen, Dispatching
  <2>4. cap' <= cap
    BY <1>0, <2>2, <2>3
  <2>5. cap' <= Grant'
    BY <1>0, <2>3, <2>4 DEF Granted, Grant, Fired
  <2>6. reveal' # NoRec => After(reveal)'
    BY <1>0, <2>2, <2>3 DEF Granted, After
  <2>7. follow' # NoRec /\ reveal' = NoRec => After(follow)'
    BY <1>0, <2>2, <2>3 DEF Granted, After
  <2> QED BY <2>3, <2>5, <2>6, <2>7 DEF Granted
<1>2. CASE Raises
  <2>1. cap' = 0 /\ follow' = NoRec /\ reveal' = NoRec /\ arm' = arm /\ phase' = 0
    BY <1>2 DEF Raises
  <2> QED BY <1>0, <2>1 DEF Granted, Grant, Fired
<1>3. CASE CruxFollowup
  <2>1. follow = NoRec /\ reveal = NoRec /\ Answer # 0
    BY <1>3, JudgedRule, RuleFacts DEF CruxFollowup, Directional
  <2>2. /\ UNCHANGED <<arm, runs, phase, reveal>> /\ cap' = Reopened
        /\ follow'.start = Len(runs) /\ follow' # NoRec
    BY <1>3, CruxType DEF CruxFollowup
  <2>3. cap' <= cap + 1 /\ cap' \in Nat
    BY <2>1, <2>2, Asked
  <2>4. Fired(follow') = Fired(follow) + 1
    BY <2>1, <2>2 DEF Fired
  <2>5. cap' <= Grant'
    BY <1>0, <2>2, <2>3, <2>4 DEF Granted, Grant
  <2> QED BY <2>1, <2>2, <2>5 DEF Granted, After
<1>4. CASE ReferenceReveal
  <2>1. reveal = NoRec /\ Answer # 0
    BY <1>4, JudgedRule, RuleFacts, PastStageB DEF ReferenceReveal
  <2>2. /\ UNCHANGED <<arm, runs, phase, follow>> /\ cap' = Reopened
        /\ reveal'.start = Len(runs) /\ reveal' # NoRec
    BY <1>4, RevealType DEF ReferenceReveal
  <2>3. cap' <= cap + 1 /\ cap' \in Nat
    BY <2>1, <2>2, Asked
  <2>4. Fired(reveal') = Fired(reveal) + 1
    BY <2>1, <2>2 DEF Fired
  <2>5. cap' <= Grant'
    BY <1>0, <2>2, <2>3, <2>4 DEF Granted, Grant
  <2>6. follow # NoRec => Len(runs) <= follow.start + 1
    BY <1>0, <2>1 DEF Granted, After
  <2> QED BY <2>2, <2>5, <2>6 DEF Granted, After
<1>5. CASE \E text \in Texts : MergeMemo(text)
  <2>1. /\ UNCHANGED <<arm, budgets, phase, reveal>>
        /\ follow' # NoRec /\ follow # NoRec /\ follow'.start = follow.start
    BY <1>5, MergeType DEF MergeMemo
  <2> QED BY <2>1 DEF Granted, Grant, After, Fired
<1>6. CASE OpenPass2 /\ phase = 1
  <2>1. /\ UNCHANGED <<arm, runs, follow, reveal>> /\ cap' = Reopened /\ phase' = 2
        /\ follow = NoRec /\ reveal = NoRec
    BY <1>6 DEF OpenPass2, TInv, Shape
  <2>2. cap' <= cap + 1 /\ cap' \in Nat
    BY <1>0, <2>1 DEF Reopened
  <2> QED BY <1>0, <1>6, <2>1, <2>2 DEF Granted, Grant, Fired
<1>7. CASE \E content \in BOOLEAN : StageBEnds(content)
  <2>1. /\ reveal # NoRec /\ phase # 1 /\ SomeStageB(reply.text)
        /\ UNCHANGED <<arm, cap, phase, follow, reveal>>
    BY <1>7, JudgedRule, RuleFacts, PastBreach DEF StageBEnds, SomeStageB
  <2>2. Len(runs') = Len(runs)
    BY <2>1, StageBType DEF TInv, TypeOK, Replies
  <2> QED BY <2>1, <2>2, GrantedSame
<1>8. CASE SecondError
  <2>1. UNCHANGED <<arm, cap, phase, follow, reveal>>
    BY <1>8 DEF SecondError
  <2>2. CASE reveal # NoRec
    <3>1. SomeStageB("empty") /\ phase # 1
      BY <1>8, <2>2 DEF SecondError, SomeStageB, TInv, Shape
    <3>2. Len(runs') = Len(runs)
      BY <2>2, <3>1, StageBType DEF TInv, Texts
    <3> QED BY <2>1, <3>2, GrantedSame
  <2>3. CASE reveal = NoRec
    BY <1>8, <2>1, <2>3, GrantedSame DEF SecondError
  <2> QED BY <2>2, <2>3
<1>9. CASE BatchEnds
  <2>1. (OpenPass2 /\ phase = 1) \/ UNCHANGED <<arm, cap, phase, follow, reveal, runs>>
    BY <1>9 DEF BatchEnds
  <2> QED BY <1>6, <2>1, GrantedSame
<1>10. CASE PassEnds
  <2>1. (OpenPass2 /\ phase = 1) \/ UNCHANGED <<arm, cap, phase, follow, reveal, runs>>
    BY <1>10, JudgedRule, RuleFacts DEF PassEnds
  <2> QED BY <1>6, <2>1, GrantedSame
<1>11. CASE \/ ToolCalls \/ Search \/ SearchOfPrimary \/ FreeCall \/ DeskRefuses
            \/ \E r \in Replies : TurnEnds(r) \/ LastTurn(r) \/ Recover(r)
            \/ WindowRetry \/ WindowTwice \/ DeskContinuation \/ FirstStands
            \/ ForceReport \/ Deliver \/ UNCHANGED vars
  <2>1. UNCHANGED <<arm, cap, phase, follow, reveal, runs>>
    BY <1>11
    DEF ToolCalls, Search, SearchOfPrimary, FreeCall, DeskRefuses, Dispatching, TurnEnds,
        LastTurn, Recover, Answered, WindowRetry, WindowTwice, DeskContinuation, FirstStands,
        ForceReport, Deliver, vars
  <2> QED BY <2>1, GrantedSame
<1> QED
  BY <1>1, <1>2, <1>3, <1>4, <1>5, <1>7, <1>8, <1>9, <1>10, <1>11 DEF Next

\* The desk's budget is the grant plus one run for each question asked, and a
\* question gets one run, for every budget and every order of calls.
THEOREM QuestionsCorrect == Spec => []OneRunPerQuestion
<1>1. TInv /\ Granted => OneRunPerQuestion
  <2> SUFFICES ASSUME TInv, Granted PROVE OneRunPerQuestion
    OBVIOUS
  <2>1. Len(runs) <= Grant
    <3>1. Grant \in Nat
      BY Numbers DEF Grant
    <3> QED BY <3>1, Numbers DEF Granted
  <2> QED BY <2>1, Numbers DEF Granted, Grant, After, OneRunPerQuestion
<1> QED BY <1>1, TypeInit, TypeNext, GrantedInit, GrantedNext, PTL DEF Spec

-------------------------------------------------------------------------------
(* Stage A.  The reveal keeps the answer run of the runs before it, and no  *)
(* later step marks or moves one of those.                                 *)
Full(n)  == {i \in All : i <= n /\ Completed(i) /\ runs[i].values = "all"}
Based(n) == {i \in All : i <= n /\ Completed(i)}

AnswerOf(F, B) == IF F # {} THEN LastOf(F) ELSE IF B # {} THEN LastOf(B) ELSE 0

AnswerUpTo(n) == AnswerOf(Full(n), Based(n))

NoneSince == \A i \in All : i > reveal.start => ~Completed(i)

Ended == failure = "none" /\ report = reveal.report /\ NoneSince

StageA ==
  reveal # NoRec =>
    /\ reveal.answer = AnswerUpTo(reveal.start)
    /\ pc = "done" => outcome = "accepted" \/ Ended

\* The answer run depends on the runs up to n alone.
LEMMA SameAnswer ==
  ASSUME NEW n \in Nat,
         \A i \in All : i <= n => i \in All' /\ runs'[i] = runs[i],
         \A i \in All' : i <= n => i \in All
  PROVE  AnswerUpTo(n)' = AnswerUpTo(n)
<1>1. \A i : i \in All /\ i <= n <=> i \in All' /\ i <= n
  OBVIOUS
<1>2. \A i \in All : i <= n => (Completed(i)' <=> Completed(i))
  BY DEF Completed
<1>3. Full(n)' = Full(n) /\ Based(n)' = Based(n)
  BY <1>1, <1>2 DEF Full, Based
<1> QED BY <1>3 DEF AnswerUpTo, AnswerOf, LastOf

\* The runs after n count for nothing when none of them is complete.
LEMMA AnswerIsUpTo ==
  ASSUME runs \in Seq(RunRec), NEW n \in Nat, \A i \in All : i > n => ~Completed(i)
  PROVE  Answer = AnswerUpTo(n)
<1> DEFINE full == {i \in All : Completed(i) /\ runs[i].values = "all"}
           any  == {i \in All : Completed(i)}
<1>1. \A i \in All : Completed(i) => i <= n
  BY DEF All
<1>2. full = Full(n)
  BY <1>1 DEF Full
<1>3. any = Based(n)
  BY <1>1 DEF Based
<1>4. Answer = AnswerOf(full, any)
  BY DEF Answer, AnswerOf
<1> QED BY <1>2, <1>3, <1>4 DEF AnswerUpTo

LEMMA StageBEffect ==
  ASSUME TInv, Granted, reveal # NoRec, phase # 1, reveal' = reveal,
         NEW text \in Texts, SomeStageB(text)
  PROVE  /\ \A i \in All : i <= reveal.start => i \in All' /\ runs'[i] = runs[i]
         /\ All' = All
         /\ outcome' = "accepted" \/ Ended'
<1>1. PICK content \in BOOLEAN : EndStageB(text, content)
  BY DEF SomeStageB
<1> DEFINE since == {i \in All : i > reveal.start /\ Completed(i)}
           good  == Cardinality(since) = 1 /\ runs[LastOf(since)].values = "all" /\ content
<1>2. /\ outcome' = IF good THEN "accepted" ELSE "stands"
      /\ runs' = IF good \/ since = {} THEN runs
                 ELSE [runs EXCEPT ![LastOf(since)].rejected = TRUE]
      /\ report' = IF good /\ text = "memo" THEN Written(text) ELSE reveal.report
      /\ failure' = "none"
  BY <1>1 DEF EndStageB, Ends
<1>3. /\ runs \in Seq(RunRec) /\ Len(runs) \in Nat /\ All = 1 .. Len(runs)
      /\ reveal.start \in Nat /\ Len(runs) <= reveal.start + 1
  BY Numbers DEF TInv, TypeOK, All, Granted, After
<1>4. since \subseteq {reveal.start + 1}
  BY <1>3
<1>5. CASE good
  BY <1>2, <1>5 DEF All
<1>6. CASE ~good /\ since = {}
  <2>1. runs' = runs /\ report' = reveal.report
    BY <1>2, <1>6
  <2>2. NoneSince'
    BY <1>6, <2>1 DEF NoneSince, All, Completed
  <2> QED BY <1>2, <2>1, <2>2 DEF Ended, All
<1>7. CASE ~good /\ since # {}
  <2>1. LastOf(since) \in since
    <3>1. since \subseteq 1 .. Len(runs)
      BY <1>3
    <3> HIDE DEF since
    <3> QED BY <1>3, <1>7, <3>1, LastIn
  <2>2. LastOf(since) = reveal.start + 1
    BY <1>4, <2>1
  <2>3. runs' = [runs EXCEPT ![reveal.start + 1].rejected = TRUE] /\ report' = reveal.report
    BY <1>2, <1>7, <2>2
  <2>4. reveal.start + 1 \in All
    BY <2>1, <2>2
  <2>5. /\ All' = All
        /\ \A i \in All : i # reveal.start + 1 => runs'[i] = runs[i]
        /\ runs'[reveal.start + 1] = [runs[reveal.start + 1] EXCEPT !.rejected = TRUE]
    BY <1>3, <2>3, <2>4 DEF All
  <2>6. runs[reveal.start + 1] \in RunRec
    BY <1>3, <2>4
  <2>7. runs'[reveal.start + 1].rejected = TRUE
    BY <2>5, <2>6 DEF RunRec
  <2>8. \A i \in All : i > reveal.start => i = reveal.start + 1
    BY <1>3
  <2>9. NoneSince'
    BY <2>5, <2>7, <2>8 DEF NoneSince, Completed
  <2>10. Ended'
    BY <1>2, <2>3, <2>9 DEF Ended
  <2>11. \A i \in All : i <= reveal.start => i \in All' /\ runs'[i] = runs[i]
    <3>1. \A i \in All : i <= reveal.start => i # reveal.start + 1
      BY <1>3
    <3> QED BY <2>5, <3>1
  <2> QED BY <2>5, <2>10, <2>11
<1> QED BY <1>5, <1>6, <1>7

\* A step that keeps the reveal and the runs, and does not end the session.
LEMMA StageASame ==
  ASSUME TInv, StageA, UNCHANGED <<reveal, runs>>, pc' # "done"
  PROVE  StageA'
<1> SUFFICES ASSUME reveal # NoRec PROVE StageA'
  BY DEF StageA
<1>1. AnswerUpTo(reveal.start)' = AnswerUpTo(reveal.start)
  BY DEF AnswerUpTo, AnswerOf, Full, Based, LastOf, All, Completed
<1> QED BY <1>1 DEF StageA

LEMMA StageANext == TInv /\ TInv' /\ Granted /\ StageA /\ [Next]_vars => StageA'
<1> SUFFICES ASSUME TInv, TInv', Granted, StageA, [Next]_vars PROVE StageA'
  OBVIOUS
<1>1. CASE UNCHANGED vars
  BY <1>1 DEF vars, StageA, Ended, NoneSince, AnswerUpTo, AnswerOf, Full,
             Based, LastOf, All, Completed
<1>2. CASE Raises \/ CruxFollowup \/ \E text \in Texts : MergeMemo(text)
  <2>1. CASE Raises
    BY <2>1 DEF Raises, StageA
  <2>2. CASE CruxFollowup
    <3>1. reveal = NoRec /\ reveal' = reveal
      BY <2>2, JudgedRule, RuleFacts DEF CruxFollowup
    <3> QED BY <3>1 DEF StageA
  <2>3. CASE \E text \in Texts : MergeMemo(text)
    <3>1. reveal = NoRec /\ reveal' = reveal
      BY <2>3, JudgedRule, RuleFacts DEF MergeMemo
    <3> QED BY <3>1 DEF StageA
  <2> QED BY <1>2, <2>1, <2>2, <2>3
<1>3. CASE \E k \in Kinds : DeskRun(k)
  <2>1. PICK k \in Kinds : DeskRun(k)
    BY <1>3
  <2>2. runs' = Append(runs, Run(k)) /\ pc' = "more" /\ reveal' = reveal
    BY <2>1 DEF DeskRun, Dispatching
  <2>3. runs \in Seq(RunRec) /\ Run(k) \in RunRec
    BY KindsAssumption DEF TInv, TypeOK, Run, RunRec
  <2> SUFFICES ASSUME reveal # NoRec PROVE StageA'
    BY <2>2 DEF StageA
  <2>4. /\ reveal.start \in Nat /\ reveal.start <= Len(runs) /\ Len(runs) \in Nat
    BY Numbers
  <2>5. /\ Len(runs') = Len(runs) + 1 /\ runs' \in Seq(RunRec)
        /\ \A i \in 1 .. Len(runs) : runs'[i] = runs[i]
    BY <2>2, <2>3
  <2>6. All = 1 .. Len(runs) /\ All' = 1 .. (Len(runs) + 1)
    BY <2>3, <2>5 DEF All
  <2>7. /\ \A i \in All : i <= reveal.start => i \in All' /\ runs'[i] = runs[i]
        /\ \A i \in All' : i <= reveal.start => i \in All
    BY <2>4, <2>5, <2>6
  <2>8. AnswerUpTo(reveal.start)' = AnswerUpTo(reveal.start)
    <3> DEFINE n == reveal.start
    <3>1. n' = n
      BY <2>2
    <3>2. \A m \in Nat : m = n => AnswerUpTo(m)' = AnswerUpTo(m)
      <4> SUFFICES ASSUME NEW m \in Nat, m = n PROVE AnswerUpTo(m)' = AnswerUpTo(m)
        OBVIOUS
      <4> QED BY <2>7, SameAnswer
    <3> QED BY <2>4, <3>1, <3>2
  <2> QED BY <2>2, <2>8 DEF StageA
<1>4. CASE ReferenceReveal
  <2>1. /\ reveal'.start = Len(runs) /\ reveal'.answer = Answer /\ runs' = runs /\ pc' = "ask"
    BY <1>4 DEF ReferenceReveal, Asks
  <2>2. runs \in Seq(RunRec) /\ Len(runs) \in Nat
    BY DEF TInv, TypeOK
  <2>3. Answer = AnswerUpTo(Len(runs))
    BY <2>2, AnswerIsUpTo DEF All
  <2>4. AnswerUpTo(reveal.start)' = AnswerUpTo(Len(runs))
    BY <2>1 DEF AnswerUpTo, AnswerOf, Full, Based, LastOf, All, Completed
  <2> QED BY <2>1, <2>3, <2>4 DEF StageA
<1>5. CASE reveal # NoRec /\ reveal' = reveal /\ \E text \in Texts : SomeStageB(text)
  <2>1. PICK text \in Texts : SomeStageB(text)
    BY <1>5
  <2>2. phase # 1
    BY <1>5 DEF TInv, Shape
  <2>3. /\ \A i \in All : i <= reveal.start => i \in All' /\ runs'[i] = runs[i]
        /\ All' = All
        /\ outcome' = "accepted" \/ Ended'
    BY <1>5, <2>1, <2>2, StageBEffect
  <2>4. reveal.start \in Nat
    BY <1>5, Numbers
  <2>5. \A m \in Nat : m = reveal.start => AnswerUpTo(m)' = AnswerUpTo(m)
    BY <2>3, SameAnswer
  <2>6. AnswerUpTo(reveal.start)' = AnswerUpTo(reveal.start)
    BY <1>5, <2>4, <2>5
  <2> QED BY <1>5, <2>3, <2>6 DEF StageA
<1>6. CASE SecondError \/ \E content \in BOOLEAN : StageBEnds(content)
  <2>1. reveal' = reveal
    BY <1>6 DEF SecondError, StageBEnds
  <2>2. reveal # NoRec => \E text \in Texts : SomeStageB(text)
    <3>1. "empty" \in Texts /\ reply.text \in Texts
      BY DEF Texts, TInv, TypeOK, Replies
    <3> QED BY <1>6, <3>1 DEF SecondError, StageBEnds, SomeStageB
  <2> QED BY <1>5, <2>1, <2>2 DEF StageA
<1>7. CASE \E r \in Replies : LastTurn(r) \/ Recover(r)
  <2>1. reveal = NoRec /\ reveal' = reveal
    BY <1>7 DEF LastTurn, Recover, Answered, TInv, Shape
  <2> QED BY <2>1 DEF StageA
<1>8. CASE FirstStands \/ ForceReport \/ Deliver
  <2>1. reveal = NoRec /\ reveal' = reveal
    BY <1>8, PastStageB DEF FirstStands, ForceReport, Deliver
  <2> QED BY <2>1 DEF StageA
<1>9. CASE WindowTwice
  <2>1. runs = <<>> /\ UNCHANGED <<reveal, runs>>
    BY <1>9, JudgedRule, RuleFacts DEF WindowTwice
  <2>2. reveal = NoRec
    BY <2>1 DEF TInv, TypeOK
  <2> QED BY <2>1, <2>2 DEF StageA
<1>10. CASE BatchEnds \/ PassEnds
  <2>1. UNCHANGED <<reveal, runs>>
    BY <1>10 DEF BatchEnds, PassEnds, OpenPass2
  <2>2. CASE reveal = NoRec
    BY <2>1, <2>2 DEF StageA
  <2>3. CASE reveal # NoRec
    <3>1. phase # 1
      BY <2>3 DEF TInv, Shape
    <3>2. BatchEnds
      BY <1>10, <3>1, JudgedRule, RuleFacts DEF PassEnds
    <3>3. pc' # "done"
      BY <3>1, <3>2 DEF BatchEnds
    <3> QED BY <2>1, <3>3, StageASame
  <2> QED BY <2>2, <2>3
<1>11. CASE \/ ToolCalls \/ Search \/ SearchOfPrimary \/ FreeCall \/ DeskRefuses
            \/ \E r \in Replies : TurnEnds(r)
            \/ WindowRetry \/ DeskContinuation
  <2>1. UNCHANGED <<reveal, runs>> /\ pc' # "done"
    BY <1>11
    DEF ToolCalls, Search, SearchOfPrimary, FreeCall, DeskRefuses, Dispatching, TurnEnds,
        WindowRetry, DeskContinuation, Asks
  <2> QED BY <2>1, StageASame
<1> QED
  BY <1>1, <1>2, <1>3, <1>4, <1>6, <1>7, <1>8, <1>9, <1>10, <1>11 DEF Next

\* Whatever happens once the reference is shown, a session whose revision was not
\* accepted ends with the memorandum and the answer run of stage A.
THEOREM StageACorrect == Spec => []StageAStands
<1>1. Init => StageA
  BY DEF Init, StageA
<1>2. TInv /\ StageA => StageAStands
  <2> SUFFICES ASSUME TInv, StageA, pc = "done", reveal # NoRec, outcome # "accepted"
               PROVE  failure = "none" /\ report = reveal.report /\ Answer = reveal.answer
    BY DEF StageAStands
  <2>1. Ended /\ reveal.answer = AnswerUpTo(reveal.start)
    BY DEF StageA
  <2>2. runs \in Seq(RunRec) /\ reveal.start \in Nat
    BY Numbers DEF TInv, TypeOK
  <2>3. Answer = AnswerUpTo(reveal.start)
    BY <2>1, <2>2, AnswerIsUpTo DEF Ended, NoneSince
  <2> QED BY <2>1, <2>3 DEF Ended
<1> QED BY <1>1, <1>2, TypeInit, TypeNext, GrantedInit, GrantedNext, StageANext, PTL DEF Spec

-------------------------------------------------------------------------------
(* No failure without a gap.  A session in its last turn was sent to the    *)
(* desk or could not be; the memoranda kept aside are memoranda; a second   *)
(* pass rests on a complete first one, whose runs no later step touches.    *)
SentToDesk == Complete(All) \/ continued \/ ~DeskOpen \/ errors > 0

Turn ==
  /\ pc = "ended" => report.text = reply.text
  /\ pc = "ended" /\ reply.reason = "server_error" => errors > 0
  /\ pc = "recover" => ~Valuation
  /\ pc \in {"forced", "exhausted"} => SentToDesk

Kept ==
  /\ Valuation /\ follow # NoRec => follow.report.text = "memo"
  /\ Valuation /\ reveal # NoRec => reveal.report.text = "memo"

Passes ==
  /\ pc # "raised" => (arm.two_pass <=> phase # 0)
  /\ phase = 2 => Complete(Pass1)
  /\ reveal # NoRec => \A i \in All : i > reveal.start => runs[i].pass # 1

LEMMA MoreRuleFacts ==
  /\ Applies("desk_continuation") <=>
       ~continued /\ reply.reason # "server_error" /\ DeskOpen /\ ~Complete(All)
  /\ Applies("force_report") <=> IsStub(reply.text)
  /\ Applies("crux_followup") => ~IsStub(reply.text)
  /\ Applies("open_pass2") => Complete(Pass1)
  /\ Applies("reference_reveal") => StageAReport # NoReport
BY DEF Applies

\* Past the rule that sends a session to the desk, there is no need to or no way.
LEMMA PastDesk ==
  ASSUME NEW rule \in {"end_stage_b", "first_stands", "force_report", "deliver"},
         Turn, Judging(rule)
  PROVE  SentToDesk
<1>1. PICK i \in 1 .. 12 : Order[i] = rule /\ \A j \in 1 .. (i - 1) : ~Applies(Order[j])
  BY DEF Judging, Order
<1>2. i >= 4
  BY <1>1 DEF Order
<1>3. ~Applies(Order[3])
  BY <1>1, <1>2
<1>4. pc = "ended" /\ ~Applies("desk_continuation")
  BY <1>3, JudgedRule DEF Order
<1> QED BY <1>4, MoreRuleFacts DEF Turn, SentToDesk

LEMMA PastForce ==
  ASSUME Judging("deliver")
  PROVE  ~IsStub(reply.text)
<1>1. PICK i \in 1 .. 12 : Order[i] = "deliver" /\ \A j \in 1 .. (i - 1) : ~Applies(Order[j])
  BY DEF Judging, Order
<1>2. i = 12
  BY <1>1 DEF Order
<1>3. ~Applies(Order[11])
  BY <1>1, <1>2
<1> QED BY <1>3, MoreRuleFacts DEF Order

LEMMA StubFact ==
  ASSUME Valuation, NEW text
  PROVE  IsStub(text) <=> text # "memo"
BY DEF IsStub

\* How stage B ends, once more: what is delivered, and what becomes of the runs.
LEMMA StageBRuns ==
  ASSUME TInv, Granted, Passes, reveal # NoRec, phase # 1, NEW text \in Texts, SomeStageB(text),
         UNCHANGED <<cap, refused>>
  PROVE  /\ All' = All /\ failure' = "none"
         /\ \A i \in All : runs'[i].pass = runs[i].pass
         /\ \A i \in All : runs[i].pass = 1 => runs'[i] = runs[i]
         /\ runs' = runs \/ ~DeskOpen'
         /\ report'.text = "memo" \/ report' = reveal.report
<1>1. PICK content \in BOOLEAN : EndStageB(text, content)
  BY DEF SomeStageB
<1> DEFINE since == {i \in All : i > reveal.start /\ Completed(i)}
<1>2. /\ runs' = runs \/ (since # {} /\ runs' = [runs EXCEPT ![LastOf(since)].rejected = TRUE])
      /\ (report' = Written(text) /\ text = "memo") \/ report' = reveal.report
      /\ failure' = "none"
  BY <1>1 DEF EndStageB, Ends
<1>3. /\ runs \in Seq(RunRec) /\ Len(runs) \in Nat /\ All = 1 .. Len(runs)
      /\ reveal.start \in Nat /\ cap \in Nat /\ After(reveal)
  BY Numbers DEF TInv, TypeOK, All, Granted
<1>4. report'.text = "memo" \/ report' = reveal.report
  BY <1>2 DEF Written
<1>5. CASE runs' = runs
  BY <1>2, <1>4, <1>5 DEF All
<1>6. CASE since # {} /\ runs' = [runs EXCEPT ![LastOf(since)].rejected = TRUE]
  <2>1. since \subseteq 1 .. Len(runs)
    BY <1>3
  <2>2. LastOf(since) \in since
    <3> HIDE DEF since
    <3> QED BY <1>3, <1>6, <2>1, LastIn
  <2> DEFINE m == LastOf(since)
  <2>3. m \in All /\ m > reveal.start
    BY <2>2
  <2>4. runs[m].pass # 1 /\ runs[m] \in RunRec
    BY <1>3, <2>3 DEF Passes
  <2> HIDE DEF m
  <2>5. runs' = [runs EXCEPT ![m].rejected = TRUE]
    BY <1>6 DEF m
  <2>6. /\ All' = All
        /\ \A i \in All : i # m => runs'[i] = runs[i]
        /\ runs'[m] = [runs[m] EXCEPT !.rejected = TRUE]
    BY <1>3, <2>3, <2>5 DEF All
  <2>7. runs'[m].pass = runs[m].pass
    BY <2>4, <2>6 DEF RunRec
  <2>8. Len(runs) = cap /\ Len(runs') = Len(runs)
    BY <1>3, <2>3, <2>5 DEF After
  <2>9. ~DeskOpen'
    BY <1>3, <2>8 DEF DeskOpen
  <2> QED BY <1>2, <1>4, <2>4, <2>6, <2>7, <2>9
<1> QED BY <1>2, <1>5, <1>6

\* A complete first pass stays complete while its runs are left alone.
LEMMA FirstPassKept ==
  ASSUME \A i \in All : runs[i].pass = 1 => i \in All' /\ runs'[i] = runs[i]
  PROVE  Complete(Pass1) => Complete(Pass1)'
<1> SUFFICES ASSUME Complete(Pass1) PROVE Complete(Pass1)'
  OBVIOUS
<1>1. PICK i \in Pass1 : Completed(i) /\ runs[i].values = "all"
  BY DEF Complete
<1>2. i \in All /\ runs[i].pass = 1
  BY <1>1 DEF Pass1
<1>3. i \in All' /\ runs'[i] = runs[i]
  BY <1>2
<1> QED BY <1>1, <1>2, <1>3 DEF Complete, Completed, Pass1

LEMMA PassesSame ==
  ASSUME Passes, pc # "raised", UNCHANGED <<arm, phase, reveal, runs>>
  PROVE  Passes'
BY DEF Passes, Complete, Completed, Pass1, All


LEMMA TurnNext == TInv /\ Turn /\ [Next]_vars => Turn'
<1> SUFFICES ASSUME TInv, Turn, [Next]_vars PROVE Turn'
  OBVIOUS
<1>1. CASE pc' \in {"ask", "dispatch", "more", "done", "raised"}
  BY <1>1 DEF Turn
<1>2. ASSUME NEW r \in Replies, TurnEnds(r) PROVE Turn'
  BY <1>2 DEF TurnEnds, Turn, Written
<1>3. ASSUME NEW text \in Texts, MergeMemo(text) PROVE Turn'
  <2>1. /\ pc = "ended" /\ pc' = "ended" /\ errors' = errors
        /\ report'.text = text /\ reply'.text = text /\ reply'.reason = reply.reason
    BY <1>3, JudgedRule DEF MergeMemo, Written, TInv, TypeOK, Replies
  <2> QED BY <2>1 DEF Turn
<1>4. CASE ForceReport
  <2>1. SentToDesk
    BY <1>4, PastDesk DEF ForceReport
  <2>2. pc' = "forced" /\ UNCHANGED <<arm, budgets, once>>
    BY <1>4 DEF ForceReport
  <2>3. SentToDesk'
    BY <2>1, <2>2 DEF SentToDesk, Complete, Completed, All, DeskOpen
  <2> QED BY <2>2, <2>3 DEF Turn
<1>5. CASE Deliver \/ \E r \in Replies : LastTurn(r)
  <2>1. pc' \in {"recover", "done"} /\ arm' = arm /\ (pc' = "recover" => ~Valuation)
    BY <1>5 DEF Deliver, LastTurn, CutOff, AsksForBrief, Ends, Answered
  <2> QED BY <2>1 DEF Turn, Valuation
<1>6. CASE BatchEnds
  <2>1. pc' \in {"ask", "done"} \/ (pc' = "exhausted" /\ ~DeskOpen /\ UNCHANGED budgets)
    BY <1>6 DEF BatchEnds, OpenPass2, Asks, Ends
  <2>2. CASE pc' = "exhausted"
    <3>1. ~DeskOpen'
      BY <2>1, <2>2 DEF DeskOpen
    <3> QED BY <2>2, <3>1 DEF Turn, SentToDesk
  <2> QED BY <1>1, <2>1, <2>2
<1>7. CASE UNCHANGED vars
  BY <1>7 DEF vars, Turn, SentToDesk, Complete, Completed, All, DeskOpen, Valuation
<1>8. CASE \/ SecondError \/ ToolCalls \/ Search \/ SearchOfPrimary \/ FreeCall \/ DeskRefuses
           \/ Raises \/ WindowRetry \/ WindowTwice \/ DeskContinuation \/ PassEnds
           \/ CruxFollowup \/ ReferenceReveal \/ FirstStands
           \/ \E k \in Kinds : DeskRun(k)
           \/ \E r \in Replies : Recover(r)
           \/ \E content \in BOOLEAN : StageBEnds(content)
  <2>1. pc' \in {"ask", "dispatch", "more", "done", "raised"}
    BY <1>8
    DEF SecondError, ToolCalls, Search, SearchOfPrimary, FreeCall, DeskRefuses, DeskRun, Dispatching,
        Raises, WindowRetry, WindowTwice, DeskContinuation, PassEnds, OpenPass2, CruxFollowup,
        ReferenceReveal, FirstStands, Recover, StageBEnds, EndStageB, Asks, Ends
  <2> QED BY <1>1, <2>1
<1> QED BY <1>2, <1>3, <1>4, <1>5, <1>6, <1>7, <1>8 DEF Next

LEMMA KeptNext == TInv /\ Turn /\ Kept /\ [Next]_vars => Kept'
<1> SUFFICES ASSUME TInv, Turn, Kept, [Next]_vars PROVE Kept'
  OBVIOUS
<1>1. CASE Raises
  BY <1>1 DEF Raises, Kept
<1>2. CASE CruxFollowup
  <2>1. /\ pc = "ended" /\ ~IsStub(reply.text) /\ reveal = NoRec
        /\ UNCHANGED <<arm, reveal>> /\ follow'.report = report
    BY <1>2, JudgedRule, RuleFacts, MoreRuleFacts DEF CruxFollowup
  <2>2. Valuation => report.text = "memo"
    BY <2>1, StubFact DEF Turn
  <2> QED BY <2>1, <2>2 DEF Kept, Valuation
<1>3. ASSUME NEW text \in Texts, MergeMemo(text) PROVE Kept'
  <2>1. follow # NoRec /\ UNCHANGED <<arm, reveal>> /\ follow' = [follow EXCEPT !.merged = TRUE]
    BY <1>3, JudgedRule, RuleFacts DEF MergeMemo
  <2>2. follow'.report = follow.report
    BY <2>1 DEF TInv, TypeOK
  <2> QED BY <2>1, <2>2 DEF Kept, Valuation
<1>4. CASE ReferenceReveal
  <2>1. /\ pc = "ended" /\ StageAReport # NoReport
        /\ UNCHANGED <<arm, follow>> /\ reveal'.report = StageAReport
    BY <1>4, JudgedRule, MoreRuleFacts DEF ReferenceReveal
  <2>2. Valuation => StageAReport.text = "memo"
    BY <2>1, StubFact DEF Turn, Kept, StageAReport
  <2> QED BY <2>1, <2>2 DEF Kept, Valuation
<1>5. CASE \/ SecondError \/ ToolCalls \/ Search \/ SearchOfPrimary \/ FreeCall \/ DeskRefuses
           \/ BatchEnds \/ WindowRetry \/ WindowTwice \/ DeskContinuation \/ PassEnds
           \/ FirstStands \/ ForceReport \/ Deliver \/ UNCHANGED vars
           \/ \E k \in Kinds : DeskRun(k)
           \/ \E r \in Replies : TurnEnds(r) \/ LastTurn(r) \/ Recover(r)
           \/ \E content \in BOOLEAN : StageBEnds(content)
  <2>1. UNCHANGED <<arm, follow, reveal>>
    BY <1>5
    DEF SecondError, ToolCalls, Search, SearchOfPrimary, FreeCall, DeskRefuses, DeskRun, Dispatching,
        BatchEnds, WindowRetry, WindowTwice, DeskContinuation, PassEnds, OpenPass2, FirstStands,
        ForceReport, Deliver, TurnEnds, LastTurn, Recover, Answered, StageBEnds, vars
  <2> QED BY <2>1 DEF Kept, Valuation
<1> QED BY <1>1, <1>2, <1>3, <1>4, <1>5 DEF Next

LEMMA PassesNext == TInv /\ Granted /\ Passes /\ [Next]_vars => Passes'
<1> SUFFICES ASSUME TInv, Granted, Passes, [Next]_vars PROVE Passes'
  OBVIOUS
<1>1. CASE Raises
  BY <1>1 DEF Raises, Passes
<1>2. ASSUME NEW k \in Kinds, DeskRun(k) PROVE Passes'
  <2>1. /\ runs' = Append(runs, Run(k)) /\ pc # "raised" /\ pc' # "raised"
        /\ UNCHANGED <<arm, phase, reveal>>
    BY <1>2 DEF DeskRun, Dispatching
  <2>2. runs \in Seq(RunRec) /\ Run(k) \in RunRec /\ Run(k).pass = phase
    BY KindsAssumption DEF TInv, TypeOK, Run, RunRec
  <2>3. /\ \A i \in All : i \in All' /\ runs'[i] = runs[i]
        /\ \A i \in All' : i \in All \/ runs'[i].pass = phase
    BY <2>1, <2>2 DEF All
  <2>4. Complete(Pass1) => Complete(Pass1)'
    BY <2>3, FirstPassKept
  <2>5. reveal # NoRec => phase # 1
    BY DEF TInv, Shape
  <2>6. reveal # NoRec => \A i \in All' : i > reveal.start => runs'[i].pass # 1
    BY <2>3, <2>5 DEF Passes
  <2> QED BY <2>1, <2>4, <2>6 DEF Passes
<1>3. CASE OpenPass2 /\ phase = 1 /\ Complete(Pass1) /\ pc # "raised"
  <2>1. UNCHANGED <<arm, runs, reveal>> /\ phase' = 2 /\ reveal = NoRec /\ pc' = "ask"
    BY <1>3 DEF OpenPass2, Asks, TInv, Shape
  <2>2. Complete(Pass1)'
    BY <1>3, <2>1, FirstPassKept DEF All
  <2>3. arm.two_pass
    BY <1>3 DEF Passes
  <2> QED BY <2>1, <2>2, <2>3 DEF Passes
<1>4. CASE ReferenceReveal
  <2>1. UNCHANGED <<arm, runs, phase>> /\ reveal'.start = Len(runs) /\ pc = "ended" /\ pc' = "ask"
    BY <1>4, JudgedRule DEF ReferenceReveal, Asks
  <2>2. \A i \in All' : ~(i > reveal'.start)
    BY <2>1 DEF All, TInv, TypeOK
  <2>3. Complete(Pass1) => Complete(Pass1)'
    BY <2>1, FirstPassKept DEF All
  <2> QED BY <2>1, <2>2, <2>3 DEF Passes
<1>5. ASSUME reveal # NoRec, NEW text \in Texts, SomeStageB(text), pc # "raised", pc' = "done",
             UNCHANGED <<arm, cap, refused, phase, reveal>>
      PROVE  Passes'
  <2>1. phase # 1
    BY <1>5 DEF TInv, Shape
  <2>2. /\ All' = All
        /\ \A i \in All : runs'[i].pass = runs[i].pass
        /\ \A i \in All : runs[i].pass = 1 => runs'[i] = runs[i]
    BY <1>5, <2>1, StageBRuns
  <2>3. Complete(Pass1) => Complete(Pass1)'
    BY <2>2, FirstPassKept
  <2> QED BY <1>5, <2>2, <2>3 DEF Passes
<1>6. CASE SecondError
  <2>1. UNCHANGED <<arm, cap, refused, phase, reveal>> /\ pc = "ask" /\ pc' = "done"
    BY <1>6 DEF SecondError, EndStageB, Ends
  <2>2. CASE reveal # NoRec
    <3>1. SomeStageB("empty") /\ "empty" \in Texts
      BY <1>6, <2>2 DEF SecondError, SomeStageB, Texts
    <3> QED BY <1>5, <2>1, <2>2, <3>1
  <2>3. CASE reveal = NoRec
    BY <1>6, <2>1, <2>3, PassesSame DEF SecondError
  <2> QED BY <2>2, <2>3
<1>7. ASSUME NEW content \in BOOLEAN, StageBEnds(content) PROVE Passes'
  <2>1. /\ reveal # NoRec /\ pc = "ended" /\ pc' = "done" /\ SomeStageB(reply.text)
        /\ UNCHANGED <<arm, cap, refused, phase, reveal>>
    BY <1>7, JudgedRule, RuleFacts DEF StageBEnds, SomeStageB, EndStageB, Ends
  <2>2. reply.text \in Texts
    BY DEF TInv, TypeOK, Replies
  <2> QED BY <1>5, <2>1, <2>2
<1>8. CASE BatchEnds \/ PassEnds
  <2>1. \/ OpenPass2 /\ phase = 1 /\ Complete(Pass1) /\ pc # "raised"
        \/ UNCHANGED <<arm, phase, reveal, runs>> /\ pc # "raised"
    BY <1>8, JudgedRule, RuleFacts, MoreRuleFacts DEF BatchEnds, PassEnds
  <2> QED BY <1>3, <2>1, PassesSame
<1>9. CASE \/ ToolCalls \/ Search \/ SearchOfPrimary \/ FreeCall \/ DeskRefuses
           \/ WindowRetry \/ WindowTwice \/ DeskContinuation \/ CruxFollowup
           \/ FirstStands \/ ForceReport \/ Deliver
           \/ \E r \in Replies : TurnEnds(r) \/ LastTurn(r) \/ Recover(r)
           \/ \E text \in Texts : MergeMemo(text)
  <2>1. UNCHANGED <<arm, phase, reveal, runs>> /\ pc # "raised"
    BY <1>9, JudgedRule
    DEF ToolCalls, Search, SearchOfPrimary, FreeCall, DeskRefuses, Dispatching,
        WindowRetry, WindowTwice, DeskContinuation, CruxFollowup, FirstStands,
        ForceReport, Deliver, TurnEnds, LastTurn, Recover, Answered, MergeMemo
  <2> QED BY <2>1, PassesSame
<1>10. CASE UNCHANGED vars
  BY <1>10 DEF vars, Passes, Complete, Completed, Pass1, All
<1> QED
  BY <1>1, <1>2, <1>4, <1>6, <1>7, <1>8, <1>9, <1>10 DEF Next

LEMMA GapInit == Init => Turn /\ Kept /\ Passes /\ NoFailureNoGap
BY DEF Init, Turn, Kept, Passes, NoFailureNoGap, NoReply

\* What a session that ends owes: the second pass takes care of the first.
LEMMA GapClosed ==
  ASSUME TInv', Passes',
         pc' = "done" /\ Valuation' /\ failure' = "none" =>
           report'.text = "memo" /\ SentToDesk' /\ phase' # 1
  PROVE  NoFailureNoGap'
<1> SUFFICES ASSUME pc' = "done", Valuation', failure' = "none"
             PROVE  /\ report'.text = "memo"
                    /\ arm'.two_pass => Complete(Pass1)'
                    /\ SentToDesk'
  BY DEF NoFailureNoGap, SentToDesk
<1>1. phase' \in 0 .. 2 /\ phase' # 1
  BY DEF TInv, TypeOK
<1>2. arm'.two_pass => phase' = 2
  BY <1>1 DEF Passes
<1> QED BY <1>2 DEF Passes

LEMMA SentKept ==
  ASSUME UNCHANGED <<arm, desk, continued>>, errors' = errors \/ errors' > 0
  PROVE  SentToDesk => SentToDesk'
BY DEF SentToDesk, Complete, Completed, All, DeskOpen, desk

LEMMA GapNext ==
  ASSUME TInv, TInv', Granted, Turn, Kept, Passes, Passes', NoFailureNoGap, [Next]_vars
  PROVE  NoFailureNoGap'
<1>1. CASE pc' # "done"
  BY <1>1 DEF NoFailureNoGap
<1>2. CASE SecondError
  <2>1. CASE reveal = NoRec
    BY <1>2, <2>1 DEF SecondError, Ends, NoFailureNoGap
  <2>2. CASE reveal # NoRec
    <3>1. /\ SomeStageB("empty") /\ "empty" \in Texts /\ errors' = 2
          /\ UNCHANGED <<arm, cap, refused, phase, reveal>>
      BY <1>2, <2>2 DEF SecondError, SomeStageB, Texts
    <3>2. phase # 1
      BY <2>2 DEF TInv, Shape
    <3>3. report'.text = "memo" \/ report' = reveal.report
      BY <2>2, <3>1, <3>2, StageBRuns
    <3>4. Valuation' => report'.text = "memo"
      BY <2>2, <3>1, <3>3 DEF Kept, Valuation
    <3> QED BY <3>1, <3>2, <3>4, GapClosed DEF SentToDesk
  <2> QED BY <2>1, <2>2
<1>3. ASSUME NEW content \in BOOLEAN, StageBEnds(content) PROVE NoFailureNoGap'
  <2>1. /\ reveal # NoRec /\ SomeStageB(reply.text) /\ Judging("end_stage_b")
        /\ UNCHANGED <<arm, cap, refused, errors, continued, phase, reveal>>
    BY <1>3, RuleFacts, JudgedRule DEF StageBEnds, SomeStageB
  <2>2. reply.text \in Texts
    BY DEF TInv, TypeOK, Replies
  <2>3. phase # 1
    BY <2>1 DEF TInv, Shape
  <2>4. /\ report'.text = "memo" \/ report' = reveal.report
        /\ runs' = runs \/ ~DeskOpen'
    BY <2>1, <2>2, <2>3, StageBRuns
  <2>5. Valuation' => report'.text = "memo"
    BY <2>1, <2>4 DEF Kept, Valuation
  <2>6. SentToDesk'
    <3>1. SentToDesk
      BY <2>1, PastDesk
    <3>2. CASE runs' = runs
      BY <2>1, <3>1, <3>2, SentKept DEF desk
    <3> QED BY <2>4, <3>2 DEF SentToDesk
  <2> QED BY <2>1, <2>3, <2>5, <2>6, GapClosed
<1>4. CASE FirstStands
  <2>1. /\ pc = "ended" /\ follow # NoRec /\ Judging("first_stands")
        /\ UNCHANGED <<arm, budgets, once>> /\ report' = follow.report
    BY <1>4, JudgedRule, RuleFacts DEF FirstStands
  <2>2. SentToDesk'
    BY <2>1, PastDesk, SentKept DEF budgets, once
  <2>3. Valuation' => report'.text = "memo"
    BY <2>1 DEF Kept, Valuation
  <2>4. failure' = "none" => phase' # 1
    BY <1>4, <2>1 DEF FirstStands, Ends, once
  <2> QED BY <2>2, <2>3, <2>4, GapClosed
<1>5. CASE Deliver /\ pc' = "done"
  <2>1. /\ pc = "ended" /\ Judging("deliver") /\ ~IsStub(reply.text)
        /\ UNCHANGED <<arm, budgets, once, report>> /\ Ends("none")
    BY <1>5, PastForce, JudgedRule DEF Deliver, AsksForBrief
  <2>2. SentToDesk'
    BY <2>1, PastDesk, SentKept DEF budgets, once
  <2>3. Valuation' => report'.text = "memo"
    BY <2>1, StubFact DEF Turn, Valuation
  <2>4. failure' = "none" => phase' # 1
    BY <2>1 DEF Ends, once
  <2> QED BY <2>2, <2>3, <2>4, GapClosed
<1>6. ASSUME NEW r \in Replies, LastTurn(r), pc' = "done" PROVE NoFailureNoGap'
  <2>1. /\ pc \in {"forced", "exhausted"} /\ Answered(r) /\ report' = Written(r.text)
        /\ Ends(IF r.reason = "server_error" THEN r.reason
                ELSE IF Valuation /\ IsStub(r.text) THEN "report_not_delivered" ELSE "none")
    BY <1>6 DEF LastTurn, AsksForBrief
  <2>2. /\ UNCHANGED <<arm, desk, continued, phase>>
        /\ errors' = errors \/ errors' > 0
    BY <2>1 DEF Answered, once, TInv, TypeOK
  <2>3. SentToDesk'
    BY <2>1, <2>2, SentKept DEF Turn
  <2>4. failure' = "none" => phase' # 1 /\ (Valuation => ~IsStub(r.text))
    BY <2>1, <2>2 DEF Ends, Replies
  <2>5. Valuation' /\ failure' = "none" => report'.text = "memo"
    BY <2>1, <2>2, <2>4, StubFact DEF Written, Valuation
  <2> QED BY <2>3, <2>4, <2>5, GapClosed
<1>7. CASE WindowTwice
  BY <1>7 DEF WindowTwice, Ends, NoFailureNoGap
<1>8. CASE (BatchEnds \/ PassEnds) /\ pc' = "done"
  <2>1. phase = 1 /\ Ends("none")
    BY <1>8, JudgedRule, RuleFacts DEF BatchEnds, PassEnds, OpenPass2, Asks
  <2> QED BY <2>1 DEF Ends, NoFailureNoGap
<1>9. ASSUME NEW r \in Replies, Recover(r) PROVE NoFailureNoGap'
  <2>1. ~Valuation' 
    BY <1>9 DEF Recover, Answered, Turn, Valuation
  <2> QED BY <2>1 DEF NoFailureNoGap
<1>10. CASE UNCHANGED vars
  BY <1>10
  DEF vars, budgets, desk, judged, once, NoFailureNoGap, Valuation, Complete, Completed, All, Pass1, DeskOpen
<1>11. CASE \/ ToolCalls \/ Search \/ SearchOfPrimary \/ FreeCall \/ DeskRefuses \/ Raises
            \/ WindowRetry \/ DeskContinuation \/ CruxFollowup \/ ReferenceReveal \/ ForceReport
            \/ \E k \in Kinds : DeskRun(k)
            \/ \E r \in Replies : TurnEnds(r)
            \/ \E text \in Texts : MergeMemo(text)
  <2>1. pc' # "done"
    BY <1>11, JudgedRule
    DEF ToolCalls, Search, SearchOfPrimary, FreeCall, DeskRefuses, DeskRun, Dispatching, Raises,
        WindowRetry, DeskContinuation, CruxFollowup, ReferenceReveal, ForceReport, TurnEnds,
        MergeMemo, Asks
  <2> QED BY <1>1, <2>1
<1> QED
  BY <1>1, <1>2, <1>3, <1>4, <1>5, <1>6, <1>7, <1>8, <1>9, <1>10, <1>11 DEF Next

\* A valuation that reports no failure delivers a memorandum, a two-pass one
\* with a complete first pass, and one without a complete run was sent to the
\* desk unless it was closed or the server failed (chat_with_tools of
\* analyst_tools.py), whatever the arms, the kinds of runs and the limits.
THEOREM GapCorrect == Spec => []NoFailureNoGap
<1> DEFINE I == TInv /\ Granted /\ Turn /\ Kept /\ Passes /\ NoFailureNoGap
<1>1. Init => I
  BY TypeInit, GrantedInit, GapInit
<1>2. I /\ [Next]_vars => I'
  <2> SUFFICES ASSUME I, [Next]_vars PROVE I'
    OBVIOUS
  <2>1. TInv' /\ Granted'
    BY TypeNext, GrantedNext
  <2>2. Turn' /\ Kept' /\ Passes'
    BY TurnNext, KeptNext, PassesNext
  <2>3. NoFailureNoGap'
    BY <2>1, <2>2, GapNext
  <2> QED BY <2>1, <2>2, <2>3
<1> QED BY <1>1, <1>2, PTL DEF Spec
===============================================================================
