---------------------------- MODULE AnalystSession ---------------------------
(***************************************************************************)
(* chat_with_tools of tools/audit_202608/analyst_tools.py: one sample's    *)
(* conversation with the model.  The model may search, call the financial  *)
(* desk and write; the harness counts what it uses, and answers the end of *)
(* a turn with the first of a list of rules that applies: one more chance  *)
(* after a turn that ran out of room, the desk alone when no run values    *)
(* all scenarios, a second pass, one question for the crux of a            *)
(* directional call, one look at the reference, a forced memorandum.       *)
(*                                                                         *)
(* The model, its server, the desk's arithmetic and the guardrails on a    *)
(* revision are the environment: each may answer anything.  Texts matter   *)
(* by whether they are a memorandum, runs by which scenarios they value,   *)
(* whether their base is 10% off the price, and whether they state a crux. *)
(***************************************************************************)
EXTENDS Integers, Sequences, FiniteSets

CONSTANTS
    Arms,        \* [desk, two_pass, reference]: desk runs granted (0 is discovery)
    Kinds,       \* what a desk run can turn out to be
    MaxSearch,   \* max_search_calls
    MaxRefused,  \* refused desk calls after which the desk closes (6)
    Cap,         \* PRIMARY_REFUSAL_CAP
    MaxFree,     \* bound: calls that no budget counts
    NoRec

Texts == {"empty", "stub", "memo"}
Values == {"all", "base", "none"}

ASSUME ArmsAssumption ==
    Arms \subseteq [desk : Nat, two_pass : BOOLEAN, reference : BOOLEAN]
ASSUME TwoPassAssumption == \A a \in Arms : a.two_pass => a.desk > 0
ASSUME KindsAssumption == Kinds \subseteq [values : Values, far : BOOLEAN, crux : BOOLEAN]
ASSUME NoRecAssumption ==
    /\ NoRec \notin [start : Nat, report : [text : Texts, at : Nat], merged : BOOLEAN]
    /\ NoRec \notin [start : Nat, report : [text : Texts, at : Nat], answer : Nat]
ASSUME BoundsAssumption ==
    /\ MaxSearch \in Nat \ {0} /\ MaxRefused \in Nat /\ Cap \in Nat /\ MaxFree \in Nat

VARIABLES
    pc,         \* ask, dispatch, more, ended, forced, exhausted, recover, done, raised
    arm,
    cap,        \* max_model_calls, which the session moves
    runs,       \* accepted desk runs; their number is model_calls
    refused, search, primary, errors,
    retried,    \* window_retry_used
    continued,  \* the desk continuation was sent
    desk_only,
    phase,      \* the pass of a two-pass arm, 0 in the others
    follow,     \* the crux follow-up: where it starts, what it was sent after
    reveal,     \* stage B: the same, and the answer run
    outcome,    \* of stage B
    reply,      \* the turn being judged
    report, failure,
    free

desk    == <<cap, runs, refused>>
budgets == <<desk, search, primary, errors, free>>
once    == <<retried, continued, desk_only, phase, follow, reveal, outcome>>
judged  == <<reply, report, failure>>
vars == <<pc, arm, budgets, once, judged>>

NoReply == [text |-> "empty", reason |-> "stop"]
NoReport == [text |-> "empty", at |-> 0]

Init ==
    /\ pc = "ask"
    /\ arm \in Arms
    /\ cap = arm.desk
    /\ runs = <<>>
    /\ refused = 0 /\ search = 0 /\ primary = 0 /\ errors = 0 /\ free = 0
    /\ retried = FALSE /\ continued = FALSE /\ desk_only = FALSE
    /\ phase = IF arm.two_pass THEN 1 ELSE 0
    /\ follow = NoRec /\ reveal = NoRec /\ outcome = "none"
    /\ reply = NoReply /\ report = NoReport /\ failure = "none"

-----------------------------------------------------------------------------
(* What the harness asks of its records *)

Valuation == arm.desk > 0

DeskOpen == Len(runs) < cap /\ refused <= MaxRefused

SearchOpen == search < MaxSearch

(* whether the request offers any tool *)
Offered == DeskOpen \/ (SearchOpen /\ ~desk_only)

(* contract_fill.completed *)
Completed(i) == runs[i].values # "none" /\ ~runs[i].rejected

(* (A run values all three scenarios or the base alone; runs that value a   *)
(* bear and a bull alone are left out.)                                     *)
Complete(S) == \E i \in S : Completed(i) /\ runs[i].values = "all"

All == DOMAIN runs
Pass1 == {i \in All : runs[i].pass = 1}

LastOf(S) == CHOOSE i \in S : \A j \in S : j <= i

(* contract_fill.answer_run, 0 when there is none *)
Answer ==
    LET full == {i \in All : Completed(i) /\ runs[i].values = "all"}
        any  == {i \in All : Completed(i)}
    IN  IF full # {} THEN LastOf(full) ELSE IF any # {} THEN LastOf(any) ELSE 0

Directional == Answer # 0 /\ runs[Answer].far /\ ~runs[Answer].crux

(* discovery takes any text for its brief *)
IsStub(text) == IF Valuation THEN text # "memo" ELSE text = "empty"

CutShort == reply.reason \in {"length", "server_error"}

(* The text of a report, and how many runs it could rest on *)
Written(text) == [text |-> text, at |-> Len(runs)]

-----------------------------------------------------------------------------
(* A turn *)

Asks == pc' = "ask" /\ reply' = NoReply

(* A two-pass session that is still in its first pass is a breach *)
Ends(how) ==
    /\ pc' = "done"
    /\ reply' = NoReply
    /\ failure' = IF phase = 1 /\ how = "none" THEN "two_pass_breach" ELSE how

\* Mutant: what the guardrails refuse stays a run like any other.
EndStageBUnmarked(text, content) ==
    LET since == {i \in All : i > reveal.start /\ Completed(i)}
        good  == Cardinality(since) = 1 /\ runs[LastOf(since)].values = "all" /\ content
    IN  /\ outcome' = IF good THEN "accepted" ELSE "stands"
        /\ runs' = runs
        /\ report' = IF good /\ text = "memo" THEN Written(text) ELSE reveal.report
        /\ Ends("none")

(* Stage B is judged: one run since the reveal, all scenarios valued, and   *)
(* the guardrails content; a run they refuse never counts as a run.         *)
EndStageB(text, content) ==
    LET since == {i \in All : i > reveal.start /\ Completed(i)}
        good  == Cardinality(since) = 1 /\ runs[LastOf(since)].values = "all" /\ content
    IN  /\ outcome' = IF good THEN "accepted" ELSE "stands"
        /\ runs' = IF good \/ since = {} THEN runs
                   ELSE [runs EXCEPT ![LastOf(since)].rejected = TRUE]
        /\ report' = IF good /\ text = "memo" THEN Written(text) ELSE reveal.report
        /\ Ends("none")

(* The server's second error ends the session; in stage B, stage A stands *)
SecondError ==
    /\ pc = "ask"
    /\ errors = 1
    /\ errors' = 2
    /\ IF reveal # NoRec
       THEN \E content \in BOOLEAN : EndStageB("empty", content)
       ELSE Ends("server_error") /\ report' = NoReport /\ UNCHANGED <<runs, outcome>>
    /\ UNCHANGED <<arm, cap, refused, search, primary, free, retried, continued, desk_only,
                   phase, follow, reveal>>

(* A turn without a tool call; the first server error looks like one *)
TurnEnds(r) ==
    /\ pc = "ask"
    /\ r.reason = "server_error" => r.text = "empty" /\ errors = 0
    /\ errors' = IF r.reason = "server_error" THEN 1 ELSE errors
    /\ pc' = "ended"
    /\ reply' = r
    /\ report' = Written(r.text)
    /\ UNCHANGED <<arm, desk, search, primary, free, once, failure>>

ToolCalls ==
    /\ pc = "ask"
    /\ pc' = "dispatch"
    /\ UNCHANGED <<arm, budgets, once, judged>>

Dispatching == pc \in {"dispatch", "more"} /\ pc' = "more" /\ UNCHANGED <<arm, once, judged>>

Search ==
    /\ Dispatching
    /\ ~desk_only
    /\ IF SearchOpen THEN search' = search + 1 /\ UNCHANGED free
       ELSE free < MaxFree /\ free' = free + 1 /\ UNCHANGED search
    /\ UNCHANGED <<desk, primary, errors>>

(* A call for what the pack holds is refused, and counts from the cap on *)
SearchOfPrimary ==
    /\ Dispatching
    /\ ~desk_only
    /\ IF primary < Cap THEN primary' = primary + 1 /\ UNCHANGED <<search, free>>
       ELSE IF SearchOpen THEN search' = search + 1 /\ UNCHANGED <<primary, free>>
       ELSE free < MaxFree /\ free' = free + 1 /\ UNCHANGED <<primary, search>>
    /\ UNCHANGED <<desk, errors>>

(* An unknown tool, anything but the desk while only that is open, the desk *)
(* when it is closed                                                        *)
FreeCall ==
    /\ Dispatching
    /\ free < MaxFree
    /\ free' = free + 1
    /\ UNCHANGED <<desk, search, primary, errors>>

DeskRefuses ==
    /\ Dispatching
    /\ DeskOpen
    /\ refused' = refused + 1
    /\ UNCHANGED <<cap, runs, search, primary, errors, free>>

(* The follow-up's run repeats the inputs of the answer run *)
Repeats(k) == k.values = runs[Answer].values /\ k.far = runs[Answer].far

Run(k) == [values |-> k.values, far |-> k.far, crux |-> k.crux, pass |-> phase, rejected |-> FALSE]

\* Mutant: a question leaves the rest of the desk's budget open.
DeskRunUncapped(k) ==
    /\ Dispatching
    /\ DeskOpen
    /\ follow # NoRec /\ reveal = NoRec => Repeats(k)
    /\ runs' = Append(runs, Run(k))
    /\ UNCHANGED <<cap, refused, search, primary, errors, free>>

DeskRun(k) ==
    /\ Dispatching
    /\ DeskOpen
    /\ follow # NoRec /\ reveal = NoRec => Repeats(k)
    /\ runs' = Append(runs, Run(k))
    /\ cap' = IF follow # NoRec \/ reveal # NoRec THEN Len(runs') ELSE cap
    /\ UNCHANGED <<refused, search, primary, errors, free>>

(* A tool or a request fails in any other way: the sample is lost, and      *)
(* nothing the session knew is read again.                                  *)
Raises ==
    /\ pc \notin {"done", "raised"}
    /\ pc' = "raised"
    /\ cap' = 0 /\ runs' = <<>> /\ refused' = 0
    /\ search' = 0 /\ primary' = 0 /\ errors' = 0 /\ free' = 0
    /\ retried' = FALSE /\ continued' = FALSE /\ desk_only' = FALSE /\ phase' = 0
    /\ follow' = NoRec /\ reveal' = NoRec /\ outcome' = "none"
    /\ reply' = NoReply /\ report' = NoReport /\ failure' = "none"
    /\ UNCHANGED arm

(* One more run when a question meets a desk that is used up *)
Reopened == IF Len(runs) >= cap THEN Len(runs) + 1 ELSE cap

OpenPass2 ==
    /\ Asks
    /\ phase' = 2
    /\ cap' = Reopened
    /\ UNCHANGED <<arm, runs, refused, search, primary, errors, free, retried, continued,
                   desk_only, follow, reveal, outcome, report, failure>>

(* The budgets are looked at when a batch of calls is through; a first pass *)
(* that ends here leaves the report what an earlier turn made it.           *)
BatchEnds ==
    /\ pc = "more"
    /\ LET spent == ~SearchOpen /\ ~DeskOpen
       IN  \/ spent /\ phase = 1 /\ Complete(Pass1) /\ OpenPass2
           \/ /\ spent /\ phase = 1 /\ ~Complete(Pass1)
              /\ Ends("none")
              /\ UNCHANGED <<arm, budgets, once, report>>
           \/ /\ ~(spent /\ phase = 1)
              /\ pc' = IF spent /\ reveal = NoRec THEN "exhausted" ELSE "ask"
              /\ UNCHANGED <<arm, budgets, once, judged>>

-----------------------------------------------------------------------------
(* The end of a turn without tool calls: the first rule that applies *)

(* A memorandum to stand while the reference is shown *)
StageAReport ==
    IF ~IsStub(reply.text) THEN report
    ELSE IF follow # NoRec THEN follow.report ELSE NoReport

Applies(rule) ==
    CASE rule = "window_retry" ->
           /\ IsStub(reply.text) /\ CutShort /\ ~retried /\ Offered
           /\ Valuation /\ runs = <<>> /\ refused <= MaxRefused
      [] rule = "window_twice" -> IsStub(reply.text) /\ CutShort /\ retried /\ runs = <<>>
      [] rule = "desk_continuation" ->
           ~continued /\ reply.reason # "server_error" /\ DeskOpen /\ ~Complete(All)
      [] rule = "open_pass2" -> phase = 1 /\ Complete(Pass1)
      [] rule = "breach" -> phase = 1
      [] rule = "crux_followup" ->
           /\ follow = NoRec /\ reveal = NoRec /\ ~IsStub(reply.text)
           /\ Valuation /\ refused <= MaxRefused /\ Directional
      [] rule = "merge_memo" ->
           arm.two_pass /\ follow # NoRec /\ reveal = NoRec /\ ~follow.merged
      [] rule = "end_stage_b" -> reveal # NoRec
      [] rule = "reference_reveal" ->
           /\ StageAReport # NoReport /\ arm.reference /\ Valuation
           /\ reply.reason # "server_error" /\ Answer # 0
      [] rule = "first_stands" -> follow # NoRec /\ IsStub(reply.text)
      [] rule = "force_report" -> IsStub(reply.text)
      [] rule = "deliver" -> TRUE

Order == <<"window_retry", "window_twice", "desk_continuation", "open_pass2", "breach",
           "crux_followup", "merge_memo", "end_stage_b", "reference_reveal",
           "first_stands", "force_report", "deliver">>

Judging(rule) ==
    /\ pc = "ended"
    /\ \E i \in DOMAIN Order :
          /\ Order[i] = rule /\ Applies(rule)
          /\ \A j \in 1..(i - 1) : ~Applies(Order[j])

\* Mutant: the retry does not remember itself.
WindowRetryForgets ==
    /\ Judging("window_retry")
    /\ Asks
    /\ UNCHANGED <<arm, budgets, once, report, failure>>

WindowRetry ==
    /\ Judging("window_retry")
    /\ Asks
    /\ retried' = TRUE
    /\ UNCHANGED <<arm, budgets, continued, desk_only, phase, follow, reveal, outcome,
                   report, failure>>

WindowTwice ==
    /\ Judging("window_twice")
    /\ Ends("window_exhausted_twice")
    /\ report' = NoReport
    /\ UNCHANGED <<arm, budgets, once>>

DeskContinuation ==
    /\ Judging("desk_continuation")
    /\ Asks
    /\ continued' = TRUE
    /\ desk_only' = TRUE
    /\ UNCHANGED <<arm, budgets, retried, phase, follow, reveal, outcome, report, failure>>

PassEnds ==
    \/ Judging("open_pass2") /\ OpenPass2
    \/ /\ Judging("breach")
       /\ Ends("none")
       /\ UNCHANGED <<arm, budgets, once, report>>

CruxFollowup ==
    /\ Judging("crux_followup")
    /\ Asks
    /\ cap' = Reopened
    /\ desk_only' = TRUE
    /\ follow' = [start |-> Len(runs), report |-> report, merged |-> FALSE]
    /\ UNCHANGED <<arm, runs, refused, search, primary, errors, free, retried, continued,
                   phase, reveal, outcome, report, failure>>

(* Sections with content replace the first memorandum's; what comes out may *)
(* fall short of a memorandum.                                              *)
MergeMemo(text) ==
    /\ Judging("merge_memo")
    /\ text # "empty"
    /\ reply' = [reply EXCEPT !.text = text]
    /\ report' = Written(text)
    /\ follow' = [follow EXCEPT !.merged = TRUE]
    /\ UNCHANGED <<pc, arm, budgets, retried, continued, desk_only, phase, reveal, outcome, failure>>

StageBEnds(content) ==
    /\ Judging("end_stage_b")
    /\ EndStageB(reply.text, content)
    /\ UNCHANGED <<arm, cap, refused, search, primary, errors, free, retried, continued,
                   desk_only, phase, follow, reveal>>

ReferenceReveal ==
    /\ Judging("reference_reveal")
    /\ Asks
    /\ cap' = Reopened
    /\ desk_only' = TRUE
    /\ reveal' = [start |-> Len(runs), report |-> StageAReport, answer |-> Answer]
    /\ UNCHANGED <<arm, runs, refused, search, primary, errors, free, retried, continued,
                   phase, follow, outcome, report, failure>>

FirstStands ==
    /\ Judging("first_stands")
    /\ Ends("none")
    /\ report' = follow.report
    /\ UNCHANGED <<arm, budgets, once>>

ForceReport ==
    /\ Judging("force_report")
    /\ pc' = "forced"
    /\ reply' = NoReply
    /\ UNCHANGED <<arm, budgets, once, report, failure>>

(* Discovery asks once more for a brief that was cut off *)
CutOff(r) == ~Valuation /\ r.reason = "length" /\ r.text # "memo"
AsksForBrief == pc' = "recover" /\ reply' = NoReply /\ UNCHANGED failure

Deliver ==
    /\ Judging("deliver")
    /\ IF CutOff(reply) THEN AsksForBrief ELSE Ends("none")
    /\ UNCHANGED <<arm, budgets, once, report>>

(* Errors of the server count in every turn *)
Answered(r) ==
    /\ r.reason = "server_error" => r.text = "empty"
    /\ errors' = IF r.reason = "server_error" THEN errors + 1 ELSE errors
    /\ UNCHANGED <<arm, desk, search, primary, free, once>>

\* Mutant: whatever is written in the last turn is delivered.
LastTurnUnchecked(r) ==
    /\ pc \in {"forced", "exhausted"}
    /\ Answered(r)
    /\ report' = Written(r.text)
    /\ IF CutOff(r) THEN AsksForBrief
       ELSE Ends(IF r.reason = "server_error" THEN r.reason ELSE "none")

(* The turn without tools, forced on a stub or on budgets that are used up: *)
(* what comes back is the report, and a failure when it is none.            *)
LastTurn(r) ==
    /\ pc \in {"forced", "exhausted"}
    /\ Answered(r)
    /\ report' = Written(r.text)
    /\ IF CutOff(r) THEN AsksForBrief
       ELSE Ends(IF r.reason = "server_error" THEN r.reason
                 ELSE IF Valuation /\ IsStub(r.text) THEN "report_not_delivered" ELSE "none")

(* ... for the block alone: it is appended to what there is *)
Recover(r) ==
    /\ pc = "recover"
    /\ Answered(r)
    /\ report' = IF errors' >= 2 THEN NoReport
                 ELSE IF r.text = "memo" THEN Written("memo") ELSE report
    /\ Ends(IF r.text = "memo" THEN "none" ELSE "brief_not_delivered")

Replies == [text : Texts, reason : {"stop", "length", "server_error"}]

Next ==
    \/ SecondError \/ ToolCalls \/ Search \/ SearchOfPrimary \/ FreeCall \/ DeskRefuses
    \/ \E k \in Kinds : DeskRun(k)
    \/ Raises \/ BatchEnds
    \/ \E r \in Replies : TurnEnds(r) \/ LastTurn(r) \/ Recover(r)
    \/ WindowRetry \/ WindowTwice \/ DeskContinuation \/ PassEnds \/ CruxFollowup
    \/ \E text \in Texts : MergeMemo(text)
    \/ \E content \in BOOLEAN : StageBEnds(content)
    \/ ReferenceReveal \/ FirstStands \/ ForceReport \/ Deliver

Spec == Init /\ [][Next]_vars

(* A request is answered or times out, which raises *)
FairSpec == Spec /\ WF_vars(Next)

-----------------------------------------------------------------------------
(* Properties *)

Reports == [text : Texts, at : 0..Len(runs)]
RunRec == [values : Values, far : BOOLEAN, crux : BOOLEAN, pass : 0..2, rejected : BOOLEAN]

(* Types: the variables stay what the comments above say they are, and no   *)
(* rule but the reopening for a question lets the desk run past its cap.    *)
TypeOK ==
    /\ pc \in {"ask", "dispatch", "more", "ended", "forced", "exhausted", "recover", "done", "raised"}
    /\ arm \in Arms
    /\ cap \in Nat /\ Len(runs) <= cap
    /\ runs \in Seq(RunRec)
    /\ refused \in 0..(MaxRefused + 1) /\ search \in 0..MaxSearch
    /\ primary \in 0..Cap /\ errors \in 0..2 /\ free \in 0..MaxFree
    /\ retried \in BOOLEAN /\ continued \in BOOLEAN /\ desk_only \in BOOLEAN
    /\ phase \in 0..2
    /\ follow = NoRec \/ follow \in [start : 1..Len(runs), report : Reports, merged : BOOLEAN]
    /\ reveal = NoRec \/ reveal \in [start : 1..Len(runs), report : Reports, answer : 1..Len(runs)]
    /\ outcome \in {"none", "stands", "accepted"}
    /\ reply \in Replies
    /\ report \in Reports
    /\ failure \in {"none", "server_error", "window_exhausted_twice", "report_not_delivered",
                    "brief_not_delivered", "two_pass_breach"}

Fired(rec) == IF rec = NoRec THEN 0 ELSE 1

(* The desk's budget is the grant plus one run for each question that found *)
(* it used up, and a question gets one run: its second call, in the same    *)
(* batch or after a continuation, finds the desk closed.                    *)
OneRunPerQuestion ==
    /\ Len(runs) <= arm.desk + Fired(follow) + Fired(reveal) + (IF phase = 2 THEN 1 ELSE 0)
    /\ reveal # NoRec => Len(runs) <= reveal.start + 1
    /\ follow # NoRec =>
          (IF reveal = NoRec THEN Len(runs) ELSE reveal.start) <= follow.start + 1

(* Whatever happens once the reference is shown (the server fails twice,    *)
(* the run is refused, the model goes on talking), a session whose revision *)
(* was not accepted ends with the memorandum and the answer run of stage A, *)
(* and without a failure.                                                   *)
StageAStands ==
    pc = "done" /\ reveal # NoRec /\ outcome # "accepted" =>
        /\ failure = "none"
        /\ report = reveal.report
        /\ Answer = reveal.answer

(* A valuation that reports no failure delivers a memorandum; a two-pass    *)
(* one has a complete run of its first pass; and one without a complete run *)
(* was sent to the desk for it, unless the desk was closed by then or the   *)
(* server failed.                                                           *)
NoFailureNoGap ==
    pc = "done" /\ Valuation /\ failure = "none" =>
        /\ report.text = "memo"
        /\ arm.two_pass => Complete(Pass1)
        /\ Complete(All) \/ continued \/ ~DeskOpen \/ errors > 0

(* A session comes to an end: apart from calls that no budget counts,       *)
(* nothing it may do can be done for ever.                                  *)
SessionEnds == <>(pc \in {"done", "raised"})

(* The memorandum before the follow-up "stands when the reply is not a      *)
(* memorandum" (while the server answers).                                  *)
FirstMemorandumStands ==
    pc = "done" /\ follow # NoRec /\ errors = 0 => report.text = "memo"

(* "A delivered memorandum whose answer run is directional and passed no    *)
(* crux gets one follow-up message."                                        *)
CruxIsAskedFor ==
    pc = "done" /\ failure = "none" /\ Valuation /\ Directional =>
        follow # NoRec \/ refused > MaxRefused
=============================================================================
