---------------------------- MODULE DepthPipeline ---------------------------
(***************************************************************************)
(* depth_pipeline.py on one name: a run is refused or starts, has the      *)
(* consensus subprocess draw its samples, picks up the document it wrote,  *)
(* judges it, and appends the verdict to the ledger its source allows.     *)
(* Readers take a ledger's newest row and gate it by Reasons; of the rows  *)
(* of earlier runs this module keeps what a later run reads of them.       *)
(*                                                                         *)
(* Runs are slots for processes.  The sweep and the on-demand runner hold  *)
(* the depth lock and start one run at a time; a person at the keyboard    *)
(* who starts another one takes no lock.                                   *)
(***************************************************************************)
EXTENDS DepthVerdict

CONSTANTS
    Runs,        \* slots for concurrent processes
    Outcomes,    \* what a sample can turn out to be
    Envs,        \* what is read from outside when a verdict is judged
    Prices,      \* live quotes
    Jobs,        \* [source, samples]: who asks, and how many (0 is adaptive)
    OldBases,    \* contract bases the book may hold a row of already
    NoRow,
    MaxBegun,    \* bound: runs begun
    MaxDay       \* bound: days

ASSUME RunsAssumption == Runs # {} /\ MaxBegun \in Nat /\ MaxDay \in Nat \ {0}
ASSUME OutcomesAssumption ==
    /\ Outcomes \subseteq Sample
    /\ \A s \in Outcomes : s.base \in {s.iv, Missing}
ASSUME PricesAssumption == Prices \subseteq Nat \ {0}
ASSUME OldAssumption == OldBases \subseteq Nat
ASSUME JobsAssumption == Jobs \subseteq [source : Sources, samples : Nat]
ASSUME EnvsAssumption ==
    Envs \subseteq [risk : {"on", "off", "unknown"}, momentum : BOOLEAN,
                    fence : {<<>>} \cup (Nat \X Nat), estimates : BOOLEAN,
                    producer : {"other", "depleting", "unknown", "unavailable"},
                    scoped : BOOLEAN, discovery : BOOLEAN]
Ledgers == {"book", "ondemand", "test"}

VARIABLES
    pc,       \* where each run is
    job,      \* its request
    quote,    \* the live price it took at its start
    doc,      \* the samples so far; from "judged" on, the document it picked
    before,   \* how many output directories it saw before its own
    dirs,     \* output directories, in the order of their names
    row,      \* the verdict it is about to file
    newest,   \* base and date of each ledger's newest readable row
    torn,     \* the ledger's last line is half written
    day, begun

runVars    == <<pc, job, quote, doc, before, row>>
ledgerVars == <<newest, torn>>
vars == <<runVars, dirs, ledgerVars, day, begun>>

(* A document is the samples of one run, and `by` the run that drew them *)
EmptyDoc(r, price) ==
    [runs |-> <<>>, attempted |-> 0, early |-> FALSE, price |-> price, by |-> r]
NoDoc == EmptyDoc(NoRow, 0)
NoJob == [source |-> "manual", samples |-> 0]

Init ==
    /\ pc = [r \in Runs |-> "idle"]
    /\ job = [r \in Runs |-> NoJob]
    /\ quote = [r \in Runs |-> 0]
    /\ doc = [r \in Runs |-> NoDoc]
    /\ before = [r \in Runs |-> 0]
    /\ dirs = <<>>
    /\ row = [r \in Runs |-> NoRow]
    /\ \E old \in {NoRow} \cup [base : OldBases, date : {1}] :
          newest = [l \in Ledgers |-> IF l = "book" THEN old ELSE NoRow]
    /\ torn = [l \in Ledgers |-> FALSE]
    /\ day = 1
    /\ begun = 0

Active == {r \in Runs : pc[r] # "idle"}

(* The end of a run, whatever its exit code.  Nobody looks at a directory   *)
(* again once no run is active that listed them before it was made.         *)
Ends(r) ==
    /\ pc' = [pc EXCEPT ![r] = "idle"]
    /\ job' = [job EXCEPT ![r] = NoJob]
    /\ quote' = [quote EXCEPT ![r] = 0]
    /\ doc' = [doc EXCEPT ![r] = NoDoc]
    /\ before' = [before EXCEPT ![r] = 0]
    /\ row' = [row EXCEPT ![r] = NoRow]
    /\ dirs' = IF Active = {r} THEN <<>> ELSE dirs

(* Runs under the depth lock *)
Locked(j) == j.source \in {"orchestrator", "ondemand"}

(* depth_pipeline.py T: the quote is taken before the hour of model calls *)
Begin(r, j, q) ==
    /\ pc[r] = "idle"
    /\ Locked(j) => \A p \in Active : ~Locked(job[p])
    /\ begun < MaxBegun
    /\ begun' = begun + 1
    /\ pc' = [pc EXCEPT ![r] = "research"]
    /\ job' = [job EXCEPT ![r] = j]
    /\ quote' = [quote EXCEPT ![r] = q]
    /\ UNCHANGED <<doc, before, dirs, row, ledgerVars, day>>

(* Stale screener data (9), a failed fetch of estimates (10), no quote (8), *)
(* a research model that stays on the card (7) or research that fails (3).  *)
(* A brief about another company only turns research off for the samples.   *)
Refuse(r) ==
    /\ pc[r] = "research"
    /\ Ends(r)
    /\ UNCHANGED <<ledgerVars, day, begun>>

(* run_consensus lists the output directories and starts the subprocess ... *)
Launch(r) ==
    /\ pc[r] = "research"
    /\ pc' = [pc EXCEPT ![r] = "launched"]
    /\ before' = [before EXCEPT ![r] = Len(dirs)]
    /\ UNCHANGED <<job, quote, doc, dirs, row, ledgerVars, day, begun>>

(* ... which makes a directory named after the second it started in *)
OpenDir(r) ==
    /\ pc[r] = "launched"
    /\ pc' = [pc EXCEPT ![r] = "sampling"]
    /\ doc' = [doc EXCEPT ![r] = EmptyDoc(r, quote[r])]
    /\ dirs' = Append(dirs, [by |-> r, written |-> FALSE, doc |-> NoDoc])
    /\ UNCHANGED <<job, quote, before, row, ledgerVars, day, begun>>

Adaptive(r) == job[r].samples = 0
Intended(r) == IF Adaptive(r) THEN 3 ELSE job[r].samples

Sampled(r) == doc[r].early \/ doc[r].attempted = Intended(r)

(* The prior verdict's base tightens the early stop only when its analyst   *)
(* was ruled valid; FIRST_VALID_PACK_REVISION is None, so none is.          *)
PriorForRun == Missing

(* A sample is recorded, whatever became of it.  After the second the       *)
(* adaptive loop stops if both are results and agree.                       *)
Record(r, s) ==
    /\ pc[r] = "sampling"
    /\ ~Sampled(r)
    /\ LET runs == Append(doc[r].runs, s)
           good == Good(runs)
           n    == doc[r].attempted + 1
       IN  doc' = [doc EXCEPT ![r].runs = runs, ![r].attempted = n,
                      ![r].early = /\ Adaptive(r) /\ n = 2 /\ Len(good) = 2
                                   /\ EarlyStop(good, PriorForRun)]
    /\ UNCHANGED <<pc, job, quote, before, row, dirs, ledgerVars, day, begun>>

(* An exception: the iteration was entered and leaves no record *)
Lose(r) ==
    /\ pc[r] = "sampling"
    /\ ~Sampled(r)
    /\ doc' = [doc EXCEPT ![r].attempted = @ + 1]
    /\ UNCHANGED <<pc, job, quote, before, row, dirs, ledgerVars, day, begun>>

(* consensus.json, in the directory the run's own subprocess made *)
WriteConsensus(r) ==
    /\ pc[r] = "sampling"
    /\ Sampled(r)
    /\ pc' = [pc EXCEPT ![r] = "written"]
    /\ LET own == Largest({i \in DOMAIN dirs : dirs[i].by = r})
       IN  dirs' = [dirs EXCEPT ![own].written = TRUE, ![own].doc = doc[r]]
    /\ UNCHANGED <<job, quote, doc, before, row, ledgerVars, day, begun>>

(* The subprocess dies: exit 5, no document *)
ConsensusDies(r) ==
    /\ pc[r] = "sampling"
    /\ Ends(r)
    /\ UNCHANGED <<ledgerVars, day, begun>>

(* The directories that were not there before and hold a document *)
New(r) == {i \in DOMAIN dirs : i > before[r] /\ dirs[i].written}
Picked(r) == dirs[Largest(New(r))].doc

(* The base of the newest row by date over both ledgers; of one day the     *)
(* on-demand ledger's                                                       *)
PriorBase ==
    LET book == newest["book"]
        od   == newest["ondemand"]
    IN  IF od # NoRow /\ (book = NoRow \/ od.date >= book.date) THEN od.base
        ELSE IF book # NoRow THEN book.base ELSE Missing

(* The newest new document is judged at the price it names; the run stops   *)
(* when that is not its own quote.                                          *)
Judge(r, env) ==
    /\ pc[r] = "written"
    /\ IF Picked(r).price # quote[r] THEN Ends(r)
       ELSE /\ pc' = [pc EXCEPT ![r] = "judged"]
            /\ doc' = [doc EXCEPT ![r] = Picked(r)]
            /\ row' = [row EXCEPT ![r] =
                          [BandVerdict(Picked(r), PriorBase, env) EXCEPT
                              !.date = day, !.run_source = job[r].source]]
            /\ UNCHANGED <<job, quote, before, dirs>>
    /\ UNCHANGED <<ledgerVars, day, begun>>

(* stamp_and_route *)
Ledger(source) ==
    IF source = "ondemand" THEN "ondemand"
    ELSE IF source \in Production THEN "book"
    ELSE "test"

(* A line appended after a half-written one is glued to it, and no reader   *)
(* can parse either.                                                        *)
File(r) ==
    /\ pc[r] = "judged"
    /\ LET l == Ledger(job[r].source)
       IN  /\ newest' = IF torn[l] THEN newest
                      ELSE [newest EXCEPT ![l] = [base |-> row[r].base, date |-> row[r].date]]
           /\ torn' = [torn EXCEPT ![l] = FALSE]
    /\ Ends(r)
    /\ UNCHANGED <<day, begun>>

(* The process is killed; while it files its verdict, half a line may stay  *)
Kill(r) ==
    /\ pc[r] # "idle"
    /\ \/ torn' = torn
       \/ pc[r] = "judged" /\ torn' = [torn EXCEPT ![Ledger(job[r].source)] = TRUE]
    /\ Ends(r)
    /\ UNCHANGED <<newest, day, begun>>

(* (A run over midnight would only date its own row later.) *)
NextDay ==
    /\ Active = {}
    /\ day < MaxDay
    /\ day' = day + 1
    /\ UNCHANGED <<runVars, dirs, ledgerVars, begun>>

Next ==
    \/ \E r \in Runs :
        \/ \E j \in Jobs, q \in Prices : Begin(r, j, q)
        \/ Refuse(r) \/ Launch(r) \/ OpenDir(r)
        \/ \E s \in Outcomes : Record(r, s)
        \/ Lose(r) \/ WriteConsensus(r) \/ ConsensusDies(r)
        \/ \E env \in Envs : Judge(r, env)
        \/ File(r) \/ Kill(r)
    \/ NextDay

Spec == Init /\ [][Next]_vars

-----------------------------------------------------------------------------
(* Properties *)

Rows == [direction : Directions \cup {"NOT_USABLE"}, price : Nat, n_basis : Nat,
         spread : Nat, median : Nat, base : Nat, kelly : 0..25,
         size : {Zero, Quarter, Half, Full, NoSize},
         fiduciary : {"PASS", "FAIL", "NOT_APPLICABLE"},
         crux_valid : BOOLEAN, unstable : BOOLEAN,
         flags : SUBSET {"LOW_EFFORT_RESCUE", "SAMPLE_FAILED"}, env : Envs,
         gate_version : Nat, date : 1..MaxDay, run_source : Sources]

Docs == [runs : Seq(Outcomes), attempted : Nat, early : BOOLEAN, price : Nat,
         by : Runs \cup {NoRow}]

(* Types: the variables stay what the comments above say they are. *)
TypeOK ==
    /\ pc \in [Runs -> {"idle", "research", "launched", "sampling", "written", "judged"}]
    /\ job \in [Runs -> [source : Sources, samples : Nat]]
    /\ quote \in [Runs -> Nat]
    /\ doc \in [Runs -> Docs]
    /\ before \in [Runs -> Nat]
    /\ dirs \in Seq([by : Runs, written : BOOLEAN, doc : Docs])
    /\ row \in [Runs -> Rows \cup {NoRow}]
    /\ newest \in [Ledgers -> [base : Nat, date : 1..MaxDay] \cup {NoRow}]
    /\ torn \in [Ledgers -> BOOLEAN]
    /\ day \in 1..MaxDay
    /\ begun \in 0..MaxBegun

Judged == {r \in Runs : pc[r] = "judged"}
Results(r) == Good(doc[r].runs)

(* Every sample on one side of the price *)
OneSided(r, d) ==
    \A i \in DOMAIN Results(r) :
        IF d = "undervalued" THEN Results(r)[i].iv > quote[r] ELSE Results(r)[i].iv < quote[r]

(* The row that a reader acts on rests on a complete run: at least two      *)
(* results, no sample failed, written at reduced effort or lost to an       *)
(* exception, and, when it names a direction, every result on that side of  *)
(* the price with a valid stated disagreement.  The flags that gate it are  *)
(* raised in one program, the direction in a second, and judged in a third. *)
ActionableIsSound ==
    \A r \in Judged : Actionable(row[r]) =>
        /\ Len(Results(r)) >= 2
        /\ doc[r].attempted = Len(doc[r].runs)
        /\ \A i \in DOMAIN doc[r].runs :
              doc[r].runs[i].faults \cap {"failed", "reduced"} = {}
        /\ row[r].direction # "hold" =>
              OneSided(r, row[r].direction) /\ CruxValid(Results(r))
        /\ job[r].source # "manual"

(* A full position needs every sample the loop entered (or a pair that met  *)
(* the early bar), within 15%, a base 25% above the price and conviction;   *)
(* a sample lost on the way caps it at half, a lone result at a quarter.    *)
SizeIsEarned ==
    \A r \in Judged : row[r].size \in {Half, Full} =>
        /\ Len(Results(r)) >= 2
        /\ 1000 * High(Results(r)) <= 1301 * Low(Results(r))
        /\ row[r].size = Full =>
              /\ Len(Results(r)) = doc[r].attempted
              /\ 1000 * High(Results(r)) <= 1151 * Low(Results(r))
              /\ 1000 * row[r].base >= 1249 * quote[r]
              /\ \E i \in DOMAIN Results(r) : Results(r)[i].conviction >= 11

(* Kelly is bought with edge: a published fraction above zero has a base    *)
(* above the price, which is one result's own base, and never rides on an   *)
(* overvalued call.  Base, Kelly and direction come from three aggregates   *)
(* of the samples (medoid, its contract, the band).                         *)
KellyHasEdge ==
    \A r \in Judged : row[r].kelly > 0 =>
        /\ row[r].base > quote[r]
        /\ \E i \in DOMAIN Results(r) : Results(r)[i].base = row[r].base
        /\ row[r].direction # "overvalued"
        /\ row[r].size # Zero

(* "It must never fire on a row this code writes": the gate's checks on     *)
(* the label code find nothing.                                             *)
GatesNeverFireOnOwnRows ==
    \A r \in Judged :
        Reasons(row[r]) \cap
            {"kelly_on_overvalued", "high_dispersion",
             "directional_without_valid_crux", "pre_gates"} = {}

Shuffled(s) ==
    {[i \in DOMAIN s |-> s[p[i]]] :
        p \in {q \in [DOMAIN s -> DOMAIN s] : \A i, j \in DOMAIN s : q[i] = q[j] => i = j}}

(* The direction is the samples', not the order in which they were drawn. *)
DirectionIsOrderFree ==
    \A r \in Judged : row[r].direction # "NOT_USABLE" =>
        \A good \in Shuffled(Results(r)) :
            Direction(good, row[r].price) = row[r].direction

(* run_consensus "returns the newest consensus.json for the ticker, written *)
(* by this invocation".                                                     *)
OwnDocument == \A r \in Judged : doc[r].by = r

(* "Cap size to 'half'; 'full' size strictly requires complete 3/3 samples   *)
(* (or an early stop at n=2)": a full position has three results, or has    *)
(* lost no sample that the loop entered.                                    *)
LostSampleCapsSize ==
    \A r \in Judged : row[r].size = Full =>
        Len(Results(r)) >= 3 \/ Len(Results(r)) = doc[r].attempted

(* Capital is never quietly re-sized: a contract that claims a position its *)
(* own numbers do not support is stamped FAIL and sized to zero.            *)
ClaimsFailClosed ==
    \A r \in Judged :
        LET good == Results(r)
            card == good[Medoid(good, quote[r])]
        IN  /\ row[r].direction # "NOT_USABLE"
            /\ Candidates(good, quote[r]) # {}
            /\ Clamps(card, quote[r])
            => row[r].fiduciary = "FAIL" /\ row[r].size = Zero
=============================================================================
