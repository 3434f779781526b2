---------------------------- MODULE DepthVerdict ----------------------------
(***************************************************************************)
(* From the samples of one depth run to the row of the ledger, and from    *)
(* the row to `actionable`: which samples count, when two are enough, the  *)
(* medoid contract (consensus_valuation.py), the contract validator        *)
(* (fiduciary_gate.py), the band verdict (depth_pipeline.py) and the gate  *)
(* on read (depth_gates.py).  Pure functions over integers.                *)
(*                                                                         *)
(* Money is in whole units, shares of a price are compared by cross        *)
(* multiplication, and a percentage the code rounds to one decimal is an   *)
(* integer number of tenths.  Missing stands for None: no field modelled   *)
(* here can be a stated zero that the code tells from an absent value.     *)
(***************************************************************************)
EXTENDS Integers, Sequences, FiniteSets, Sublists

Missing == 0

GateVersion == 8

Faults == {"implausible", "truncated", "desk_less", "reduced", "failed"}

(* A recorded sample.  iv is the value read from the memorandum and base    *)
(* the contract's own base case (Missing when the contract states none);    *)
(* the w's are the scenario weights, all 0 when they are unusable; moat is  *)
(* in tenths; `falsifiable` is a contract without thesis defects; `crux` is *)
(* crux_check's verdict; `in_cohort` that of the plausibility gate;         *)
(* `entry` says that a momentum declaration has its timing, evidence and    *)
(* break rule.                                                              *)
Sample ==
    [iv : Nat, base : Nat, bull : Nat, bear : Nat,
     wBase : Nat, wBull : Nat, wBear : Nat,
     kelly : Nat, moat : Nat, conviction : Nat,
     falsifiable : BOOLEAN, crux : BOOLEAN, in_cohort : BOOLEAN,
     basis : {"none", "value", "momentum"}, entry : BOOLEAN,
     faults : SUBSET Faults]

Values(s) == {s[i] : i \in DOMAIN s}

MinOf(a, b) == IF a <= b THEN a ELSE b

Smallest(S) == CHOOSE x \in S : \A y \in S : x <= y
Largest(S)  == CHOOSE x \in S : \A y \in S : y <= x

(* statistics.median; of an even number it is the mean, rounded down *)
AtMost(s, x) == Cardinality({i \in DOMAIN s : s[i] <= x})
\* Mutant: the middle one of a list nobody sorted.
MedianUnsorted(s) == s[(Len(s) + 1) \div 2]

Median(s) ==
    LET low  == Smallest({x \in Values(s) : 2 * AtMost(s, x) >= Len(s)})
        high == Smallest({x \in Values(s) : 2 * AtMost(s, x) > Len(s)})
    IN  (low + high) \div 2

(* round(100 * (a / b - 1), 1), in tenths *)
Tenths(a, b) == (2000 * (a - b) + b) \div (2 * b)

-----------------------------------------------------------------------------
(* Samples *)

CountsAsResult(r) == r.iv > 0 /\ r.faults = {}

Good(runs) == Sublist(runs, {i \in DOMAIN runs : CountsAsResult(runs[i])})

Ivs(good) == [i \in DOMAIN good |-> good[i].iv]

Low(good)  == Smallest(Values(Ivs(good)))
High(good) == Largest(Values(Ivs(good)))

(* EARLY_TOL_PCT 15, BEAR_TOL_PCT 40: both spreads are required, and a      *)
(* missing bear case on either side refuses.                                *)
EarlyStop(two, prior) ==
    LET bears == {two[1].bear, two[2].bear}
        mid   == two[1].iv + two[2].iv
    IN  /\ 100 * High(two) <= 115 * Low(two)
        /\ Missing \notin bears
        /\ 100 * Largest(bears) <= 140 * Smallest(bears)
        /\ prior # Missing => /\ 4 * mid <= 10 * prior
                              /\ 4 * mid >= 6 * prior

(* The spread the document carries, in tenths; 0 for fewer than two results, *)
(* which is how band_verdict reads its absence.                              *)
Spread(good) == IF Len(good) >= 2 THEN Tenths(High(good), Low(good)) ELSE 0

-----------------------------------------------------------------------------
(* The contract *)

Or(x, y) == IF x = Missing THEN y ELSE x

WellFormed(c, price) ==
    /\ c.base > 0
    /\ 100 * c.base >= price
    /\ c.base <= 15 * price
    /\ c.bull # Missing => c.base <= c.bull
    /\ c.bear # Missing => c.bear <= c.base

Weight(c) == c.wBase + c.wBull + c.wBear

(* the expected value, times Weight *)
Expected(c) == c.wBase * c.base + c.wBull * Or(c.bull, c.base)
                                + c.wBear * Or(c.bear, c.base)

\* Mutant: a contract with scenario weights is judged by them alone.
NoEdgeByExpectation(c, price) ==
    IF Weight(c) > 0 THEN 10000 * Expected(c) <= 10001 * price * Weight(c)
    ELSE c.base <= price

(* base at or below the price, or an expected return of at most 0.0001 *)
NoEdge(c, price) ==
    \/ c.base <= price
    \/ Weight(c) > 0 /\ 10000 * Expected(c) <= 10001 * price * Weight(c)

(* The validator reports "Clamped Kelly" *)
Clamps(c, price) == ~c.falsifiable \/ (NoEdge(c, price) /\ c.kelly > 0)

Sanitized(c, price) ==
    [c EXCEPT !.kelly = IF ~c.falsifiable \/ NoEdge(c, price) THEN 0
                        ELSE MinOf(25, @)]

(* The card synthesised when no result's contract is well formed *)
Fallback(good) ==
    [good[1] EXCEPT !.base = Median(Ivs(good)), !.bull = Missing,
        !.bear = Missing, !.wBase = 0, !.wBull = 0, !.wBear = 0, !.kelly = 0,
        !.moat = Missing, !.conviction = Missing, !.falsifiable = FALSE,
        !.basis = "none", !.entry = FALSE]

Candidates(good, price) == {i \in DOMAIN good : WellFormed(good[i], price)}

(* The median moat of the candidates that state one, else 3.0 *)
MedianMoat(good, price) ==
    LET Stated == {i \in Candidates(good, price) : good[i].moat # Missing}
        s == Sublist(good, Stated)
    IN  IF s = <<>> THEN 30 ELSE Median([i \in DOMAIN s |-> s[i].moat])

(* The squared relative distances in value and in moat, over a common       *)
(* denominator                                                              *)
Distance(c, iv, moat) ==
    (c.base - iv) * (c.base - iv) * moat * moat
    + IF c.moat = Missing THEN 0
      ELSE (c.moat - moat) * (c.moat - moat) * iv * iv

(* The most central candidate, the earliest of equals.  (Results are all    *)
(* desk backed, so the preference for clean candidates never bites.)        *)
Medoid(good, price) ==
    LET dist == [i \in Candidates(good, price) |->
                    Distance(good[i], Median(Ivs(good)), MedianMoat(good, price))]
    IN  CHOOSE i \in DOMAIN dist :
            \A j \in DOMAIN dist : dist[i] < dist[j] \/ (dist[i] = dist[j] /\ i <= j)

(* The scorecard published: the medoid's contract AFTER validation *)
Scorecard(good, price) ==
    IF Candidates(good, price) = {} THEN Sanitized(Fallback(good), price)
    ELSE Sanitized(good[Medoid(good, price)], price)

-----------------------------------------------------------------------------
(* The verdict *)

Directions == {"undervalued", "hold", "overvalued"}

(* every draw on one side of the price, and the median 10% away from it *)
Band(good, price) ==
    LET med == Median(Ivs(good))
    IN  IF 10 * (med - price) >= price /\ price < Low(good) THEN "undervalued"
        ELSE IF 10 * (price - med) >= price /\ price > High(good) THEN "overvalued"
        ELSE "hold"

(* TOL_PCT 25: disagreement withholds a direction *)
Quarantined(good, price) ==
    IF Spread(good) > 250 THEN "hold" ELSE Band(good, price)

CruxValid(good) == \A i \in DOMAIN good : good[i].crux

\* Mutant: the stated disagreement is reported and not acted on.
DirectionWithoutCrux(good, price) == Quarantined(good, price)

Direction(good, price) ==
    IF CruxValid(good) THEN Quarantined(good, price) ELSE "hold"

(* One sample's valid declaration; "invalid" votes for nothing *)
Vote(r, d) ==
    CASE r.basis = "value"    -> IF d = "undervalued" THEN "value" ELSE "invalid"
      [] r.basis = "momentum" -> IF d # "undervalued" /\ r.entry THEN "momentum" ELSE "invalid"
      [] r.basis = "none"     -> "none"

(* A majority of the valid declarations; the medoid's breaks a tie *)
PositionBasis(good, medoid, d) ==
    LET n == [b \in {"none", "value", "momentum"} |->
                 Cardinality({i \in DOMAIN good : Vote(good[i], d) = b})]
        top == {b \in DOMAIN n : n[b] > 0 /\ \A c \in DOMAIN n : n[c] <= n[b]}
    IN  IF Cardinality(top) = 1 THEN CHOOSE b \in top : TRUE
        ELSE IF Vote(good[medoid], d) \in top THEN Vote(good[medoid], d)
        ELSE "none"

MedoidSample(good, price) ==
    IF Candidates(good, price) = {} THEN 1 ELSE Medoid(good, price)

(* momentum_basis.eligibility: the market's five conditions are `favours`   *)
Eligible(favours, base, price) == favours /\ 2 * base >= price

Zero == 0
Quarter == 1
Half == 2
Full == 3
NoSize == 4

DispersionBucket(spread) ==
    IF spread <= 150 THEN Full ELSE IF spread <= 300 THEN Half ELSE Quarter
MosBucket(mos) ==
    IF mos >= 250 THEN Full ELSE IF mos >= 100 THEN Half ELSE Quarter
ConvictionBucket(score) ==
    IF score >= 11 THEN Full ELSE IF score >= 8 THEN Half ELSE Quarter
(* an unreadable register is left out of the minimum *)
RiskBucket(risk) == IF risk = "on" THEN Half ELSE Full
BasisBucket(d) == IF d = "hold" THEN Half ELSE Quarter

\* Mutant: a sample lost to an exception was never attempted.
SizeHintOfRecorded(doc, good, card, d, env) ==
    LET size == MinOf(MinOf(DispersionBucket(Spread(good)),
                            MosBucket(Tenths(card.base, doc.price))),
                      MinOf(ConvictionBucket(card.conviction), RiskBucket(env.risk)))
    IN  IF Len(good) = 1 THEN Quarter ELSE size

(* What was lost caps the size: attempted counts the iterations entered *)
SizeHint(doc, good, card, d, env) ==
    LET spread   == Spread(good)
        momentum == /\ PositionBasis(good, MedoidSample(good, doc.price), d) = "momentum"
                    /\ Eligible(env.momentum, card.base, doc.price)
        edge == IF momentum THEN BasisBucket(d)
                ELSE MosBucket(Tenths(card.base, doc.price))
        size == MinOf(MinOf(DispersionBucket(spread), edge),
                      MinOf(ConvictionBucket(card.conviction), RiskBucket(env.risk)))
    IN  IF Len(good) = 1 THEN Quarter
        ELSE IF doc.attempted = 3 /\ Len(good) = 2 /\ ~doc.early THEN MinOf(size, Half)
        ELSE size

(* INSTABILITY_TOL_PCT 25, of the rounded move since the newest prior row *)
Unstable(base, prior) ==
    /\ base > 0 /\ prior > 0
    /\ LET move == Tenths(base, prior) IN move > 250 \/ move < -250

\* Mutant: the same, in the flags.
NotAResultOfRecorded(doc) ==
    (IF \E i \in DOMAIN doc.runs : "reduced" \in doc.runs[i].faults
        THEN {"LOW_EFFORT_RESCUE"} ELSE {})
    \cup
    (IF \E i \in DOMAIN doc.runs : "failed" \in doc.runs[i].faults
        THEN {"SAMPLE_FAILED"} ELSE {})

(* LOW_EFFORT_RESCUE and SAMPLE_FAILED: read over every recorded sample,    *)
(* and over the samples that an exception left unrecorded                   *)
NotAResult(doc) ==
    (IF \E i \in DOMAIN doc.runs : "reduced" \in doc.runs[i].faults
        THEN {"LOW_EFFORT_RESCUE"} ELSE {})
    \cup
    (IF \/ doc.attempted > Len(doc.runs)
        \/ \E i \in DOMAIN doc.runs : "failed" \in doc.runs[i].faults
        THEN {"SAMPLE_FAILED"} ELSE {})

(* The last stage: the scorecard validated once more, this time failing     *)
(* closed on anything the validator had to clamp                            *)
FiduciaryVerdict(card, price) ==
    IF WellFormed(card, price) /\ ~Clamps(card, price) THEN "PASS" ELSE "FAIL"

(* doc = [runs, attempted, early, price]; prior is the base of the newest   *)
(* earlier row of the name; env what is read from outside                   *)
BandVerdict(doc, prior, env) ==
    LET good == Good(doc.runs)
        card == Scorecard(good, doc.price)
        d    == Direction(good, doc.price)
        fid  == FiduciaryVerdict(card, doc.price)
        row  == [direction |-> "NOT_USABLE", price |-> doc.price,
                 n_basis |-> Len(good), spread |-> Spread(good),
                 median |-> Missing, base |-> Missing, kelly |-> 0,
                 size |-> NoSize, fiduciary |-> "NOT_APPLICABLE",
                 crux_valid |-> FALSE, unstable |-> FALSE,
                 flags |-> NotAResult(doc), env |-> env,
                 gate_version |-> GateVersion,
                 date |-> 0, run_source |-> "manual"]
    IN  IF good = <<>> THEN row
        ELSE IF \E i \in DOMAIN good : ~good[i].in_cohort
             THEN [row EXCEPT !.median = Median(Ivs(good)), !.base = card.base,
                              !.crux_valid = CruxValid(good)]
        ELSE [row EXCEPT !.direction = d, !.median = Median(Ivs(good)),
                         !.base = card.base, !.fiduciary = fid,
                         !.crux_valid = CruxValid(good),
                         !.unstable = Unstable(card.base, prior),
                         !.kelly = IF fid = "FAIL" THEN 0 ELSE Sanitized(card, doc.price).kelly,
                         !.size  = IF fid = "FAIL" THEN Zero
                                   ELSE SizeHint(doc, good, card, d, env)]

-----------------------------------------------------------------------------
(* The gate on read *)

Production == {"orchestrator", "manual_production"}
Sources == Production \cup {"ondemand", "manual"}

(* The reasons of depth_gates.assess that a row of pack revision 20 or      *)
(* later can have.  Reason 9 waits for FIRST_VALID_PACK_REVISION, which is  *)
(* None; 12 is about rows from before the desk-backed rule.                 *)
Reasons(v) ==
    LET directional == v.direction \in {"undervalued", "overvalued"}
        mos == Tenths(v.base, v.price)
        Applies == [
          not_usable |-> v.direction \notin Directions,
          pre_gates |-> v.gate_version < GateVersion,
          single_sample |-> v.n_basis = 1,
          fiduciary_fail |-> v.fiduciary = "FAIL",
          kelly_on_overvalued |-> v.direction = "overvalued" /\ v.kelly > 0,
          high_dispersion |-> directional /\ v.spread > 250,
          non_production_row |-> v.run_source = "manual",
          mode_instability |-> v.unstable,
          outside_street_fence |->
              /\ v.env.fence # <<>>
              /\ \/ v.direction = "undervalued" /\ v.median > v.env.fence[2]
                 \/ v.direction = "overvalued" /\ v.median < v.env.fence[1],
          mos_beyond_150pct |->
              v.direction \in Directions /\ (mos > 1500 \/ mos < -1500),
          low_effort_rescue |-> "LOW_EFFORT_RESCUE" \in v.flags,
          sample_failed |-> "SAMPLE_FAILED" \in v.flags,
          discovery_failed |-> ~v.env.discovery,
          depleting_producer |-> v.env.producer \in {"depleting", "unavailable"},
          consensus_data_unavailable |-> ~v.env.estimates,
          no_street_fence |-> v.env.fence = <<>>,
          directional_without_valid_crux |-> directional /\ ~v.crux_valid,
          input_scope |-> directional /\ ~v.env.scoped]
    IN  {r \in DOMAIN Applies : Applies[r]}

Actionable(v) == Reasons(v) = {}
=============================================================================
