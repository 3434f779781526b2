------------------------- MODULE DepthPipeline_proofs ------------------------
(***************************************************************************)
(* What a judged run may file, for every set of outcomes, prices, jobs and *)
(* processes.                                                              *)
(*                                                                         *)
(* The argument has two halves.  DepthVerdict is a pure function, and what *)
(* its row says of the document it was given is proved about the function: *)
(* which samples are its results, that the order statistics exist and lie  *)
(* among them, that the medoid is a candidate.  DepthPipeline carries a    *)
(* document from the process that draws the samples, through a directory,  *)
(* to a process that judges it, and the inductive invariant says that what *)
(* arrives is a document a loop can have left: RowsFit.                    *)
(***************************************************************************)
EXTENDS DepthPipeline, FiniteSetTheorems, TLAPS

-------------------------------------------------------------------------------
(* Orders on finite sets.                                                  *)

\* A total order on a finite set that is not empty has a greatest element: the
\* elements at or below each of them are counted by an injection.
LEMMA Greatest ==
  ASSUME NEW S, IsFiniteSet(S), S # {}, NEW R,
         \A x \in S : <<x, x>> \in R,
         \A x, y \in S : <<x, y>> \in R \/ <<y, x>> \in R,
         \A x, y \in S : <<x, y>> \in R /\ <<y, x>> \in R => x = y,
         \A x, y, z \in S : <<x, y>> \in R /\ <<y, z>> \in R => <<x, z>> \in R
  PROVE  \E x \in S : \A y \in S : <<y, x>> \in R
<1> DEFINE Upto(x) == {y \in S : <<y, x>> \in R}
           m == Cardinality(S)
           f == [x \in S |-> Cardinality(Upto(x))]
<1>1. m \in Nat /\ m # 0
  BY FS_CardinalityType, FS_EmptySet
<1>2. \A x \in S : f[x] \in 1 .. m
  <2> SUFFICES ASSUME NEW x \in S PROVE Cardinality(Upto(x)) \in 1 .. m
    OBVIOUS
  <2>1. Upto(x) \subseteq S /\ x \in Upto(x)
    OBVIOUS
  <2>2. IsFiniteSet(Upto(x)) /\ Cardinality(Upto(x)) <= m
    BY <2>1, FS_Subset
  <2>3. Cardinality(Upto(x)) \in Nat /\ Cardinality(Upto(x)) # 0
    BY <2>1, <2>2, FS_CardinalityType, FS_EmptySet
  <2> QED BY <1>1, <2>2, <2>3
<1>3. ASSUME NEW x \in S, NEW y \in S, x # y, <<x, y>> \in R PROVE f[x] # f[y]
  <2>1. y \in Upto(y) /\ y \notin Upto(x) /\ Upto(x) \subseteq Upto(y)
    BY <1>3
  <2>2. IsFiniteSet(Upto(y))
    BY FS_Subset
  <2>3. Cardinality(Upto(x)) # Cardinality(Upto(y))
    BY <2>1, <2>2, FS_Subset
  <2> QED BY <2>3
<1> HIDE DEF f, m
<1>4. f \in Injection(S, 1 .. m)
  <2>1. \A x, y \in S : x # y => f[x] # f[y]
    BY <1>3
  <2>2. f \in [S -> 1 .. m]
    BY <1>2 DEF f
  <2> QED BY <2>1, <2>2 DEF Injection, IsInjective
<1>5. IsFiniteSet(1 .. m) /\ Cardinality(1 .. m) = m
  BY <1>1, FS_Interval
<1>6. f \in Surjection(S, 1 .. m)
  BY <1>1, <1>4, <1>5, FS_Injection DEF m
<1>7. PICK x \in S : f[x] = m
  BY <1>1, <1>6 DEF Surjection
<1>8. Upto(x) \subseteq S /\ Cardinality(Upto(x)) = Cardinality(S)
  BY <1>7 DEF f, m
<1>9. Upto(x) = S
  BY <1>8, FS_Subset
<1> QED BY <1>9

\* And a least one: the greatest of the converse.
LEMMA Least ==
  ASSUME NEW S, IsFiniteSet(S), S # {}, NEW R,
         \A x \in S : <<x, x>> \in R,
         \A x, y \in S : <<x, y>> \in R \/ <<y, x>> \in R,
         \A x, y \in S : <<x, y>> \in R /\ <<y, x>> \in R => x = y,
         \A x, y, z \in S : <<x, y>> \in R /\ <<y, z>> \in R => <<x, z>> \in R
  PROVE  \E x \in S : \A y \in S : <<x, y>> \in R
<1> DEFINE C == {p \in S \X S : <<p[2], p[1]>> \in R}
<1>1. \A x, y \in S : <<x, y>> \in C <=> <<y, x>> \in R
  OBVIOUS
<1> HIDE DEF C
<1>2. /\ \A x \in S : <<x, x>> \in C
      /\ \A x, y \in S : <<x, y>> \in C \/ <<y, x>> \in C
      /\ \A x, y \in S : <<x, y>> \in C /\ <<y, x>> \in C => x = y
      /\ \A x, y, z \in S : <<x, y>> \in C /\ <<y, z>> \in C => <<x, z>> \in C
  BY <1>1
<1>3. \E x \in S : \A y \in S : <<y, x>> \in C
  BY <1>2, Greatest
<1> QED BY <1>1, <1>3

\* Of numbers: Smallest and Largest choose what they say.
LEMMA Extremes ==
  ASSUME NEW S, IsFiniteSet(S), S # {}, S \subseteq Int
  PROVE  /\ Smallest(S) \in S /\ \A y \in S : Smallest(S) <= y
         /\ Largest(S) \in S /\ \A y \in S : y <= Largest(S)
<1> DEFINE R == {p \in S \X S : p[1] <= p[2]}
<1>1. \A x, y \in S : <<x, y>> \in R <=> x <= y
  OBVIOUS
<1> HIDE DEF R
<1>2. \A x, y, z \in S : x \in Int /\ y \in Int /\ z \in Int
  OBVIOUS
<1>3. \A x \in S : <<x, x>> \in R
  BY <1>1, <1>2
<1>4. ASSUME NEW x \in S, NEW y \in S PROVE <<x, y>> \in R \/ <<y, x>> \in R
  <2>1. x <= y \/ y <= x
    BY <1>2
  <2> QED BY <1>1, <2>1
<1>5. \A x, y \in S : <<x, y>> \in R /\ <<y, x>> \in R => x = y
  BY <1>1, <1>2
<1>6. \A x, y, z \in S : <<x, y>> \in R /\ <<y, z>> \in R => <<x, z>> \in R
  BY <1>1, <1>2
<1>7. \E x \in S : \A y \in S : <<y, x>> \in R
  BY <1>3, <1>4, <1>5, <1>6, Greatest
<1>8. \E x \in S : \A y \in S : <<x, y>> \in R
  BY <1>3, <1>4, <1>5, <1>6, Least
<1>9. (\E x \in S : \A y \in S : y <= x) /\ (\E x \in S : \A y \in S : x <= y)
  BY <1>1, <1>7, <1>8
<1> QED BY <1>9 DEF Smallest, Largest

\* The positions of a list are as many as it is long.
LEMMA Positions ==
  ASSUME NEW n \in Nat
  PROVE  IsFiniteSet(1 .. n) /\ Cardinality(1 .. n) = n
<1>1. 1 \in Int /\ n \in Int /\ (1 > n => n = 0) /\ n - 1 + 1 = n
  OBVIOUS
<1>2. /\ IsFiniteSet(1 .. n)
      /\ Cardinality(1 .. n) = IF 1 > n THEN 0 ELSE n - 1 + 1
  BY <1>1, FS_Interval
<1> QED BY <1>1, <1>2

\* Every position of a sublist stands for one that is kept, and no two for the
\* same; every kept position is stood for.
LEMMA NthFacts ==
  ASSUME NEW n \in Nat, NEW S, S \subseteq 1 .. n
  PROVE  /\ Cardinality(S) \in Nat
         /\ \A k \in 1 .. Cardinality(S) :
               Nth(S, k) \in S /\ Cardinality({j \in S : j <= Nth(S, k)}) = k
         /\ \A k, l \in 1 .. Cardinality(S) : k # l => Nth(S, k) # Nth(S, l)
         /\ \A i \in S : \E k \in 1 .. Cardinality(S) : Nth(S, k) = i
<1> DEFINE Upto(i) == {j \in S : j <= i}
           m == Cardinality(S)
           f == [i \in S |-> Cardinality(Upto(i))]
<1>1. IsFiniteSet(S) /\ m \in Nat
  <2>1. IsFiniteSet(1 .. n)
    BY FS_Interval
  <2>2. IsFiniteSet(S)
    BY <2>1, FS_Subset
  <2> QED BY <2>2, FS_CardinalityType
<1>2. \A i \in S : f[i] \in 1 .. m
  <2> SUFFICES ASSUME NEW i \in S PROVE Cardinality(Upto(i)) \in 1 .. m
    OBVIOUS
  <2>1. Upto(i) \subseteq S /\ i \in Upto(i)
    OBVIOUS
  <2>2. IsFiniteSet(Upto(i)) /\ Cardinality(Upto(i)) <= m
    BY <1>1, <2>1, FS_Subset
  <2>3. Cardinality(Upto(i)) \in Nat /\ Cardinality(Upto(i)) # 0
    BY <2>1, <2>2, FS_CardinalityType, FS_EmptySet
  <2> QED BY <1>1, <2>2, <2>3
<1>3. ASSUME NEW i \in S, NEW j \in S, i < j PROVE f[i] # f[j]
  <2>1. i \in Nat /\ j \in Nat /\ S \subseteq Nat
    OBVIOUS
  <2>2. j \in Upto(j) /\ j \notin Upto(i) /\ Upto(i) \subseteq Upto(j)
    <3>1. j <= j /\ ~(j <= i) /\ \A x \in S : x <= i => x <= j
      BY <1>3, <2>1
    <3> QED BY <3>1
  <2>3. IsFiniteSet(Upto(j))
    BY <1>1, FS_Subset
  <2>4. Cardinality(Upto(i)) # Cardinality(Upto(j))
    BY <2>2, <2>3, FS_Subset
  <2> QED BY <2>4
<1> HIDE DEF f, m
<1>4. f \in Injection(S, 1 .. m)
  <2>1. \A i, j \in S : i # j => f[i] # f[j]
    BY <1>3
  <2>2. f \in [S -> 1 .. m]
    BY <1>2 DEF f
  <2> QED BY <2>1, <2>2 DEF Injection, IsInjective
<1>5. IsFiniteSet(1 .. m) /\ Cardinality(1 .. m) = m
  BY <1>1, FS_Interval
<1>6. f \in Surjection(S, 1 .. m)
  BY <1>1, <1>4, <1>5, FS_Injection DEF m
<1>7. \A k \in 1 .. m : \E i \in S : f[i] = k
  BY <1>6 DEF Surjection
<1>8. \A k \in 1 .. m :
        Nth(S, k) \in S /\ Cardinality(Upto(Nth(S, k))) = k /\ f[Nth(S, k)] = k
  BY <1>7 DEF Nth, f
<1>9. \A i \in S : Nth(S, f[i]) = i
  <2> TAKE i \in S
  <2>1. f[i] \in 1 .. m
    BY <1>2
  <2>2. Nth(S, f[i]) \in S /\ f[Nth(S, f[i])] = f[i]
    BY <1>8, <2>1
  <2> QED BY <1>4, <2>2 DEF Injection, IsInjective
<1> QED BY <1>1, <1>2, <1>8, <1>9 DEF m

\* A set of positions has a last one.
LEMMA LastIn ==
  ASSUME NEW n \in Nat, NEW S, S \subseteq 1 .. n, S # {}
  PROVE  \E i \in S : \A j \in S : j <= i
<1> DEFINE i == Nth(S, Cardinality(S))
<1>1. IsFiniteSet(S)
  <2>1. IsFiniteSet(1 .. n)
    BY FS_Interval
  <2> QED BY <2>1, FS_Subset
<1>2. Cardinality(S) \in 1 .. Cardinality(S)
  BY <1>1, FS_CardinalityType, FS_EmptySet
<1>3. i \in S /\ Cardinality({j \in S : j <= i}) = Cardinality(S)
  BY <1>2, NthFacts
<1>4. {j \in S : j <= i} = S
  BY <1>1, <1>3, FS_Subset
<1> QED BY <1>3, <1>4

\* A sublist is a list of as many elements as there are positions.
LEMMA SublistFacts ==
  ASSUME NEW X, NEW s \in Seq(X), NEW S, S \subseteq 1 .. Len(s)
  PROVE  /\ Sublist(s, S) \in Seq(X)
         /\ Len(Sublist(s, S)) = Cardinality(S) /\ Cardinality(S) \in Nat
<1>1. /\ Cardinality(S) \in Nat
      /\ \A k \in 1 .. Cardinality(S) : Nth(S, k) \in S
  <2>1. Len(s) \in Nat
    OBVIOUS
  <2> QED BY <2>1, NthFacts
<1>2. \A k \in 1 .. Cardinality(S) : s[Nth(S, k)] \in X
  <2>1. \A i \in 1 .. Len(s) : s[i] \in X
    OBVIOUS
  <2> QED BY <1>1, <2>1
<1> DEFINE q == [k \in 1 .. Cardinality(S) |-> s[Nth(S, k)]]
<1>3. q \in [1 .. Cardinality(S) -> X]
  BY <1>2
<1>4. q \in Seq(X) /\ Len(q) = Cardinality(S)
  BY <1>1, <1>3
<1> QED BY <1>1, <1>4 DEF Sublist

-------------------------------------------------------------------------------
(* The row, field by field.                                                *)

Filed(d, prior, env, date, source) ==
  [BandVerdict(d, prior, env) EXCEPT !.date = date, !.run_source = source]

\* A document with a verdict: one result at least, all of them in the cohort.
Usable(good) == good # <<>> /\ \A i \in DOMAIN good : good[i].in_cohort

\* What every row says of its document, and what the row of a usable one says
\* besides.
LEMMA RowFields ==
  ASSUME NEW d, NEW prior, NEW env, NEW date, NEW source, NEW v,
         v = Filed(d, prior, env, date, source),
         NEW good, good = Good(d.runs), NEW card, card = Scorecard(good, d.price)
  PROVE  /\ v.price = d.price /\ v.n_basis = Len(good) /\ v.spread = Spread(good)
         /\ v.flags = NotAResult(d) /\ v.env = env
         /\ v.gate_version = GateVersion /\ v.run_source = source
         /\ ~Usable(good) => /\ v.direction = "NOT_USABLE"
                             /\ v.kelly = 0 /\ v.size = NoSize
         /\ Usable(good) =>
              /\ v.direction = Direction(good, d.price)
              /\ v.base = card.base /\ v.crux_valid = CruxValid(good)
              /\ v.fiduciary = FiduciaryVerdict(card, d.price)
              /\ v.kelly = IF v.fiduciary = "FAIL" THEN 0
                           ELSE Sanitized(card, d.price).kelly
              /\ v.size = IF v.fiduciary = "FAIL" THEN Zero
                          ELSE SizeHint(d, good, card, v.direction, env)
<1>1. CASE good = <<>>
  BY <1>1 DEF Filed, Usable, BandVerdict
<1>2. CASE good # <<>> /\ \E i \in DOMAIN good : ~good[i].in_cohort
  BY <1>2 DEF Filed, Usable, BandVerdict
<1>3. CASE good # <<>> /\ ~\E i \in DOMAIN good : ~good[i].in_cohort
  BY <1>3 DEF Filed, Usable, BandVerdict
<1> QED BY <1>1, <1>2, <1>3

\* A direction that is not withheld is the band's, on agreeing draws, all of
\* them with a valid stated disagreement.
LEMMA Directional ==
  ASSUME NEW good, NEW price, Direction(good, price) # "hold"
  PROVE  /\ Direction(good, price) \in {"undervalued", "overvalued"}
         /\ CruxValid(good) /\ ~(Spread(good) > 250)
         /\ Direction(good, price) = "undervalued" => price < Low(good)
         /\ Direction(good, price) = "overvalued" => price > High(good)
BY DEF Direction, Quarantined, Band

\* The reasons a later argument looks at, each by its own condition.
LEMMA ReasonsSay ==
  ASSUME NEW v
  PROVE  /\ "not_usable" \in Reasons(v) <=> v.direction \notin Directions
         /\ "pre_gates" \in Reasons(v) <=> v.gate_version < GateVersion
         /\ "single_sample" \in Reasons(v) <=> v.n_basis = 1
         /\ "kelly_on_overvalued" \in Reasons(v) <=>
               v.direction = "overvalued" /\ v.kelly > 0
         /\ "high_dispersion" \in Reasons(v) <=>
               v.direction \in {"undervalued", "overvalued"} /\ v.spread > 250
         /\ "non_production_row" \in Reasons(v) <=> v.run_source = "manual"
         /\ "low_effort_rescue" \in Reasons(v) <=> "LOW_EFFORT_RESCUE" \in v.flags
         /\ "sample_failed" \in Reasons(v) <=> "SAMPLE_FAILED" \in v.flags
         /\ "directional_without_valid_crux" \in Reasons(v) <=>
               v.direction \in {"undervalued", "overvalued"} /\ ~v.crux_valid
BY DEF Reasons

-------------------------------------------------------------------------------
(* Results, and what is computed from them.                                *)

\* A list of results: samples that state a value.
Drawn(good) == good \in Seq(Outcomes) /\ \A i \in DOMAIN good : good[i].iv > 0

LEMMA OutcomeTypes ==
  ASSUME NEW s \in Outcomes
  PROVE  /\ s.iv \in Nat /\ s.base \in Nat /\ s.bull \in Nat /\ s.bear \in Nat
         /\ s.wBase \in Nat /\ s.wBull \in Nat /\ s.wBear \in Nat
         /\ s.kelly \in Nat /\ s.moat \in Nat /\ s.conviction \in Nat
         /\ s.falsifiable \in BOOLEAN
         /\ s.base \in {s.iv, Missing}
BY OutcomesAssumption DEF Sample

\* The results of a run are of its samples, and at most as many.
LEMMA GoodFacts ==
  ASSUME NEW runs \in Seq(Outcomes)
  PROVE  /\ Drawn(Good(runs))
         /\ Len(Good(runs)) \in Nat /\ Len(Good(runs)) <= Len(runs)
<1> DEFINE S == {i \in DOMAIN runs : CountsAsResult(runs[i])}
           g == Good(runs)
<1>1. /\ Len(runs) \in Nat /\ S \subseteq 1 .. Len(runs)
      /\ \A i \in S : runs[i].iv > 0
  BY DEF CountsAsResult
<1>2. g = Sublist(runs, S)
  BY DEF Good
<1> HIDE DEF S, g
<1>3. /\ g \in Seq(Outcomes)
      /\ Len(g) = Cardinality(S) /\ Cardinality(S) \in Nat
  BY <1>1, <1>2, SublistFacts
<1>4. \A k \in 1 .. Cardinality(S) : Nth(S, k) \in S
  BY <1>1, NthFacts
<1>5. \A k \in DOMAIN g : g[k].iv > 0
  <2> TAKE k \in DOMAIN g
  <2>1. k \in 1 .. Cardinality(S)
    BY <1>3
  <2>2. g[k] = runs[Nth(S, k)]
    BY <1>2, <2>1 DEF Sublist
  <2> QED BY <1>1, <1>4, <2>1, <2>2
<1>6. Cardinality(S) <= Len(runs)
  <2>1. IsFiniteSet(1 .. Len(runs)) /\ Cardinality(1 .. Len(runs)) = Len(runs)
    <3>1. Len(runs) \in Nat
      OBVIOUS
    <3> QED BY <3>1, Positions
  <2> QED BY <1>1, <2>1, FS_Subset
<1> QED BY <1>3, <1>5, <1>6 DEF Drawn, g

\* The values of a list are finitely many.
LEMMA ValuesFinite ==
  ASSUME NEW s \in Seq(Int)
  PROVE  /\ IsFiniteSet(Values(s)) /\ Values(s) \subseteq Int
         /\ s # <<>> => Values(s) # {}
         /\ \A i \in DOMAIN s : s[i] \in Values(s)
         /\ \A x \in Values(s) : \E i \in DOMAIN s : x = s[i]
<1>1. Len(s) \in Nat /\ DOMAIN s = 1 .. Len(s) /\ \A i \in DOMAIN s : s[i] \in Int
  OBVIOUS
<1>2. s \in Surjection(1 .. Len(s), Values(s))
  BY <1>1 DEF Surjection, Values
<1>3. IsFiniteSet(1 .. Len(s))
  BY <1>1, Positions
<1>4. IsFiniteSet(Values(s))
  BY <1>2, <1>3, FS_Surjection
<1>5. s # <<>> => 1 \in DOMAIN s
  BY <1>1
<1> QED BY <1>1, <1>4, <1>5 DEF Values

\* No element is above the largest, so all are at most it.
LEMMA AtMostFacts ==
  ASSUME NEW s \in Seq(Int), NEW x \in Int
  PROVE  /\ AtMost(s, x) \in Nat /\ Len(s) \in Nat
         /\ (\A i \in DOMAIN s : s[i] <= x) => AtMost(s, x) = Len(s)
<1>1. Len(s) \in Nat /\ DOMAIN s = 1 .. Len(s)
  OBVIOUS
<1>2. IsFiniteSet(1 .. Len(s)) /\ Cardinality(1 .. Len(s)) = Len(s)
  BY <1>1, Positions
<1>3. {i \in DOMAIN s : s[i] <= x} \subseteq 1 .. Len(s)
  BY <1>1
<1>4. AtMost(s, x) \in Nat
  BY <1>2, <1>3, FS_Subset, FS_CardinalityType DEF AtMost
<1>5. ASSUME \A i \in DOMAIN s : s[i] <= x PROVE AtMost(s, x) = Len(s)
  <2>1. {i \in DOMAIN s : s[i] <= x} = 1 .. Len(s)
    BY <1>1, <1>5
  <2> QED BY <1>2, <2>1 DEF AtMost
<1> QED BY <1>1, <1>4, <1>5

\* The median of a list of naturals lies between two of its values.
LEMMA MedianFacts ==
  ASSUME NEW s \in Seq(Nat), s # <<>>
  PROVE  /\ Median(s) \in Nat
         /\ \E i \in DOMAIN s : s[i] <= Median(s)
         /\ \E i \in DOMAIN s : Median(s) <= s[i]
<1> DEFINE A == {x \in Values(s) : 2 * AtMost(s, x) >= Len(s)}
           B == {x \in Values(s) : 2 * AtMost(s, x) > Len(s)}
           low == Smallest(A)
           high == Smallest(B)
           top == Largest(Values(s))
<1>1. s \in Seq(Int) /\ Len(s) \in Nat /\ Len(s) > 0
      /\ \A i \in DOMAIN s : s[i] \in Nat
  OBVIOUS
<1>2. /\ IsFiniteSet(Values(s)) /\ Values(s) \subseteq Int /\ Values(s) # {}
      /\ \A i \in DOMAIN s : s[i] \in Values(s)
      /\ \A x \in Values(s) : \E i \in DOMAIN s : x = s[i]
  BY <1>1, ValuesFinite
<1>3. top \in Values(s) /\ \A y \in Values(s) : y <= top
  BY <1>2, Extremes
<1>4. AtMost(s, top) = Len(s)
  <2>1. top \in Int /\ \A i \in DOMAIN s : s[i] <= top
    BY <1>2, <1>3
  <2> QED BY <1>1, <2>1, AtMostFacts
<1>5. top \in A /\ top \in B
  BY <1>1, <1>3, <1>4
<1>6. A \subseteq Values(s) /\ B \subseteq Values(s) /\ B \subseteq A
  <2>1. \A x \in Values(s) : AtMost(s, x) \in Nat
    BY <1>1, <1>2, AtMostFacts
  <2> QED BY <1>1, <2>1
<1> HIDE DEF A, B
<1>7. IsFiniteSet(A) /\ IsFiniteSet(B) /\ A \subseteq Int /\ B \subseteq Int
  BY <1>2, <1>6, FS_Subset
<1>8. low \in A /\ high \in B /\ \A y \in A : low <= y
  BY <1>5, <1>7, Extremes
<1> HIDE DEF low, high, top
<1>9. PICK i \in DOMAIN s, j \in DOMAIN s : low = s[i] /\ high = s[j]
  BY <1>2, <1>6, <1>8
<1>10. low \in Nat /\ high \in Nat /\ low <= high
  BY <1>1, <1>6, <1>8, <1>9
<1>11. Median(s) = (low + high) \div 2
  BY DEF Median, low, high, A, B
<1>12. Median(s) \in Nat /\ low <= Median(s) /\ Median(s) <= high
  BY <1>10, <1>11
<1> QED BY <1>9, <1>12

\* Low and High are the ends of the values drawn.
LEMMA LowHigh ==
  ASSUME NEW good, Drawn(good), good # <<>>
  PROVE  /\ Low(good) \in Nat \ {0} /\ High(good) \in Nat /\ Low(good) <= High(good)
         /\ \A i \in DOMAIN good : Low(good) <= good[i].iv /\ good[i].iv <= High(good)
         /\ Ivs(good) \in Seq(Nat) /\ Ivs(good) # <<>>
<1> DEFINE s == Ivs(good)
<1>1. /\ good \in Seq(Outcomes) /\ Len(good) \in Nat
      /\ DOMAIN good = 1 .. Len(good) /\ Len(good) > 0
  BY DEF Drawn
<1>2. \A i \in DOMAIN good : good[i].iv \in Nat /\ good[i].iv > 0
  BY <1>1, OutcomeTypes DEF Drawn
<1>3. /\ s \in [1 .. Len(good) -> Nat] /\ s \in Seq(Nat) /\ s \in Seq(Int) /\ s # <<>>
      /\ DOMAIN s = DOMAIN good /\ \A i \in DOMAIN good : s[i] = good[i].iv
  <2>1. s \in [1 .. Len(good) -> Nat]
    BY <1>1, <1>2 DEF Ivs
  <2>2. s \in Seq(Nat) /\ DOMAIN s = DOMAIN good
    BY <1>1, <2>1
  <2>3. s # <<>>
    BY <1>1, <2>2
  <2> QED BY <2>1, <2>2, <2>3 DEF Ivs
<1> HIDE DEF s
<1>4. /\ IsFiniteSet(Values(s)) /\ Values(s) \subseteq Int /\ Values(s) # {}
      /\ \A i \in DOMAIN s : s[i] \in Values(s)
      /\ \A x \in Values(s) : \E i \in DOMAIN s : x = s[i]
  BY <1>3, ValuesFinite
<1>5. /\ Low(good) \in Values(s) /\ \A y \in Values(s) : Low(good) <= y
      /\ High(good) \in Values(s) /\ \A y \in Values(s) : y <= High(good)
  BY <1>4, Extremes DEF Low, High, s
<1>6. /\ \A i \in DOMAIN good : Low(good) <= good[i].iv /\ good[i].iv <= High(good)
      /\ \E i \in DOMAIN good : Low(good) = good[i].iv
      /\ \E i \in DOMAIN good : High(good) = good[i].iv
  <2>1. \A i \in DOMAIN good : good[i].iv \in Values(s)
    BY <1>3, <1>4
  <2>2. \A x \in Values(s) : \E i \in DOMAIN good : x = good[i].iv
    BY <1>3, <1>4
  <2> QED BY <1>5, <2>1, <2>2
<1>7. Low(good) \in Nat \ {0} /\ High(good) \in Nat /\ Low(good) <= High(good)
  BY <1>2, <1>6
<1> QED BY <1>3, <1>6, <1>7 DEF s

\* The median moat is a number, whichever candidates state one.
LEMMA MedianMoatType ==
  ASSUME NEW good, Drawn(good), NEW price
  PROVE  MedianMoat(good, price) \in Nat
<1> DEFINE T == {i \in Candidates(good, price) : good[i].moat # Missing}
           s == Sublist(good, T)
           m == [i \in DOMAIN s |-> s[i].moat]
<1>1. good \in Seq(Outcomes) /\ T \subseteq 1 .. Len(good)
  BY DEF Drawn, Candidates
<1>2. MedianMoat(good, price) = IF s = <<>> THEN 30 ELSE Median(m)
  BY DEF MedianMoat
<1> HIDE DEF T
<1>3. s \in Seq(Outcomes)
  BY <1>1, SublistFacts
<1> HIDE DEF s
<1>4. CASE s = <<>>
  BY <1>2, <1>4
<1>5. CASE s # <<>>
  <2>1. Len(s) \in Nat /\ DOMAIN s = 1 .. Len(s) /\ \A i \in DOMAIN s : s[i].moat \in Nat
    BY <1>3, OutcomeTypes
  <2>2. m \in [1 .. Len(s) -> Nat]
    BY <2>1
  <2>3. m \in Seq(Nat) /\ m # <<>>
    BY <1>3, <1>5, <2>1, <2>2
  <2> HIDE DEF m
  <2>4. Median(m) \in Nat
    BY <2>3, MedianFacts
  <2> QED BY <1>2, <1>5, <2>4
<1> QED BY <1>4, <1>5

LEMMA DistanceType ==
  ASSUME NEW c \in Outcomes, NEW iv \in Nat, NEW moat \in Nat
  PROVE  Distance(c, iv, moat) \in Int
<1>1. c.base \in Nat /\ c.moat \in Nat
  BY OutcomeTypes
<1>2. c.base - iv \in Int /\ c.moat - moat \in Int
  BY <1>1
<1>3. \A x, y \in Int : x * y \in Int /\ x + y \in Int
  OBVIOUS
<1>4. (c.base - iv) * (c.base - iv) * moat * moat \in Int
  BY <1>2, <1>3
<1>5. (c.moat - moat) * (c.moat - moat) * iv * iv \in Int
  BY <1>2, <1>3
<1> QED BY <1>3, <1>4, <1>5 DEF Distance

\* The medoid is a candidate: the candidates are ordered by distance and then
\* by position, and of finitely many one comes first.
LEMMA MedoidIn ==
  ASSUME NEW good, Drawn(good), NEW price, Candidates(good, price) # {}
  PROVE  Medoid(good, price) \in Candidates(good, price)
<1> DEFINE S == Candidates(good, price)
           dist == [i \in S |->
                      Distance(good[i], Median(Ivs(good)), MedianMoat(good, price))]
           R == {p \in S \X S : dist[p[1]] < dist[p[2]]
                                \/ (dist[p[1]] = dist[p[2]] /\ p[1] <= p[2])}
<1>1. /\ good \in Seq(Outcomes) /\ S \subseteq 1 .. Len(good) /\ Len(good) \in Nat
      /\ good # <<>>
  <2>1. good \in Seq(Outcomes) /\ S \subseteq 1 .. Len(good)
    BY DEF Drawn, Candidates
  <2> QED BY <2>1
<1>2. Median(Ivs(good)) \in Nat /\ MedianMoat(good, price) \in Nat
  BY <1>1, LowHigh, MedianFacts, MedianMoatType
<1>3. \A i \in S : dist[i] \in Int /\ i \in Int
  <2>1. \A i \in S : good[i] \in Outcomes /\ i \in Int
    BY <1>1
  <2> QED BY <1>2, <2>1, DistanceType
<1>4. IsFiniteSet(S)
  <2>1. IsFiniteSet(1 .. Len(good))
    BY <1>1, Positions
  <2> QED BY <1>1, <2>1, FS_Subset
<1>5. Medoid(good, price) = CHOOSE i \in S :
         \A j \in S : dist[i] < dist[j] \/ (dist[i] = dist[j] /\ i <= j)
  BY DEF Medoid
<1> HIDE DEF S, dist
<1>6. \A i, j \in S : <<i, j>> \in R <=>
         dist[i] < dist[j] \/ (dist[i] = dist[j] /\ i <= j)
  OBVIOUS
<1> HIDE DEF R
<1>7. /\ \A i \in S : <<i, i>> \in R
      /\ \A i, j \in S : <<i, j>> \in R /\ <<j, i>> \in R => i = j
      /\ \A i, j, k \in S : <<i, j>> \in R /\ <<j, k>> \in R => <<i, k>> \in R
  BY <1>3, <1>6
<1>8. \A i, j \in S : <<i, j>> \in R \/ <<j, i>> \in R
  <2> TAKE i, j \in S
  <2>1. \/ dist[i] < dist[j] \/ (dist[i] = dist[j] /\ i <= j)
        \/ dist[j] < dist[i] \/ (dist[j] = dist[i] /\ j <= i)
    BY <1>3
  <2> QED BY <1>6, <2>1
<1>9. \E i \in S : \A j \in S : <<i, j>> \in R
  <2>1. S # {}
    BY DEF S
  <2> QED BY <1>4, <1>7, <1>8, <2>1, Least
<1>10. \E i \in S : \A j \in S : dist[i] < dist[j] \/ (dist[i] = dist[j] /\ i <= j)
  BY <1>6, <1>9
<1> QED BY <1>5, <1>10 DEF S

\* The validator's clamp leaves a contract, and a Kelly fraction only where
\* there is a thesis and an edge.
LEMMA Clamped ==
  ASSUME NEW c \in Sample, NEW price
  PROVE  LET card == Sanitized(c, price)
         IN  /\ card \in Sample /\ card.kelly \in 0 .. 25
             /\ card.kelly > 0 => c.falsifiable = TRUE /\ ~NoEdge(c, price)
             /\ card.base = c.base /\ card.conviction = c.conviction
             /\ card.falsifiable = c.falsifiable
<1> DEFINE card == Sanitized(c, price)
           k == IF ~c.falsifiable \/ NoEdge(c, price) THEN 0 ELSE MinOf(25, c.kelly)
<1>1. c.kelly \in Nat /\ c.falsifiable \in BOOLEAN
  BY DEF Sample
<1>2. card = [c EXCEPT !.kelly = k]
  BY DEF Sanitized
<1>3. k \in 0 .. 25
  BY <1>1 DEF MinOf
<1>4. k > 0 => c.falsifiable = TRUE /\ ~NoEdge(c, price)
  BY <1>1
<1> HIDE DEF k, card
<1>5. card \in Sample
  BY <1>2, <1>3 DEF Sample
<1>6. /\ card.kelly = k /\ card.base = c.base /\ card.conviction = c.conviction
      /\ card.falsifiable = c.falsifiable
  BY <1>2 DEF Sample
<1> QED BY <1>3, <1>4, <1>5, <1>6 DEF card

\* The card published: a candidate's contract, clamped, or one without a thesis.
LEMMA CardFacts ==
  ASSUME NEW good, Drawn(good), good # <<>>, NEW price
  PROVE  LET card == Scorecard(good, price)
         IN  /\ card \in Sample
             /\ Candidates(good, price) = {} =>
                  card.falsifiable = FALSE /\ card.conviction = 0
             /\ Candidates(good, price) # {} =>
                  \E i \in DOMAIN good :
                     /\ card.base = good[i].base /\ card.base = good[i].iv
                     /\ card.conviction = good[i].conviction
<1> DEFINE card == Scorecard(good, price)
<1>1. good \in Seq(Outcomes) /\ Len(good) \in Nat /\ Len(good) > 0 /\ 1 \in DOMAIN good
  BY DEF Drawn
<1>2. CASE Candidates(good, price) = {}
  <2> DEFINE f == Fallback(good)
  <2>1. Median(Ivs(good)) \in Nat
    BY LowHigh, MedianFacts
  <2>2. good[1] \in Sample
    BY <1>1, OutcomesAssumption
  <2>3. card = Sanitized(f, price)
    BY <1>2 DEF Scorecard
  <2>4. f \in Sample
    BY <2>1, <2>2 DEF Fallback, Sample, Missing
  <2>5. f.conviction = 0 /\ f.falsifiable = FALSE
    BY <2>2 DEF Fallback, Sample, Missing
  <2> HIDE DEF f
  <2>6. /\ card \in Sample /\ card.conviction = f.conviction
        /\ card.falsifiable = f.falsifiable
    BY <2>3, <2>4, Clamped
  <2>7. card.falsifiable = FALSE /\ card.conviction = 0
    BY <2>5, <2>6
  <2> QED BY <1>2, <2>6, <2>7
<1>3. CASE Candidates(good, price) # {}
  <2> DEFINE i == Medoid(good, price)
           c == good[i]
  <2>1. i \in Candidates(good, price)
    BY <1>3, MedoidIn
  <2>2. i \in DOMAIN good /\ c.base > 0 /\ c \in Outcomes
    BY <1>1, <2>1 DEF Candidates, WellFormed
  <2>3. card = Sanitized(c, price)
    BY <1>3 DEF Scorecard
  <2> HIDE DEF i, c
  <2>4. c \in Sample
    BY <2>2, OutcomesAssumption
  <2>5. card \in Sample /\ card.base = c.base /\ card.conviction = c.conviction
    BY <2>3, <2>4, Clamped
  <2>6. c.base = c.iv
    BY <2>2, OutcomeTypes DEF Missing
  <2> QED BY <1>3, <2>2, <2>5, <2>6 DEF c
<1> QED BY <1>2, <1>3

LEMMA TwoAtLeast ==
  ASSUME NEW good, Drawn(good), good # <<>>, Len(good) # 1
  PROVE  Len(good) \in Nat /\ Len(good) >= 2
<1>1. good \in Seq(Outcomes)
  BY DEF Drawn
<1> DEFINE n == Len(good)
<1>2. n \in Nat /\ n # 0 /\ n # 1
  BY <1>1
<1> HIDE DEF n
<1>3. n \in Nat /\ n >= 2
  BY <1>2
<1> QED BY <1>3 DEF n

-------------------------------------------------------------------------------
(* What the row of a document that a loop can have left says of it.        *)

Fits(d) ==
  /\ d.runs \in Seq(Outcomes)
  /\ d.attempted \in Nat /\ Len(d.runs) <= d.attempted
  /\ d.early => d.attempted = 2
  /\ d.price \in Nat \ {0}

\* Rounded percentages, cross multiplied.
LEMMA TenthsBounds ==
  ASSUME NEW a \in Nat, NEW b \in Nat \ {0}
  PROVE  /\ Tenths(a, b) \in Int
         /\ b <= a => Tenths(a, b) \in Nat
         /\ Tenths(a, b) <= 150 => 1000 * a <= 1151 * b
         /\ Tenths(a, b) <= 300 => 1000 * a <= 1301 * b
         /\ Tenths(a, b) >= 250 => 1000 * a >= 1249 * b
<1> DEFINE x == 2000 * (a - b) + b
           y == 2 * b
           q == x \div y
<1>1. x \in Int /\ y \in Nat \ {0}
  OBVIOUS
<1>2. Tenths(a, b) = q
  BY DEF Tenths
<1> HIDE DEF x, y
<1>3. q \in Int /\ y * q <= x /\ x < y * q + y
  BY <1>1
<1> HIDE DEF q
<1>5. \A w \in Nat, u, v \in Int : u <= v => w * u <= w * v
  OBVIOUS
<1>6. ASSUME q <= 150 PROVE 1000 * a <= 1151 * b
  <2>1. y * q <= y * 150
    BY <1>1, <1>3, <1>5, <1>6
  <2>2. y * q \in Int /\ x < y * 150 + y
    BY <1>1, <1>3, <2>1
  <2> QED BY <2>2 DEF x, y
<1>7. ASSUME q <= 300 PROVE 1000 * a <= 1301 * b
  <2>1. y * q <= y * 300
    BY <1>1, <1>3, <1>5, <1>7
  <2>2. y * q \in Int /\ x < y * 300 + y
    BY <1>1, <1>3, <2>1
  <2> QED BY <2>2 DEF x, y
<1>8. ASSUME q >= 250 PROVE 1000 * a >= 1249 * b
  <2>1. y * 250 <= y * q
    BY <1>1, <1>3, <1>5, <1>8
  <2>2. y * q \in Int /\ y * 250 <= x
    BY <1>1, <1>3, <2>1
  <2> QED BY <2>2 DEF x, y
<1>9. ASSUME b <= a PROVE q \in Nat
  <2>1. CASE q < 0
    <3>1. y * q <= y * (-1)
      BY <1>1, <1>3, <1>5, <2>1
    <3>2. y * q \in Int /\ x < 0
      BY <1>1, <1>3, <3>1
    <3> QED BY <1>9, <3>2 DEF x
  <2> QED BY <1>3, <2>1
<1> QED BY <1>2, <1>3, <1>6, <1>7, <1>8, <1>9

LEMMA SpreadFacts ==
  ASSUME NEW good, Drawn(good), good # <<>>
  PROVE  /\ Spread(good) \in Nat
         /\ Len(good) >= 2 /\ Spread(good) <= 150 =>
              1000 * High(good) <= 1151 * Low(good)
         /\ Len(good) >= 2 /\ Spread(good) <= 300 =>
              1000 * High(good) <= 1301 * Low(good)
<1>1. Low(good) \in Nat \ {0} /\ High(good) \in Nat /\ Low(good) <= High(good)
  BY LowHigh
<1> DEFINE hi == High(good)
           lo == Low(good)
           t == Tenths(hi, lo)
<1>3. Spread(good) = IF Len(good) >= 2 THEN t ELSE 0
  BY DEF Spread
<1> HIDE DEF hi, lo
<1>2. /\ t \in Nat
      /\ t <= 150 => 1000 * hi <= 1151 * lo
      /\ t <= 300 => 1000 * hi <= 1301 * lo
  <2>1. hi \in Nat /\ lo \in Nat \ {0} /\ lo <= hi
    BY <1>1 DEF hi, lo
  <2> QED BY <2>1, TenthsBounds
<1> HIDE DEF t
<1> QED BY <1>2, <1>3 DEF hi, lo

\* A position is a minimum: each of its four limits is at least as large.
LEMMA SizeLimits ==
  ASSUME NEW d, NEW good, Drawn(good), good # <<>>, NEW card, card.base \in Nat,
         card.conviction \in Nat, d.price \in Nat \ {0}, NEW side, NEW env,
         NEW size, size = SizeHint(d, good, card, side, env)
  PROVE  /\ size \in {Quarter, Half, Full}
         /\ size \in {Half, Full} => Len(good) # 1 /\ Spread(good) <= 300
         /\ size = Full =>
              /\ Spread(good) <= 150 /\ card.conviction >= 11
              /\ Tenths(card.base, d.price) >= 250
              /\ d.attempted = 3 /\ Len(good) = 2 => d.early
<1> DEFINE momentum == /\ PositionBasis(good, MedoidSample(good, d.price), side) = "momentum"
                       /\ Eligible(env.momentum, card.base, d.price)
           t == Tenths(card.base, d.price)
           disp == DispersionBucket(Spread(good))
           edge == IF momentum THEN BasisBucket(side) ELSE MosBucket(t)
           conv == ConvictionBucket(card.conviction)
           risk == RiskBucket(env.risk)
           s == MinOf(MinOf(disp, edge), MinOf(conv, risk))
<1>1. Spread(good) \in Nat /\ t \in Int
  <2>1. Spread(good) \in Nat
    BY SpreadFacts
  <2>2. \A a \in Nat, b \in Nat \ {0} : Tenths(a, b) \in Int
    BY TenthsBounds
  <2> QED BY <2>1, <2>2
<1>2. size = IF Len(good) = 1 THEN Quarter
             ELSE IF d.attempted = 3 /\ Len(good) = 2 /\ ~d.early THEN MinOf(s, Half)
             ELSE s
  BY DEF SizeHint
<1>3. /\ disp \in {1, 2, 3}
      /\ disp >= 2 => Spread(good) <= 300
      /\ disp = 3 => Spread(good) <= 150
  BY <1>1 DEF DispersionBucket, Quarter, Half, Full
<1>4. edge \in {1, 2, 3} /\ (edge = 3 => t >= 250)
  BY <1>1 DEF MosBucket, BasisBucket, Quarter, Half, Full
<1>5. conv \in {1, 2, 3} /\ (conv = 3 => card.conviction >= 11)
  BY DEF ConvictionBucket, Quarter, Half, Full
<1>6. risk \in {2, 3}
  BY DEF RiskBucket, Half, Full
<1> HIDE DEF disp, edge, conv, risk, t
<1>7. /\ s \in {1, 2, 3} /\ s <= disp /\ s <= edge /\ s <= conv
      /\ MinOf(s, Half) \in {1, 2} /\ MinOf(s, Half) <= s
  BY <1>3, <1>4, <1>5, <1>6 DEF MinOf, Half
<1> HIDE DEF s
<1>8. size \in {1, 2, 3} /\ (size = 3 => size = s) /\ (size >= 2 => size <= s /\ Len(good) # 1)
  BY <1>2, <1>7 DEF Quarter
<1>9. size = 3 /\ d.attempted = 3 /\ Len(good) = 2 => d.early
  BY <1>2, <1>7 DEF Quarter
<1>10. size >= 2 => disp >= 2
  BY <1>3, <1>7, <1>8
<1>11. size = 3 => disp = 3 /\ edge = 3 /\ conv = 3
  BY <1>3, <1>4, <1>5, <1>7, <1>8
<1> QED BY <1>3, <1>4, <1>5, <1>8, <1>9, <1>10, <1>11 DEF Quarter, Half, Full, t

\* The direction and the Kelly fraction of a row cannot contradict each other,
\* nor the stated disagreement and the spread: the checks of the gate on the
\* label code find nothing.
LEMMA RowAgrees ==
  ASSUME NEW d, Fits(d), NEW prior, NEW env, NEW date, NEW source, NEW v,
         v = Filed(d, prior, env, date, source)
  PROVE  /\ Reasons(v) \cap {"kelly_on_overvalued", "high_dispersion",
                             "directional_without_valid_crux", "pre_gates"} = {}
         /\ v.kelly > 0 =>
              /\ v.base > d.price
              /\ \E i \in DOMAIN Good(d.runs) : Good(d.runs)[i].base = v.base
              /\ v.direction # "overvalued"
              /\ v.size # Zero
<1> DEFINE good == Good(d.runs)
           card == Scorecard(good, d.price)
<1>1. /\ v.price = d.price /\ v.spread = Spread(good) /\ v.gate_version = GateVersion
      /\ ~Usable(good) => v.direction = "NOT_USABLE" /\ v.kelly = 0
      /\ Usable(good) =>
              /\ v.direction = Direction(good, d.price)
              /\ v.base = card.base /\ v.crux_valid = CruxValid(good)
              /\ v.fiduciary = FiduciaryVerdict(card, d.price)
              /\ v.kelly = IF v.fiduciary = "FAIL" THEN 0
                           ELSE Sanitized(card, d.price).kelly
              /\ v.size = IF v.fiduciary = "FAIL" THEN Zero
                          ELSE SizeHint(d, good, card, v.direction, env)
  BY RowFields
<1>2. Drawn(good) /\ d.price \in Nat \ {0}
  BY GoodFacts DEF Fits
<1> HIDE DEF good, card
<1>3. ASSUME v.kelly > 0
      PROVE  /\ v.base > d.price
             /\ \E i \in DOMAIN good : good[i].base = v.base
             /\ v.direction # "overvalued"
             /\ v.size # Zero
  <2>1. Usable(good) /\ v.fiduciary # "FAIL"
    BY <1>1, <1>3
  <2>2. good # <<>> /\ v.base = card.base /\ v.kelly = Sanitized(card, d.price).kelly
    BY <1>1, <2>1 DEF Usable
  <2>3. /\ card \in Sample
        /\ Candidates(good, d.price) = {} => card.falsifiable = FALSE
        /\ Candidates(good, d.price) # {} =>
             \E i \in DOMAIN good : card.base = good[i].base /\ card.base = good[i].iv
    <3> DEFINE price == d.price
    <3>1. card = Scorecard(good, price)
      BY DEF card
    <3> HIDE DEF price
    <3>2. Drawn(good) /\ good # <<>>
      BY <1>2, <2>2
    <3>3. /\ card \in Sample
          /\ Candidates(good, price) = {} =>
               card.falsifiable = FALSE /\ card.conviction = 0
          /\ Candidates(good, price) # {} =>
               \E i \in DOMAIN good :
                  /\ card.base = good[i].base /\ card.base = good[i].iv
                  /\ card.conviction = good[i].conviction
      BY <3>1, <3>2, CardFacts
    <3> QED BY <3>3 DEF price
  <2>4. card.falsifiable = TRUE /\ ~NoEdge(card, d.price)
    BY <1>3, <2>2, <2>3, Clamped
  <2>5. card.base \in Nat /\ card.conviction \in Nat /\ card.base > d.price
    BY <1>2, <2>3, <2>4 DEF NoEdge, Sample
  <2>6. PICK i \in DOMAIN good : card.base = good[i].base /\ card.base = good[i].iv
    BY <2>3, <2>4
  <2>7. v.direction # "overvalued"
    <3>1. SUFFICES ASSUME v.direction = "overvalued" PROVE FALSE
      OBVIOUS
    <3>2. d.price > High(good)
      BY <1>1, <2>1, <3>1, Directional
    <3>3. High(good) \in Nat /\ good[i].iv <= High(good)
      BY <1>2, <2>2, LowHigh
    <3> QED BY <1>2, <2>5, <2>6, <3>2, <3>3
  <2>8. v.size \in {Quarter, Half, Full}
    <3>1. v.size = SizeHint(d, good, card, v.direction, env)
      BY <1>1, <2>1
    <3> QED BY <1>2, <2>2, <2>5, <3>1, SizeLimits
  <2>9. v.size # Zero
    BY <2>8 DEF Zero, Quarter, Half, Full
  <2>10. v.base > d.price
    BY <2>2, <2>5
  <2>11. good[i].base = v.base
    BY <2>2, <2>6
  <2> QED BY <2>7, <2>9, <2>10, <2>11
<1>4. v.direction \in {"undervalued", "overvalued"} =>
         v.crux_valid /\ ~(v.spread > 250)
  <2>1. SUFFICES ASSUME v.direction \in {"undervalued", "overvalued"}
                 PROVE  v.crux_valid /\ ~(v.spread > 250)
    OBVIOUS
  <2>2. Usable(good)
    BY <1>1, <2>1
  <2>3. CruxValid(good) /\ ~(Spread(good) > 250)
    BY <1>1, <2>1, <2>2, Directional
  <2> QED BY <1>1, <2>2, <2>3
<1>5. "pre_gates" \notin Reasons(v)
  BY <1>1, ReasonsSay DEF GateVersion
<1>6. "kelly_on_overvalued" \notin Reasons(v)
  BY <1>3, ReasonsSay
<1>7. /\ "high_dispersion" \notin Reasons(v)
      /\ "directional_without_valid_crux" \notin Reasons(v)
  BY <1>4, ReasonsSay
<1> QED BY <1>3, <1>5, <1>6, <1>7 DEF good

\* A row that no gate stops rests on a complete run of results, all of them on
\* the side of the price it names.
LEMMA RowIsSound ==
  ASSUME NEW d, Fits(d), NEW prior, NEW env, NEW date, NEW source, NEW v,
         v = Filed(d, prior, env, date, source), Actionable(v),
         NEW good, good = Good(d.runs)
  PROVE  /\ Len(good) >= 2 /\ d.attempted = Len(d.runs)
         /\ \A i \in DOMAIN d.runs : d.runs[i].faults \cap {"failed", "reduced"} = {}
         /\ source # "manual"
         /\ v.direction # "hold" =>
              /\ CruxValid(good)
              /\ \A i \in DOMAIN good :
                    IF v.direction = "undervalued" THEN good[i].iv > d.price
                    ELSE good[i].iv < d.price
<1>1. /\ v.n_basis = Len(good) /\ v.flags = NotAResult(d) /\ v.run_source = source
      /\ ~Usable(good) => v.direction = "NOT_USABLE"
      /\ Usable(good) => v.direction = Direction(good, d.price)
  BY RowFields
<1>2. Drawn(good) /\ d.price \in Nat \ {0} /\ Len(good) \in Nat
  BY GoodFacts DEF Fits
<1>3. /\ v.direction \in Directions /\ v.n_basis # 1 /\ v.run_source # "manual"
      /\ "LOW_EFFORT_RESCUE" \notin v.flags /\ "SAMPLE_FAILED" \notin v.flags
  BY ReasonsSay DEF Actionable
<1>4. Usable(good) /\ good # <<>> /\ Len(good) >= 2
  <2>1. Usable(good) /\ good # <<>>
    BY <1>1, <1>3 DEF Directions, Usable
  <2>2. Len(good) # 1
    BY <1>1, <1>3
  <2> QED BY <1>2, <2>1, <2>2, TwoAtLeast
<1>5. /\ ~(d.attempted > Len(d.runs))
      /\ \A i \in DOMAIN d.runs : /\ "reduced" \notin d.runs[i].faults
                                  /\ "failed" \notin d.runs[i].faults
  BY <1>1, <1>3 DEF NotAResult
<1>6. d.attempted = Len(d.runs)
  <2>1. Len(d.runs) \in Nat /\ d.attempted \in Nat /\ Len(d.runs) <= d.attempted
    BY DEF Fits
  <2> QED BY <1>5, <2>1
<1>7. ASSUME v.direction # "hold"
      PROVE  /\ CruxValid(good)
             /\ \A i \in DOMAIN good :
                   IF v.direction = "undervalued" THEN good[i].iv > d.price
                   ELSE good[i].iv < d.price
  <2>1. /\ v.direction \in {"undervalued", "overvalued"} /\ CruxValid(good)
        /\ v.direction = "undervalued" => d.price < Low(good)
        /\ v.direction = "overvalued" => d.price > High(good)
    BY <1>1, <1>4, <1>7, Directional
  <2>2. /\ Low(good) \in Nat /\ High(good) \in Nat
        /\ \A i \in DOMAIN good : Low(good) <= good[i].iv /\ good[i].iv <= High(good)
    BY <1>2, <1>4, LowHigh
  <2>3. \A i \in DOMAIN good : good[i].iv \in Nat
    BY <1>2, OutcomeTypes DEF Drawn
  <2> QED BY <1>2, <2>1, <2>2, <2>3
<1> QED BY <1>1, <1>3, <1>4, <1>5, <1>6, <1>7

\* A position of half or more rests on agreeing results; a full one on every
\* sample of a loop of three at most, a base well above the price and a
\* conviction that one of the results states.
LEMMA RowIsEarned ==
  ASSUME NEW d, Fits(d), d.attempted <= 3,
         NEW prior, NEW env, NEW date, NEW source, NEW v,
         v = Filed(d, prior, env, date, source), v.size \in {Half, Full},
         NEW good, good = Good(d.runs)
  PROVE  /\ Len(good) >= 2
         /\ 1000 * High(good) <= 1301 * Low(good)
         /\ v.size = Full =>
              /\ Len(good) = d.attempted
              /\ 1000 * High(good) <= 1151 * Low(good)
              /\ 1000 * v.base >= 1249 * d.price
              /\ \E i \in DOMAIN good : good[i].conviction >= 11
<1> DEFINE card == Scorecard(good, d.price)
<1>1. /\ ~Usable(good) => v.size = NoSize
      /\ Usable(good) => /\ v.base = card.base
                         /\ v.size = IF v.fiduciary = "FAIL" THEN Zero
                                     ELSE SizeHint(d, good, card, v.direction, env)
  BY RowFields
<1>2. /\ Drawn(good) /\ d.price \in Nat \ {0}
      /\ Len(good) \in Nat /\ Len(good) <= d.attempted /\ d.attempted \in Nat
  <2>1. /\ d.runs \in Seq(Outcomes) /\ Len(d.runs) \in Nat /\ d.attempted \in Nat
        /\ Len(d.runs) <= d.attempted /\ d.price \in Nat \ {0}
    BY DEF Fits
  <2>2. Drawn(good) /\ Len(good) \in Nat /\ Len(good) <= Len(d.runs)
    BY <2>1, GoodFacts
  <2> QED BY <2>1, <2>2
<1>3. /\ Usable(good) /\ good # <<>> /\ v.base = card.base
      /\ v.size = SizeHint(d, good, card, v.direction, env)
  BY <1>1 DEF Usable, Zero, Half, Full, NoSize
<1>4. /\ card \in Sample
      /\ Candidates(good, d.price) = {} => card.conviction = 0
      /\ Candidates(good, d.price) # {} =>
           \E i \in DOMAIN good : card.conviction = good[i].conviction
  <2> DEFINE price == d.price
  <2>1. card = Scorecard(good, price)
    OBVIOUS
  <2> HIDE DEF price, card
  <2>2. /\ card \in Sample
        /\ Candidates(good, price) = {} => card.conviction = 0
        /\ Candidates(good, price) # {} =>
             \E i \in DOMAIN good : card.conviction = good[i].conviction
    BY <1>2, <1>3, <2>1, CardFacts
  <2> QED BY <2>2 DEF price
<1> HIDE DEF card
<1>5. card.base \in Nat /\ card.conviction \in Nat
  BY <1>4 DEF Sample
<1>6. /\ Len(good) # 1 /\ Spread(good) <= 300
      /\ v.size = Full =>
           /\ Spread(good) <= 150 /\ card.conviction >= 11
           /\ Tenths(card.base, d.price) >= 250
           /\ d.attempted = 3 /\ Len(good) = 2 => d.early
  BY <1>2, <1>3, <1>5, SizeLimits
<1>7. Len(good) >= 2
  BY <1>2, <1>3, <1>6, TwoAtLeast
<1>8. /\ 1000 * High(good) <= 1301 * Low(good)
      /\ v.size = Full => 1000 * High(good) <= 1151 * Low(good)
  BY <1>2, <1>3, <1>6, <1>7, SpreadFacts
<1>9. ASSUME v.size = Full
      PROVE  /\ Len(good) = d.attempted
             /\ 1000 * v.base >= 1249 * d.price
             /\ \E i \in DOMAIN good : good[i].conviction >= 11
  <2>1. Len(good) = d.attempted
    <3>1. d.early => d.attempted = 2
      BY DEF Fits
    <3> DEFINE n == Len(good)
               k == d.attempted
    <3>2. ~(k = 3 /\ n = 2)
      BY <1>6, <1>9, <3>1
    <3>3. n \in Nat /\ k \in Nat /\ n <= k /\ k <= 3 /\ n >= 2
      BY <1>2, <1>7
    <3> HIDE DEF n, k
    <3>4. n = k
      BY <3>2, <3>3
    <3> QED BY <3>4 DEF n, k
  <2>2. 1000 * v.base >= 1249 * d.price
    <3>1. \A a \in Nat, b \in Nat \ {0} : Tenths(a, b) >= 250 => 1000 * a >= 1249 * b
      BY TenthsBounds
    <3> QED BY <1>2, <1>3, <1>5, <1>6, <1>9, <3>1
  <2>3. Candidates(good, d.price) # {}
    BY <1>4, <1>6, <1>9
  <2> QED BY <1>4, <1>6, <1>9, <2>1, <2>2, <2>3
<1> QED BY <1>7, <1>8, <1>9

-------------------------------------------------------------------------------
(* The direction is a function of the bag of results.                      *)

\* A list and the same list in another order.
Permuted(s, t, p) ==
  /\ p \in Bijection(DOMAIN s, DOMAIN s)
  /\ t = [i \in DOMAIN s |-> s[p[i]]]

LEMMA ShuffledIsPermuted ==
  ASSUME NEW X, NEW s \in Seq(X), NEW t \in Shuffled(s)
  PROVE  /\ \E p : Permuted(s, t, p)
         /\ t \in Seq(X) /\ Len(t) = Len(s) /\ DOMAIN t = DOMAIN s
<1>1. PICK p \in [DOMAIN s -> DOMAIN s] :
         /\ \A i, j \in DOMAIN s : p[i] = p[j] => i = j
         /\ t = [i \in DOMAIN s |-> s[p[i]]]
  BY DEF Shuffled
<1>2. Len(s) \in Nat /\ DOMAIN s = 1 .. Len(s) /\ \A i \in DOMAIN s : s[i] \in X
  OBVIOUS
<1>3. IsFiniteSet(DOMAIN s)
  <2>1. IsFiniteSet(1 .. Len(s))
    BY <1>2, Positions
  <2> QED BY <1>2, <2>1
<1>4. p \in Injection(DOMAIN s, DOMAIN s)
  BY <1>1 DEF Injection, IsInjective
<1>5. p \in Surjection(DOMAIN s, DOMAIN s)
  BY <1>3, <1>4, FS_Injection
<1>6. Permuted(s, t, p)
  BY <1>1, <1>4, <1>5 DEF Permuted, Bijection
<1>7. t \in [1 .. Len(s) -> X]
  BY <1>1, <1>2
<1>8. t \in Seq(X) /\ Len(t) = Len(s) /\ DOMAIN t = DOMAIN s
  BY <1>2, <1>7
<1> QED BY <1>6, <1>8

\* Order statistics do not see the order: the same values, and as many of them
\* at or below each number.
LEMMA OrderFree ==
  ASSUME NEW s \in Seq(Nat), NEW t \in Seq(Nat), NEW p, Permuted(s, t, p)
  PROVE  Values(t) = Values(s) /\ Median(t) = Median(s)
<1>1. /\ DOMAIN t = DOMAIN s /\ Len(t) = Len(s)
      /\ p \in [DOMAIN s -> DOMAIN s]
      /\ \A i \in DOMAIN s : t[i] = s[p[i]]
      /\ \A i, j \in DOMAIN s : p[i] = p[j] => i = j
      /\ \A j \in DOMAIN s : \E i \in DOMAIN s : p[i] = j
  <2>1. t = [i \in DOMAIN s |-> s[p[i]]] /\ p \in [DOMAIN s -> DOMAIN s]
    BY DEF Permuted, Bijection, Injection, Surjection
  <2>2. DOMAIN t = DOMAIN s
    BY <2>1
  <2>3. Len(t) = Len(s)
    BY <2>2
  <2>4. /\ \A i, j \in DOMAIN s : p[i] = p[j] => i = j
        /\ \A j \in DOMAIN s : \E i \in DOMAIN s : p[i] = j
    BY DEF Permuted, Bijection, Injection, IsInjective, Surjection
  <2> QED BY <2>1, <2>2, <2>3, <2>4
<1>2. Values(t) = Values(s)
  <2>1. ASSUME NEW i \in DOMAIN s PROVE t[i] \in Values(s)
    <3>1. t[i] = s[p[i]] /\ p[i] \in DOMAIN s
      BY <1>1
    <3> QED BY <3>1 DEF Values
  <2>2. ASSUME NEW j \in DOMAIN s PROVE s[j] \in Values(t)
    <3>1. PICK i \in DOMAIN s : p[i] = j
      BY <1>1
    <3>2. t[i] = s[j] /\ i \in DOMAIN t
      BY <1>1, <3>1
    <3> QED BY <3>2 DEF Values
  <2>3. \A x \in Values(t) : x \in Values(s)
    <3>1. \A x \in Values(t) : \E i \in DOMAIN s : x = t[i]
      BY <1>1 DEF Values
    <3> QED BY <2>1, <3>1
  <2>4. \A x \in Values(s) : x \in Values(t)
    <3>1. \A x \in Values(s) : \E j \in DOMAIN s : x = s[j]
      BY DEF Values
    <3> QED BY <2>2, <3>1
  <2> QED BY <2>3, <2>4
<1>3. \A x : AtMost(t, x) = AtMost(s, x)
  <2> TAKE x
  <2> DEFINE S == {i \in DOMAIN s : s[i] <= x}
             T == {i \in DOMAIN t : t[i] <= x}
             f == [i \in T |-> p[i]]
  <2>1. \A i \in DOMAIN s : i \in T <=> p[i] \in S
    BY <1>1
  <2>2. T \subseteq DOMAIN s /\ S \subseteq DOMAIN s
    BY <1>1
  <2>3. IsFiniteSet(T)
    <3>1. Len(s) \in Nat /\ DOMAIN s = 1 .. Len(s)
      OBVIOUS
    <3>2. IsFiniteSet(1 .. Len(s))
      BY <3>1, Positions
    <3> QED BY <2>2, <3>1, <3>2, FS_Subset
  <2> HIDE DEF S, T
  <2>4. f \in [T -> S]
    BY <2>1, <2>2
  <2>5. \A i, j \in T : f[i] = f[j] => i = j
    BY <1>1, <2>2
  <2>6. \A j \in S : \E i \in T : f[i] = j
    <3> TAKE j \in S
    <3>1. PICK i \in DOMAIN s : p[i] = j
      BY <1>1, <2>2
    <3>2. i \in T
      BY <2>1, <3>1
    <3> QED BY <3>1, <3>2
  <2>7. f \in Bijection(T, S)
    BY <2>4, <2>5, <2>6 DEF Bijection, Injection, IsInjective, Surjection
  <2>8. ExistsBijection(T, S)
    BY <2>7 DEF ExistsBijection
  <2>9. Cardinality(S) = Cardinality(T)
    BY <2>3, <2>8, FS_Bijection
  <2> QED BY <2>9 DEF AtMost, S, T
<1>4. Median(t) = Median(s)
  <2>1. /\ {x \in Values(t) : 2 * AtMost(t, x) >= Len(t)}
           = {x \in Values(s) : 2 * AtMost(s, x) >= Len(s)}
        /\ {x \in Values(t) : 2 * AtMost(t, x) > Len(t)}
           = {x \in Values(s) : 2 * AtMost(s, x) > Len(s)}
    BY <1>1, <1>2, <1>3
  <2> QED BY <2>1 DEF Median
<1> QED BY <1>2, <1>4

LEMMA DirectionOrderFree ==
  ASSUME NEW good, Drawn(good), good # <<>>, NEW other \in Shuffled(good), NEW price
  PROVE  Direction(other, price) = Direction(good, price)
<1>1. good \in Seq(Outcomes)
  BY DEF Drawn
<1>2. /\ other \in Seq(Outcomes) /\ Len(other) = Len(good)
      /\ DOMAIN other = DOMAIN good
  BY <1>1, ShuffledIsPermuted
<1>3. PICK p : Permuted(good, other, p)
  BY <1>1, ShuffledIsPermuted
<1>4. /\ p \in [DOMAIN good -> DOMAIN good]
      /\ \A i \in DOMAIN good : other[i] = good[p[i]]
      /\ \A j \in DOMAIN good : \E i \in DOMAIN good : p[i] = j
  <2>1. /\ p \in [DOMAIN good -> DOMAIN good]
        /\ other = [i \in DOMAIN good |-> good[p[i]]]
    BY <1>3 DEF Permuted, Bijection, Injection
  <2>2. \A j \in DOMAIN good : \E i \in DOMAIN good : p[i] = j
    BY <1>3 DEF Permuted, Bijection, Surjection
  <2> QED BY <2>1, <2>2
<1>5. Drawn(other) /\ other # <<>>
  <2>1. \A i \in DOMAIN other : other[i].iv > 0
    BY <1>2, <1>4 DEF Drawn
  <2>2. other # <<>>
    BY <1>1, <1>2
  <2> QED BY <1>2, <2>1, <2>2 DEF Drawn
<1>6. Permuted(Ivs(good), Ivs(other), p)
  <2>1. DOMAIN Ivs(good) = DOMAIN good
    BY DEF Ivs
  <2>2. Ivs(other) = [i \in DOMAIN good |-> Ivs(good)[p[i]]]
    BY <1>2, <1>4 DEF Ivs
  <2> QED BY <1>3, <2>1, <2>2 DEF Permuted
<1>7. Ivs(good) \in Seq(Nat) /\ Ivs(other) \in Seq(Nat)
  BY <1>5, LowHigh
<1>8. /\ Values(Ivs(other)) = Values(Ivs(good))
      /\ Median(Ivs(other)) = Median(Ivs(good))
  BY <1>6, <1>7, OrderFree
<1>9. Low(other) = Low(good) /\ High(other) = High(good)
  BY <1>8 DEF Low, High
<1>10. Spread(other) = Spread(good)
  BY <1>2, <1>9 DEF Spread
<1>11. CruxValid(other) <=> CruxValid(good)
  <2>1. ASSUME CruxValid(good) PROVE CruxValid(other)
    <3>1. \A i \in DOMAIN good : good[p[i]].crux
      BY <1>4, <2>1 DEF CruxValid
    <3> QED BY <1>2, <1>4, <3>1 DEF CruxValid
  <2>2. ASSUME CruxValid(other), NEW j \in DOMAIN good PROVE good[j].crux
    <3>1. PICK i \in DOMAIN good : p[i] = j
      BY <1>4
    <3>2. other[i].crux /\ other[i] = good[j]
      BY <1>2, <1>4, <2>2, <3>1 DEF CruxValid
    <3> QED BY <3>2
  <2> QED BY <2>1, <2>2 DEF CruxValid
<1>12. Quarantined(other, price) = Quarantined(good, price)
  BY <1>8, <1>9, <1>10 DEF Quarantined, Band
<1> QED BY <1>11, <1>12 DEF Direction

-------------------------------------------------------------------------------
(* The invariant.  A run that samples has a directory of its own after     *)
(* those it saw, a run whose document is written will find a written one,  *)
(* every written document is what a loop can have left, and a judged run   *)
(* holds the verdict on the document it picked, whoever drew it.           *)

\* A loop of the adaptive three or of three asked for, at most.
ThreeAtMost == \A j \in Jobs : j.samples <= 3

Left(d) == Fits(d) /\ (ThreeAtMost => d.attempted <= 3)

RunOK(r) ==
  /\ pc[r] # "idle" => quote[r] \in Prices /\ job[r] \in Jobs
  /\ pc[r] = "launched" => before[r] <= Len(dirs)
  /\ pc[r] = "sampling" =>
       /\ \E i \in DOMAIN dirs : i > before[r] /\ dirs[i].by = r
       /\ Fits(doc[r]) /\ doc[r].attempted <= Intended(r)
  /\ pc[r] = "written" => New(r) # {}
  /\ pc[r] = "judged" =>
       /\ Left(doc[r]) /\ doc[r].price = quote[r]
       /\ \E prior \in Nat, env \in Envs, date \in 1 .. MaxDay :
             row[r] = Filed(doc[r], prior, env, date, job[r].source)

RowsFit ==
  /\ \A i \in DOMAIN dirs : dirs[i].written => Left(dirs[i].doc)
  /\ \A r \in Runs : RunOK(r)

Dirs == [by : Runs, written : BOOLEAN, doc : Docs]

RunTypes ==
  /\ pc \in [Runs -> {"idle", "research", "launched", "sampling", "written", "judged"}]
  /\ job \in [Runs -> [source : Sources, samples : Nat]]
  /\ quote \in [Runs -> Nat]
  /\ doc \in [Runs -> Docs]
  /\ before \in [Runs -> Nat]
  /\ dirs \in Seq(Dirs)
  /\ row \in [Runs -> Rows \cup {NoRow}]

LedgerTypes ==
  /\ newest \in [Ledgers -> [base : Nat, date : 1 .. MaxDay] \cup {NoRow}]
  /\ torn \in [Ledgers -> BOOLEAN]
  /\ day \in 1 .. MaxDay
  /\ begun \in 0 .. MaxBegun

LEMMA TypeParts == TypeOK <=> RunTypes /\ LedgerTypes
BY DEF TypeOK, RunTypes, LedgerTypes, Dirs

\* A record as band_verdict leaves it, before its day and source are stamped.
Unfiled ==
  [direction : Directions \cup {"NOT_USABLE"}, price : Nat, n_basis : Nat,
   spread : Nat, median : Nat, base : Nat, kelly : 0 .. 25,
   size : {Zero, Quarter, Half, Full, NoSize},
   fiduciary : {"PASS", "FAIL", "NOT_APPLICABLE"},
   crux_valid : BOOLEAN, unstable : BOOLEAN,
   flags : SUBSET {"LOW_EFFORT_RESCUE", "SAMPLE_FAILED"}, env : Envs,
   gate_version : Nat, date : Nat, run_source : Sources]

LEMMA RowUpdates ==
  ASSUME NEW x \in Unfiled
  PROVE  /\ \A e \in Directions \cup {"NOT_USABLE"} : [x EXCEPT !.direction = e] \in Unfiled
         /\ \A e \in Nat : [x EXCEPT !.median = e] \in Unfiled
         /\ \A e \in Nat : [x EXCEPT !.base = e] \in Unfiled
         /\ \A e \in {"PASS", "FAIL", "NOT_APPLICABLE"} :
               [x EXCEPT !.fiduciary = e] \in Unfiled
         /\ \A e \in BOOLEAN : [x EXCEPT !.crux_valid = e] \in Unfiled
         /\ \A e \in BOOLEAN : [x EXCEPT !.unstable = e] \in Unfiled
         /\ \A e \in 0 .. 25 : [x EXCEPT !.kelly = e] \in Unfiled
         /\ \A e \in {Zero, Quarter, Half, Full, NoSize} :
               [x EXCEPT !.size = e] \in Unfiled
         /\ \A e \in 1 .. MaxDay, s \in Sources :
               [x EXCEPT !.date = e, !.run_source = s] \in Rows
<1>1. \A e \in Directions \cup {"NOT_USABLE"} : [x EXCEPT !.direction = e] \in Unfiled
  BY DEF Unfiled
<1>2. \A e \in Nat : [x EXCEPT !.median = e] \in Unfiled
  BY DEF Unfiled
<1>3. \A e \in Nat : [x EXCEPT !.base = e] \in Unfiled
  BY DEF Unfiled
<1>4. \A e \in {"PASS", "FAIL", "NOT_APPLICABLE"} : [x EXCEPT !.fiduciary = e] \in Unfiled
  BY DEF Unfiled
<1>5. \A e \in BOOLEAN : [x EXCEPT !.crux_valid = e] \in Unfiled
  BY DEF Unfiled
<1>6. \A e \in BOOLEAN : [x EXCEPT !.unstable = e] \in Unfiled
  BY DEF Unfiled
<1>7. \A e \in 0 .. 25 : [x EXCEPT !.kelly = e] \in Unfiled
  BY DEF Unfiled
<1>8. \A e \in {Zero, Quarter, Half, Full, NoSize} : [x EXCEPT !.size = e] \in Unfiled
  BY DEF Unfiled
<1>9. \A e \in 1 .. MaxDay, s \in Sources : [x EXCEPT !.date = e, !.run_source = s] \in Rows
  BY DEF Unfiled, Rows
<1> QED BY <1>1, <1>2, <1>3, <1>4, <1>5, <1>6, <1>7, <1>8, <1>9

\* The fields of a record of the verdict have their types.
LEMMA RowTyped ==
  ASSUME NEW d, Fits(d), NEW prior \in Nat, NEW env \in Envs,
         NEW date \in 1 .. MaxDay, NEW source \in Sources
  PROVE  Filed(d, prior, env, date, source) \in Rows
<1> DEFINE good == Good(d.runs)
           card == Scorecard(good, d.price)
<1>1. Drawn(good) /\ d.price \in Nat \ {0} /\ Len(good) \in Nat
  BY GoodFacts DEF Fits
<1>2. Spread(good) \in Nat
  <2>1. CASE good = <<>>
    BY <2>1 DEF Spread
  <2>2. CASE good # <<>>
    BY <1>1, <2>2, SpreadFacts
  <2> QED BY <2>1, <2>2
<1>3. NotAResult(d) \in SUBSET {"LOW_EFFORT_RESCUE", "SAMPLE_FAILED"}
  BY DEF NotAResult
<1>4. CruxValid(good) \in BOOLEAN /\ Unstable(card.base, prior) \in BOOLEAN
  BY DEF CruxValid, Unstable
<1>5. good # <<>> =>
        /\ Median(Ivs(good)) \in Nat /\ card.base \in Nat /\ card.conviction \in Nat
        /\ Sanitized(card, d.price).kelly \in 0 .. 25
  <2>1. SUFFICES ASSUME good # <<>>
                 PROVE  /\ Median(Ivs(good)) \in Nat
                        /\ card.base \in Nat /\ card.conviction \in Nat
                        /\ Sanitized(card, d.price).kelly \in 0 .. 25
    OBVIOUS
  <2>2. Median(Ivs(good)) \in Nat
    BY <1>1, <2>1, LowHigh, MedianFacts
  <2>3. card \in Sample
    <3>1. \A price : Scorecard(good, price) \in Sample
      BY <1>1, <2>1, CardFacts
    <3> QED BY <3>1
  <2> HIDE DEF card
  <2>4. \A price : Sanitized(card, price).kelly \in 0 .. 25
    BY <2>3, Clamped
  <2> QED BY <2>2, <2>3, <2>4 DEF Sample
<1>6. Direction(good, d.price) \in Directions
  BY Directional DEF Directions
<1>7. FiduciaryVerdict(card, d.price) \in {"PASS", "FAIL"}
  BY DEF FiduciaryVerdict
<1> DEFINE sz == SizeHint(d, good, card, Direction(good, d.price), env)
<1>8. good # <<>> => sz \in {Quarter, Half, Full}
  <2>1. SUFFICES ASSUME good # <<>> PROVE sz \in {Quarter, Half, Full}
    OBVIOUS
  <2> HIDE DEF good, card
  <2>2. card.base \in Nat /\ card.conviction \in Nat
    BY <1>5, <2>1
  <2> QED BY <1>1, <2>1, <2>2, SizeLimits
<1> DEFINE med == Median(Ivs(good))
           kel == Sanitized(card, d.price).kelly
           fid == FiduciaryVerdict(card, d.price)
           dir == Direction(good, d.price)
           k == IF fid = "FAIL" THEN 0 ELSE kel
           z == IF fid = "FAIL" THEN Zero ELSE sz
           crux == CruxValid(good)
           moved == Unstable(card.base, prior)
           flags == NotAResult(d)
           blank == [direction |-> "NOT_USABLE", price |-> d.price,
                 n_basis |-> Len(good), spread |-> Spread(good),
                 median |-> Missing, base |-> Missing, kelly |-> 0,
                 size |-> NoSize, fiduciary |-> "NOT_APPLICABLE",
                 crux_valid |-> FALSE, unstable |-> FALSE,
                 flags |-> flags, env |-> env,
                 gate_version |-> GateVersion,
                 date |-> 0, run_source |-> "manual"]
           outside == [blank EXCEPT !.median = med, !.base = card.base,
                                    !.crux_valid = crux]
           inside == [blank EXCEPT !.direction = dir, !.median = med,
                                   !.base = card.base, !.fiduciary = fid,
                                   !.crux_valid = crux, !.unstable = moved,
                                   !.kelly = k, !.size = z]
           b == BandVerdict(d, prior, env)
<1>9. b = IF good = <<>> THEN blank
          ELSE IF \E i \in DOMAIN good : ~good[i].in_cohort THEN outside
          ELSE inside
  BY DEF BandVerdict
<1>10. good # <<>> =>
         /\ med \in Nat /\ card.base \in Nat /\ k \in 0 .. 25
         /\ z \in {Zero, Quarter, Half, Full, NoSize}
  <2> HIDE DEF fid, sz
  <2> QED BY <1>5, <1>8
<1>11. /\ dir \in Directions \cup {"NOT_USABLE"}
       /\ fid \in {"PASS", "FAIL", "NOT_APPLICABLE"}
       /\ crux \in BOOLEAN /\ moved \in BOOLEAN
       /\ flags \in SUBSET {"LOW_EFFORT_RESCUE", "SAMPLE_FAILED"}
  BY <1>3, <1>4, <1>6, <1>7
<1> HIDE DEF good, card, sz, med, kel, fid, dir, k, z, crux, moved, flags, b
<1>12. blank \in Unfiled
  BY <1>1, <1>2, <1>11 DEF Unfiled, Missing, NoSize, GateVersion, Sources
<1> HIDE DEF blank
<1>13. good # <<>> => outside \in Unfiled
  BY <1>10, <1>11, <1>12, RowUpdates
<1>14. good # <<>> => inside \in Unfiled
  <2> SUFFICES ASSUME good # <<>> PROVE inside \in Unfiled
    OBVIOUS
  <2> DEFINE a == [blank EXCEPT !.direction = dir, !.median = med,
                                !.base = card.base, !.fiduciary = fid]
  <2>1. a \in Unfiled
    BY <1>10, <1>11, <1>12, RowUpdates
  <2> HIDE DEF a
  <2>2. [a EXCEPT !.crux_valid = crux, !.unstable = moved, !.kelly = k, !.size = z]
           \in Unfiled
    BY <1>10, <1>11, <2>1, RowUpdates
  <2> QED BY <2>2 DEF a
<1> HIDE DEF inside, outside
<1>15. b \in Unfiled
  BY <1>9, <1>12, <1>13, <1>14
<1> QED BY <1>15, RowUpdates DEF Filed, b

Inv == RunTypes /\ LedgerTypes /\ RowsFit

LEMMA Blanks ==
  /\ NoDoc \in Docs /\ NoJob \in [source : Sources, samples : Nat]
  /\ \A r \in Runs, q \in Prices :
        LET d == EmptyDoc(r, q)
        IN  /\ d \in Docs /\ Fits(d) /\ d.attempted = 0 /\ d.price = q
<1>1. <<>> \in Seq(Outcomes) /\ Len(<<>>) = 0
  OBVIOUS
<1>2. \A q \in Prices : q \in Nat \ {0}
  BY PricesAssumption
<1> QED BY <1>1, <1>2
        DEF NoDoc, NoJob, EmptyDoc, Docs, Sources, Production, Fits

LEMMA InitInv == Init => Inv
<1> SUFFICES ASSUME Init PROVE Inv
  OBVIOUS
<1>1. RunTypes
  BY Blanks DEF Init, RunTypes
<1>2. LedgerTypes
  <2>1. 1 \in 1 .. MaxDay /\ 0 \in 0 .. MaxBegun
    BY RunsAssumption
  <2>2. newest \in [Ledgers -> [base : Nat, date : 1 .. MaxDay] \cup {NoRow}]
    BY <2>1, OldAssumption DEF Init, Ledgers
  <2> QED BY <2>1, <2>2 DEF Init, LedgerTypes
<1>3. RowsFit
  BY DEF Init, RowsFit, RunOK
<1> QED BY <1>1, <1>2, <1>3 DEF Inv

\* What a run keeps while another one moves: directories are only added and
\* written, and only forgotten when no other run is there.
LEMMA RunFrame ==
  ASSUME RunTypes, RunTypes', NEW p \in Runs, RunOK(p),
         pc'[p] = pc[p], job'[p] = job[p], quote'[p] = quote[p],
         doc'[p] = doc[p], before'[p] = before[p], row'[p] = row[p],
         \/ pc[p] = "idle"
         \/ /\ Len(dirs) <= Len(dirs')
            /\ \A i \in DOMAIN dirs :
                 /\ i \in DOMAIN dirs' /\ dirs'[i].by = dirs[i].by
                 /\ dirs[i].written => dirs'[i].written
  PROVE  RunOK(p)'
<1>1. before[p] \in Nat /\ Len(dirs) \in Nat /\ Len(dirs') \in Nat
  BY DEF RunTypes
<1>2. CASE pc[p] = "idle"
  BY <1>2 DEF RunOK
<1>3. CASE pc[p] # "idle"
  <2>1. pc[p] = "launched" => before'[p] <= Len(dirs')
    BY <1>1, <1>3 DEF RunOK
  <2>2. pc[p] = "sampling" => \E i \in DOMAIN dirs' : i > before'[p] /\ dirs'[i].by = p
    BY <1>3 DEF RunOK
  <2>3. pc[p] = "sampling" => Fits(doc'[p]) /\ doc'[p].attempted <= Intended(p)'
    BY <1>3 DEF RunOK, Intended, Adaptive
  <2>4. pc[p] = "written" => New(p)' # {}
    <3>1. SUFFICES ASSUME pc[p] = "written" PROVE New(p)' # {}
      OBVIOUS
    <3>2. PICK i \in New(p) : TRUE
      BY <3>1 DEF RunOK
    <3>3. i \in New(p)'
      BY <1>3, <3>2 DEF New
    <3> QED BY <3>3
  <2>5. pc[p] = "judged" =>
          /\ Left(doc'[p]) /\ doc'[p].price = quote'[p]
          /\ \E prior \in Nat, env \in Envs, date \in 1 .. MaxDay :
                row'[p] = Filed(doc'[p], prior, env, date, job'[p].source)
    BY DEF RunOK
  <2>6. quote'[p] \in Prices /\ job'[p] \in Jobs
    BY <1>3 DEF RunOK
  <2> QED BY <2>1, <2>2, <2>3, <2>4, <2>5, <2>6 DEF RunOK
<1> QED BY <1>2, <1>3

LEMMA EndsStep ==
  ASSUME RunTypes, RowsFit, NEW r \in Runs, Ends(r)
  PROVE  RunTypes' /\ RowsFit'
<1>1. RunTypes'
  BY Blanks DEF RunTypes, Ends
<1>2. \A i \in DOMAIN dirs' : dirs'[i].written => Left(dirs'[i].doc)
  BY DEF Ends, RowsFit
<1>3. RunOK(r)'
  BY DEF Ends, RunTypes, RunOK
<1>4. ASSUME NEW p \in Runs, p # r PROVE RunOK(p)'
  <2>1. /\ pc'[p] = pc[p] /\ job'[p] = job[p] /\ quote'[p] = quote[p]
        /\ doc'[p] = doc[p] /\ before'[p] = before[p] /\ row'[p] = row[p]
    BY <1>4 DEF Ends, RunTypes
  <2>2. pc[p] = "idle" \/ dirs' = dirs
    BY <1>4 DEF Ends, Active
  <2>3. dirs' = dirs => Len(dirs) <= Len(dirs')
    BY DEF RunTypes
  <2> QED BY <1>1, <2>1, <2>2, <2>3, RunFrame DEF RowsFit
<1> QED BY <1>1, <1>2, <1>3, <1>4 DEF RowsFit

\* The steps that touch no directory.
LEMMA QuietStep ==
  ASSUME RunTypes, RunTypes', RowsFit, NEW r \in Runs, dirs' = dirs, RunOK(r)',
         \A p \in Runs : p # r =>
            /\ pc'[p] = pc[p] /\ job'[p] = job[p] /\ quote'[p] = quote[p]
            /\ doc'[p] = doc[p] /\ before'[p] = before[p] /\ row'[p] = row[p]
  PROVE  RowsFit'
<1>1. \A i \in DOMAIN dirs' : dirs'[i].written => Left(dirs'[i].doc)
  BY DEF RowsFit
<1>2. Len(dirs) <= Len(dirs')
  BY DEF RunTypes
<1>3. ASSUME NEW p \in Runs, p # r PROVE RunOK(p)'
  BY <1>2, <1>3, RunFrame DEF RowsFit
<1> QED BY <1>1, <1>3 DEF RowsFit

LEMMA BeginInv ==
  ASSUME Inv, NEW r \in Runs, NEW j \in Jobs, NEW q \in Prices, Begin(r, j, q)
  PROVE  Inv'
<1> USE DEF Inv
<1>1. RunTypes'
  BY JobsAssumption, PricesAssumption DEF Begin, RunTypes
<1>2. LedgerTypes'
  BY RunsAssumption DEF Begin, LedgerTypes, ledgerVars
<1>3. RunOK(r)'
  BY DEF Begin, RunTypes, RunOK
<1>4. RowsFit'
  BY <1>1, <1>3, QuietStep DEF Begin, RunTypes
<1> QED BY <1>1, <1>2, <1>4

LEMMA LaunchInv ==
  ASSUME Inv, NEW r \in Runs, Launch(r)
  PROVE  Inv'
<1> USE DEF Inv
<1>1. RunTypes'
  BY DEF Launch, RunTypes
<1>2. LedgerTypes'
  BY DEF Launch, LedgerTypes, ledgerVars
<1>3. RunOK(r)'
  BY DEF Launch, RunTypes, RowsFit, RunOK
<1>4. RowsFit'
  BY <1>1, <1>3, QuietStep DEF Launch, RunTypes
<1> QED BY <1>1, <1>2, <1>4

LEMMA OpenDirInv ==
  ASSUME Inv, NEW r \in Runs, OpenDir(r)
  PROVE  Inv'
<1> USE DEF Inv
<1> DEFINE new == [by |-> r, written |-> FALSE, doc |-> NoDoc]
           n == Len(dirs)
<1>1. /\ pc[r] = "launched" /\ quote[r] \in Prices /\ before[r] <= n
      /\ before[r] \in Nat /\ job[r] \in Jobs /\ n \in Nat /\ dirs \in Seq(Dirs)
  BY DEF OpenDir, RowsFit, RunOK, RunTypes
<1>2. new \in Dirs
  BY Blanks DEF Dirs
<1>3. /\ dirs' = Append(dirs, new) /\ dirs' \in Seq(Dirs) /\ Len(dirs') = n + 1
      /\ \A i \in DOMAIN dirs : i \in DOMAIN dirs' /\ dirs'[i] = dirs[i]
      /\ \A i \in DOMAIN dirs' : i \in DOMAIN dirs \/ i = n + 1
      /\ n + 1 \in DOMAIN dirs' /\ dirs'[n + 1] = new
  <2>1. dirs' = Append(dirs, new)
    BY DEF OpenDir
  <2> HIDE DEF new
  <2> QED BY <1>1, <1>2, <2>1
<1>4. RunTypes'
  BY <1>1, <1>3, Blanks DEF OpenDir, RunTypes
<1>5. LedgerTypes'
  BY DEF OpenDir, LedgerTypes, ledgerVars
<1>6. \A i \in DOMAIN dirs' : dirs'[i].written => Left(dirs'[i].doc)
  BY <1>3 DEF RowsFit
<1>7. RunOK(r)'
  <2>1. doc'[r] = EmptyDoc(r, quote[r]) /\ pc'[r] = "sampling"
        /\ quote' = quote /\ job' = job /\ before' = before
    BY DEF OpenDir, RunTypes
  <2>2. Fits(doc'[r]) /\ doc'[r].attempted = 0
    BY <1>1, <2>1, Blanks
  <2>3. Intended(r)' \in Nat
    BY <1>1, <2>1, JobsAssumption DEF Intended, Adaptive
  <2>4. n + 1 > before[r]
    BY <1>1
  <2>5. \E i \in DOMAIN dirs' : i > before'[r] /\ dirs'[i].by = r
    BY <1>3, <2>1, <2>4
  <2> QED BY <1>1, <2>1, <2>2, <2>3, <2>5 DEF RunOK
<1>8. ASSUME NEW p \in Runs, p # r PROVE RunOK(p)'
  <2>1. /\ pc'[p] = pc[p] /\ job'[p] = job[p] /\ quote'[p] = quote[p]
        /\ doc'[p] = doc[p] /\ before'[p] = before[p] /\ row'[p] = row[p]
    BY <1>8 DEF OpenDir, RunTypes
  <2>2. Len(dirs) <= Len(dirs')
    BY <1>1, <1>3
  <2>3. RunOK(p)
    BY DEF RowsFit
  <2> QED BY <1>3, <1>4, <2>1, <2>2, <2>3, RunFrame
<1>9. RowsFit'
  BY <1>6, <1>7, <1>8 DEF RowsFit
<1> QED BY <1>4, <1>5, <1>9

\* A loop that still draws has drawn less than it intends, and has not stopped.
LEMMA LoopBound ==
  ASSUME Inv, NEW r \in Runs, pc[r] = "sampling", ~Sampled(r)
  PROVE  /\ doc[r].runs \in Seq(Outcomes) /\ doc[r].attempted \in Nat
         /\ Len(doc[r].runs) \in Nat /\ Len(doc[r].runs) <= doc[r].attempted
         /\ ~doc[r].early /\ doc[r].price \in Nat \ {0}
         /\ doc[r].attempted + 1 <= Intended(r)
<1>1. Fits(doc[r]) /\ doc[r].attempted <= Intended(r) /\ job[r] \in Jobs
  BY DEF Inv, RowsFit, RunOK
<1>2. Intended(r) \in Nat
  BY <1>1, JobsAssumption DEF Intended, Adaptive
<1>3. doc[r].attempted \in Nat /\ doc[r].attempted # Intended(r) /\ ~doc[r].early
  BY <1>1 DEF Fits, Sampled
<1>4. doc[r].attempted + 1 <= Intended(r)
  BY <1>1, <1>2, <1>3
<1>5. /\ doc[r].runs \in Seq(Outcomes) /\ Len(doc[r].runs) \in Nat
      /\ Len(doc[r].runs) <= doc[r].attempted /\ doc[r].price \in Nat \ {0}
  BY <1>1 DEF Fits
<1> QED BY <1>3, <1>4, <1>5

LEMMA RecordInv ==
  ASSUME Inv, NEW r \in Runs, NEW s \in Outcomes, Record(r, s)
  PROVE  Inv'
<1> DEFINE runs == Append(doc[r].runs, s)
           n == doc[r].attempted + 1
           early == /\ Adaptive(r) /\ n = 2 /\ Len(Good(runs)) = 2
                    /\ EarlyStop(Good(runs), PriorForRun)
           d == [doc[r] EXCEPT !.runs = runs, !.attempted = n, !.early = early]
<1>1. /\ doc[r].runs \in Seq(Outcomes) /\ doc[r].attempted \in Nat
      /\ Len(doc[r].runs) \in Nat /\ Len(doc[r].runs) <= doc[r].attempted
      /\ doc[r].price \in Nat \ {0} /\ n <= Intended(r) /\ pc[r] = "sampling"
  BY LoopBound DEF Record
<1>2. doc[r] \in Docs
  BY DEF Inv, RunTypes
<1>3. doc' = [doc EXCEPT ![r] = d]
  BY DEF Record
<1>4. runs \in Seq(Outcomes) /\ Len(runs) = Len(doc[r].runs) + 1
  BY <1>1
<1>5. early \in BOOLEAN /\ (early => n = 2)
  BY DEF EarlyStop
<1>6. n \in Nat /\ Len(runs) <= n
  BY <1>1, <1>4
<1> HIDE DEF runs, n, early
<1>7. d \in Docs
  BY <1>2, <1>4, <1>5, <1>6 DEF Docs
<1>8. /\ d.runs = runs /\ d.attempted = n /\ d.early = early
      /\ d.price = doc[r].price
  BY <1>2 DEF Docs
<1>9. Fits(d) /\ d.attempted <= Intended(r)
  <2>1. d.early => d.attempted = 2
    BY <1>5, <1>8
  <2> QED BY <1>1, <1>4, <1>6, <1>8, <2>1 DEF Fits
<1> HIDE DEF d
<1>10. RunTypes'
  <2>1. UNCHANGED <<pc, job, quote, before, row, dirs>>
    BY DEF Record
  <2> QED BY <1>3, <1>7, <2>1 DEF Inv, RunTypes
<1>11. LedgerTypes'
  BY DEF Record, Inv, LedgerTypes, ledgerVars
<1>12. RunOK(r)'
  <2>1. /\ doc'[r] = d /\ pc' = pc /\ job' = job /\ quote' = quote
        /\ before' = before /\ dirs' = dirs
    BY <1>3 DEF Record, Inv, RunTypes
  <2>2. RunOK(r)
    BY DEF Inv, RowsFit
  <2> QED BY <1>1, <1>9, <2>1, <2>2 DEF RunOK, Intended, Adaptive
<1>13. RowsFit'
  BY <1>10, <1>12, <1>3, QuietStep DEF Record, Inv, RunTypes
<1> QED BY <1>10, <1>11, <1>13 DEF Inv

LEMMA LoseInv ==
  ASSUME Inv, NEW r \in Runs, Lose(r)
  PROVE  Inv'
<1> DEFINE d == [doc[r] EXCEPT !.attempted = @ + 1]
<1>1. /\ doc[r].runs \in Seq(Outcomes) /\ doc[r].attempted \in Nat
      /\ Len(doc[r].runs) \in Nat /\ Len(doc[r].runs) <= doc[r].attempted
      /\ ~doc[r].early /\ doc[r].price \in Nat \ {0}
      /\ doc[r].attempted + 1 <= Intended(r) /\ pc[r] = "sampling"
  BY LoopBound DEF Lose
<1>2. doc[r] \in Docs
  BY DEF Inv, RunTypes
<1>3. doc' = [doc EXCEPT ![r] = d]
  BY DEF Lose
<1>4. d \in Docs
  BY <1>1, <1>2 DEF Docs
<1>5. /\ d.runs = doc[r].runs /\ d.attempted = doc[r].attempted + 1
      /\ d.early = doc[r].early /\ d.price = doc[r].price
  BY <1>2 DEF Docs
<1> HIDE DEF d
<1>6. Fits(d) /\ d.attempted <= Intended(r)
  <2>1. d.attempted \in Nat /\ Len(d.runs) <= d.attempted
    BY <1>1, <1>5
  <2>2. ~d.early
    BY <1>1, <1>5
  <2> QED BY <1>1, <1>5, <2>1, <2>2 DEF Fits
<1>7. RunTypes'
  BY <1>3, <1>4 DEF Lose, Inv, RunTypes
<1>8. LedgerTypes'
  BY DEF Lose, Inv, LedgerTypes, ledgerVars
<1>9. RunOK(r)'
  <2>1. /\ doc'[r] = d /\ pc' = pc /\ job' = job /\ quote' = quote
        /\ before' = before /\ dirs' = dirs
    BY <1>3 DEF Lose, Inv, RunTypes
  <2>2. RunOK(r)
    BY DEF Inv, RowsFit
  <2> QED BY <1>1, <1>6, <2>1, <2>2 DEF RunOK, Intended, Adaptive
<1>10. RowsFit'
  BY <1>7, <1>9, <1>3, QuietStep DEF Lose, Inv, RunTypes
<1> QED BY <1>7, <1>8, <1>10 DEF Inv

LEMMA WriteInv ==
  ASSUME Inv, NEW r \in Runs, WriteConsensus(r)
  PROVE  Inv'
<1> DEFINE Own == {i \in DOMAIN dirs : dirs[i].by = r}
           own == Largest(Own)
           e == [dirs[own] EXCEPT !.written = TRUE, !.doc = doc[r]]
<1>1. /\ pc[r] = "sampling" /\ dirs \in Seq(Dirs) /\ doc[r] \in Docs
      /\ Fits(doc[r]) /\ doc[r].attempted <= Intended(r) /\ job[r] \in Jobs
      /\ before[r] \in Nat
  BY DEF WriteConsensus, Inv, RowsFit, RunOK, RunTypes
<1>2. PICK k \in DOMAIN dirs : k > before[r] /\ dirs[k].by = r
  BY <1>1 DEF Inv, RowsFit, RunOK
<1>3. IsFiniteSet(Own) /\ Own \subseteq Int /\ k \in Own
  <2>1. Len(dirs) \in Nat /\ Own \subseteq 1 .. Len(dirs)
    BY <1>1
  <2>2. IsFiniteSet(1 .. Len(dirs))
    BY <2>1, Positions
  <2> QED BY <1>2, <2>1, <2>2, FS_Subset
<1>4. own \in Own /\ k <= own
  <2> HIDE DEF Own
  <2> QED BY <1>3, Extremes
<1>5. own \in DOMAIN dirs /\ own > before[r] /\ dirs[own] \in Dirs
  BY <1>1, <1>2, <1>3, <1>4
<1>6. dirs' = [dirs EXCEPT ![own] = e]
  BY DEF WriteConsensus
<1> HIDE DEF own, Own
<1>7. e \in Dirs /\ e.written /\ e.doc = doc[r] /\ e.by = dirs[own].by
  BY <1>1, <1>5 DEF Dirs
<1> HIDE DEF e
<1>8. /\ dirs' \in Seq(Dirs) /\ Len(dirs') = Len(dirs) /\ DOMAIN dirs' = DOMAIN dirs
      /\ dirs'[own] = e /\ \A i \in DOMAIN dirs : i # own => dirs'[i] = dirs[i]
  BY <1>1, <1>5, <1>6, <1>7
<1>9. /\ pc' = [pc EXCEPT ![r] = "written"]
      /\ UNCHANGED <<job, quote, doc, before, row, ledgerVars, day, begun>>
  BY DEF WriteConsensus
<1>10. RunTypes'
  BY <1>8, <1>9 DEF Inv, RunTypes
<1>11. LedgerTypes'
  BY <1>9 DEF Inv, LedgerTypes, ledgerVars
<1>12. Left(doc[r])
  <2>1. ASSUME ThreeAtMost PROVE doc[r].attempted <= 3
    <3>1. Intended(r) \in Nat /\ Intended(r) <= 3
      BY <1>1, <2>1, JobsAssumption DEF ThreeAtMost, Intended, Adaptive
    <3>2. doc[r].attempted \in Nat
      BY <1>1 DEF Fits
    <3> QED BY <1>1, <3>1, <3>2
  <2> QED BY <1>1, <2>1 DEF Left
<1>13. \A i \in DOMAIN dirs' : dirs'[i].written => Left(dirs'[i].doc)
  BY <1>7, <1>8, <1>12 DEF Inv, RowsFit
<1>14. RunOK(r)'
  <2>1. pc'[r] = "written" /\ before' = before /\ quote' = quote /\ job' = job
    BY <1>9 DEF Inv, RunTypes
  <2>2. own \in New(r)'
    BY <1>5, <1>7, <1>8, <2>1 DEF New
  <2>3. quote[r] \in Prices
    BY <1>1 DEF Inv, RowsFit, RunOK
  <2> QED BY <1>1, <2>1, <2>2, <2>3 DEF RunOK
<1>15. ASSUME NEW p \in Runs, p # r PROVE RunOK(p)'
  <2>1. /\ pc'[p] = pc[p] /\ job'[p] = job[p] /\ quote'[p] = quote[p]
        /\ doc'[p] = doc[p] /\ before'[p] = before[p] /\ row'[p] = row[p]
    BY <1>9, <1>15 DEF Inv, RunTypes
  <2>2. \A i \in DOMAIN dirs : /\ i \in DOMAIN dirs' /\ dirs'[i].by = dirs[i].by
                               /\ dirs[i].written => dirs'[i].written
    BY <1>7, <1>8
  <2>3. Len(dirs) <= Len(dirs')
    BY <1>1, <1>8
  <2>4. RunOK(p) /\ RunTypes
    BY DEF Inv, RowsFit
  <2> QED BY <1>10, <2>1, <2>2, <2>3, <2>4, RunFrame
<1>16. RowsFit'
  BY <1>13, <1>14, <1>15 DEF RowsFit
<1> QED BY <1>10, <1>11, <1>16 DEF Inv

\* What a run picks is a document that was written.
LEMMA PickedLeft ==
  ASSUME Inv, NEW r \in Runs, pc[r] = "written"
  PROVE  Left(Picked(r)) /\ Picked(r) \in Docs
<1>1. New(r) # {} /\ dirs \in Seq(Dirs)
  BY DEF Inv, RowsFit, RunOK, RunTypes
<1>2. IsFiniteSet(New(r)) /\ New(r) \subseteq Int
  <2>1. Len(dirs) \in Nat /\ New(r) \subseteq 1 .. Len(dirs)
    BY <1>1 DEF New
  <2>2. IsFiniteSet(1 .. Len(dirs))
    BY <2>1, Positions
  <2> QED BY <2>1, <2>2, FS_Subset
<1>3. Largest(New(r)) \in New(r)
  BY <1>1, <1>2, Extremes
<1>4. /\ Largest(New(r)) \in DOMAIN dirs /\ dirs[Largest(New(r))].written
  BY <1>3 DEF New
<1>5. dirs[Largest(New(r))] \in Dirs
  BY <1>1, <1>4
<1> QED BY <1>4, <1>5 DEF Picked, Inv, RowsFit, Dirs

LEMMA PriorBaseType ==
  ASSUME LedgerTypes
  PROVE  PriorBase \in Nat
BY DEF PriorBase, LedgerTypes, Ledgers, Missing

LEMMA JudgeInv ==
  ASSUME Inv, NEW r \in Runs, NEW env \in Envs, Judge(r, env)
  PROVE  Inv'
<1>1. pc[r] = "written" /\ UNCHANGED <<ledgerVars, day, begun>>
  BY DEF Judge
<1>2. LedgerTypes'
  BY <1>1 DEF Inv, LedgerTypes, ledgerVars
<1>3. CASE Picked(r).price # quote[r]
  <2>1. Ends(r)
    BY <1>3 DEF Judge
  <2>2. RunTypes' /\ RowsFit'
    BY <2>1, EndsStep DEF Inv
  <2> QED BY <1>2, <2>2 DEF Inv
<1>4. CASE Picked(r).price = quote[r]
  <2> DEFINE d == Picked(r)
             prior == PriorBase
             v == Filed(d, prior, env, day, job[r].source)
  <2>1. /\ pc' = [pc EXCEPT ![r] = "judged"] /\ doc' = [doc EXCEPT ![r] = d]
        /\ row' = [row EXCEPT ![r] = v]
        /\ UNCHANGED <<job, quote, before, dirs>>
    BY <1>4 DEF Judge, Filed
  <2>2. Left(d) /\ d \in Docs /\ d.price = quote[r]
    BY <1>1, <1>4, PickedLeft
  <2>3. prior \in Nat /\ day \in 1 .. MaxDay /\ job[r].source \in Sources
    BY PriorBaseType DEF Inv, LedgerTypes, RunTypes
  <2> HIDE DEF d, prior
  <2>4. v \in Rows
    BY <2>2, <2>3, RowTyped DEF Left
  <2>5. \E p \in Nat, f \in Envs, date \in 1 .. MaxDay :
           v = Filed(d, p, f, date, job[r].source)
    BY <2>3
  <2> HIDE DEF v
  <2>6. RunTypes'
    BY <2>1, <2>2, <2>4 DEF Inv, RunTypes
  <2>7. RunOK(r)'
    <3>1. /\ pc'[r] = "judged" /\ doc'[r] = d /\ row'[r] = v
          /\ quote'[r] = quote[r] /\ job'[r] = job[r]
      BY <2>1 DEF Inv, RunTypes
    <3>2. quote[r] \in Prices /\ job[r] \in Jobs
      BY <1>1 DEF Inv, RowsFit, RunOK
    <3> QED BY <2>2, <2>5, <3>1, <3>2 DEF RunOK
  <2>8. RowsFit'
    BY <2>1, <2>6, <2>7, QuietStep DEF Inv, RunTypes
  <2> QED BY <1>2, <2>6, <2>8 DEF Inv
<1> QED BY <1>3, <1>4

LEMMA FileInv ==
  ASSUME Inv, NEW r \in Runs, File(r)
  PROVE  Inv'
<1>1. RunTypes' /\ RowsFit'
  BY EndsStep DEF File, Inv
<1>2. pc[r] = "judged" /\ row[r] \in Rows /\ Ledger(job[r].source) \in Ledgers
  <2>1. pc[r] = "judged"
    BY DEF File
  <2>2. Left(doc[r]) /\ \E prior \in Nat, env \in Envs, date \in 1 .. MaxDay :
           row[r] = Filed(doc[r], prior, env, date, job[r].source)
    BY <2>1 DEF Inv, RowsFit, RunOK
  <2>3. job[r].source \in Sources
    BY DEF Inv, RunTypes
  <2>4. row[r] \in Rows
    BY <2>2, <2>3, RowTyped DEF Left
  <2> QED BY <2>1, <2>4 DEF Ledger, Ledgers
<1>3. [base |-> row[r].base, date |-> row[r].date] \in [base : Nat, date : 1 .. MaxDay]
  BY <1>2 DEF Rows
<1>4. LedgerTypes'
  <2>1. /\ newest' = IF torn[Ledger(job[r].source)] THEN newest
                     ELSE [newest EXCEPT ![Ledger(job[r].source)] =
                             [base |-> row[r].base, date |-> row[r].date]]
        /\ torn' = [torn EXCEPT ![Ledger(job[r].source)] = FALSE]
        /\ UNCHANGED <<day, begun>>
    BY DEF File
  <2> QED BY <1>2, <1>3, <2>1 DEF Inv, LedgerTypes
<1> QED BY <1>1, <1>4 DEF Inv

LEMMA KillInv ==
  ASSUME Inv, NEW r \in Runs, Kill(r)
  PROVE  Inv'
<1>1. RunTypes' /\ RowsFit'
  BY EndsStep DEF Kill, Inv
<1>2. Ledger(job[r].source) \in Ledgers
  BY DEF Ledger, Ledgers
<1>3. LedgerTypes'
  BY <1>2 DEF Kill, Inv, LedgerTypes
<1> QED BY <1>1, <1>3 DEF Inv

LEMMA NextInv ==
  ASSUME Inv, [Next]_vars
  PROVE  Inv'
<1>1. CASE UNCHANGED vars
  <2>1. UNCHANGED <<pc, job, quote, doc, before, row, dirs, newest, torn, day, begun>>
    BY <1>1 DEF vars, runVars, ledgerVars
  <2>2. RunTypes' /\ LedgerTypes'
    BY <2>1 DEF Inv, RunTypes, LedgerTypes
  <2>3. RowsFit'
    BY <2>1 DEF Inv, RowsFit, RunOK, New, Intended, Adaptive
  <2> QED BY <2>2, <2>3 DEF Inv
<1>2. ASSUME NEW r \in Runs, Refuse(r) \/ ConsensusDies(r) PROVE Inv'
  <2>1. Ends(r) /\ UNCHANGED <<ledgerVars, day, begun>>
    BY <1>2 DEF Refuse, ConsensusDies
  <2>2. RunTypes' /\ RowsFit'
    BY <2>1, EndsStep DEF Inv
  <2>3. LedgerTypes'
    BY <2>1 DEF Inv, LedgerTypes, ledgerVars
  <2> QED BY <2>2, <2>3 DEF Inv
<1>3. CASE NextDay
  <2>1. /\ UNCHANGED <<pc, job, quote, doc, before, row, dirs, newest, torn, begun>>
        /\ day' = day + 1 /\ day < MaxDay
    BY <1>3 DEF NextDay, runVars, ledgerVars
  <2>2. RunTypes'
    BY <2>1 DEF Inv, RunTypes
  <2>3. LedgerTypes'
    BY <2>1, RunsAssumption DEF Inv, LedgerTypes
  <2>4. RowsFit'
    BY <2>1 DEF Inv, RowsFit, RunOK, New, Intended, Adaptive
  <2> QED BY <2>2, <2>3, <2>4 DEF Inv
<1> QED BY <1>1, <1>2, <1>3, BeginInv, LaunchInv, OpenDirInv, RecordInv, LoseInv,
           WriteInv, JudgeInv, FileInv, KillInv DEF Next

LEMMA InvHolds == Spec => []Inv
BY InitInv, NextInv, PTL DEF Spec

-------------------------------------------------------------------------------
(* The theorems.                                                           *)

\* A judged run holds the verdict on a document a loop left, at its own quote.
LEMMA JudgedRow ==
  ASSUME Inv, NEW r \in Judged
  PROVE  /\ Left(doc[r]) /\ doc[r].price = quote[r]
         /\ \E prior, env, date : row[r] = Filed(doc[r], prior, env, date, job[r].source)
BY DEF Inv, RowsFit, RunOK, Judged

\* Every variable keeps its type, the filed rows of all fields among them: the
\* order statistics and the medoid exist whatever the samples are.
THEOREM TypeCorrect == Spec => []TypeOK
<1>1. Inv => TypeOK
  BY TypeParts DEF Inv
<1> QED BY <1>1, InvHolds, PTL

\* A row that no gate stops rests on a complete run of at least two results,
\* none failed, reduced or lost, all on the side of the price it names.
THEOREM ActionableCorrect == Spec => []ActionableIsSound
<1>1. Inv => ActionableIsSound
  <2> SUFFICES ASSUME Inv, NEW r \in Judged, Actionable(row[r])
               PROVE  /\ Len(Results(r)) >= 2
                      /\ doc[r].attempted = Len(doc[r].runs)
                      /\ \A i \in DOMAIN doc[r].runs :
                            doc[r].runs[i].faults \cap {"failed", "reduced"} = {}
                      /\ row[r].direction # "hold" =>
                            OneSided(r, row[r].direction) /\ CruxValid(Results(r))
                      /\ job[r].source # "manual"
    BY DEF ActionableIsSound
  <2>1. Left(doc[r]) /\ doc[r].price = quote[r]
    BY JudgedRow
  <2>2. PICK prior, env, date : row[r] = Filed(doc[r], prior, env, date, job[r].source)
    BY JudgedRow
  <2>3. Fits(doc[r])
    BY <2>1 DEF Left
  <2> DEFINE d == doc[r]
             v == row[r]
             source == job[r].source
             good == Good(d.runs)
  <2>4. Fits(d) /\ v = Filed(d, prior, env, date, source) /\ Actionable(v)
    BY <2>2, <2>3
  <2> HIDE DEF d, v, source
  <2>5. /\ Len(good) >= 2 /\ d.attempted = Len(d.runs)
        /\ \A i \in DOMAIN d.runs : d.runs[i].faults \cap {"failed", "reduced"} = {}
        /\ source # "manual"
        /\ v.direction # "hold" =>
             /\ CruxValid(good)
             /\ \A i \in DOMAIN good :
                   IF v.direction = "undervalued" THEN good[i].iv > d.price
                   ELSE good[i].iv < d.price
    BY <2>4, RowIsSound
  <2> QED BY <2>1, <2>5 DEF Results, OneSided, d, v, source
<1> QED BY <1>1, InvHolds, PTL

\* A position of half or more rests on results that agree, a full one on every
\* sample entered, within 15%, with edge and conviction: as long as no job asks
\* for more than three samples, which is what the scheduler and the defaults of
\* the command line ask for.
THEOREM SizeCorrect ==
  ASSUME ThreeAtMost
  PROVE  Spec => []SizeIsEarned
<1>1. Inv => SizeIsEarned
  <2> SUFFICES ASSUME Inv, NEW r \in Judged, row[r].size \in {Half, Full}
               PROVE  /\ Len(Results(r)) >= 2
                      /\ 1000 * High(Results(r)) <= 1301 * Low(Results(r))
                      /\ row[r].size = Full =>
                            /\ Len(Results(r)) = doc[r].attempted
                            /\ 1000 * High(Results(r)) <= 1151 * Low(Results(r))
                            /\ 1000 * row[r].base >= 1249 * quote[r]
                            /\ \E i \in DOMAIN Results(r) : Results(r)[i].conviction >= 11
    BY DEF SizeIsEarned
  <2>1. Left(doc[r]) /\ doc[r].price = quote[r]
    BY JudgedRow
  <2>2. PICK prior, env, date : row[r] = Filed(doc[r], prior, env, date, job[r].source)
    BY JudgedRow
  <2>3. Fits(doc[r]) /\ doc[r].attempted <= 3
    BY <2>1 DEF Left
  <2> DEFINE d == doc[r]
             v == row[r]
             source == job[r].source
             good == Good(d.runs)
  <2>4. /\ Fits(d) /\ d.attempted <= 3
        /\ v = Filed(d, prior, env, date, source) /\ v.size \in {Half, Full}
    BY <2>2, <2>3
  <2> HIDE DEF d, v, source
  <2>5. /\ Len(good) >= 2
        /\ 1000 * High(good) <= 1301 * Low(good)
        /\ v.size = Full =>
              /\ Len(good) = d.attempted
              /\ 1000 * High(good) <= 1151 * Low(good)
              /\ 1000 * v.base >= 1249 * d.price
              /\ \E i \in DOMAIN good : good[i].conviction >= 11
    BY <2>4, RowIsEarned
  <2> QED BY <2>1, <2>5 DEF Results, d, v, source
<1> QED BY <1>1, InvHolds, PTL

\* A Kelly fraction above zero has a base above the price, which is one result's
\* own, and no overvalued call.
THEOREM KellyCorrect == Spec => []KellyHasEdge
<1>1. Inv => KellyHasEdge
  <2> SUFFICES ASSUME Inv, NEW r \in Judged, row[r].kelly > 0
               PROVE  /\ row[r].base > quote[r]
                      /\ \E i \in DOMAIN Results(r) : Results(r)[i].base = row[r].base
                      /\ row[r].direction # "overvalued"
                      /\ row[r].size # Zero
    BY DEF KellyHasEdge
  <2>1. Left(doc[r]) /\ doc[r].price = quote[r]
    BY JudgedRow
  <2>2. PICK prior, env, date : row[r] = Filed(doc[r], prior, env, date, job[r].source)
    BY JudgedRow
  <2>3. Fits(doc[r])
    BY <2>1 DEF Left
  <2> QED BY <2>1, <2>2, <2>3, RowAgrees DEF Results
<1> QED BY <1>1, InvHolds, PTL

\* The gate's checks on the label code find nothing on a row of this code.
THEOREM GatesCorrect == Spec => []GatesNeverFireOnOwnRows
<1>1. Inv => GatesNeverFireOnOwnRows
  <2> SUFFICES ASSUME Inv, NEW r \in Judged
               PROVE  Reasons(row[r]) \cap
                        {"kelly_on_overvalued", "high_dispersion",
                         "directional_without_valid_crux", "pre_gates"} = {}
    BY DEF GatesNeverFireOnOwnRows
  <2>1. Fits(doc[r])
    BY JudgedRow DEF Left
  <2>2. PICK prior, env, date : row[r] = Filed(doc[r], prior, env, date, job[r].source)
    BY JudgedRow
  <2> QED BY <2>1, <2>2, RowAgrees
<1> QED BY <1>1, InvHolds, PTL

\* The direction of a row is that of its results in any order.
THEOREM OrderCorrect == Spec => []DirectionIsOrderFree
<1>1. Inv => DirectionIsOrderFree
  <2> SUFFICES ASSUME Inv, NEW r \in Judged, row[r].direction # "NOT_USABLE",
                      NEW other \in Shuffled(Results(r))
               PROVE  Direction(other, row[r].price) = row[r].direction
    BY DEF DirectionIsOrderFree
  <2>1. Fits(doc[r])
    BY JudgedRow DEF Left
  <2>2. PICK prior, env, date : row[r] = Filed(doc[r], prior, env, date, job[r].source)
    BY JudgedRow
  <2> DEFINE good == Good(doc[r].runs)
  <2>3. /\ row[r].price = doc[r].price
        /\ ~Usable(good) => row[r].direction = "NOT_USABLE"
        /\ Usable(good) => row[r].direction = Direction(good, doc[r].price)
    BY <2>2, RowFields
  <2>4. Drawn(good)
    BY <2>1, GoodFacts DEF Fits
  <2>5. good # <<>> /\ row[r].direction = Direction(good, row[r].price)
    BY <2>3 DEF Usable
  <2>6. other \in Shuffled(good)
    BY DEF Results
  <2> HIDE DEF good
  <2>7. \A price : Direction(other, price) = Direction(good, price)
    BY <2>4, <2>5, <2>6, DirectionOrderFree
  <2> QED BY <2>5, <2>7
<1> QED BY <1>1, InvHolds, PTL
===============================================================================
