-------------------------- MODULE TradeSizingProofs --------------------------
(***************************************************************************)
(* Proofs about the sizing of trades, for every value of the constants.    *)
(***************************************************************************)
EXTENDS TradeSizing, ListsProofs, FiniteSetTheorems, SequenceTheorems, TLAPS

(***************************************************************************)
(* Arithmetic of the code's clamps and fractions.                          *)
(***************************************************************************)

LEMMA ClampType ==
  ASSUME NEW x \in Int, NEW lo \in Int, NEW hi \in Int, lo <= hi
  PROVE  Clamp(x, lo, hi) \in lo..hi
BY DEF Clamp

\* A price that is clamped is at least a cent, and at most one less than certain.
LEMMA ClampInside ==
  ASSUME NEW x \in Int PROVE Clamp(x, Tick, One - Tick) \in Inside
BY DEF Clamp, Inside, Tick, One

\* The ranges of prices and fractions.
LEMMA Ranges ==
  /\ One = 1000 /\ Tick = 10 /\ 0..One \subseteq Nat
  /\ \A x \in Inside : x \in Nat /\ Tick <= x /\ x <= One - Tick /\ x \in 0..One
BY DEF Inside, Tick, One

\* The parameters that are counted with.
LEMMA Parameters ==
  /\ MinEdge \in 0..One /\ Cost \in Nat /\ MinPnl \in Int /\ VetoThreshold \in Int
  /\ MaxActions \in Nat \ {0} /\ MaxTrades \in Nat
  /\ MaxFraction \in 0..One /\ MaxTotal \in 0..One /\ MinFraction \in 0..One
  /\ MaxBankrollFraction \in 0..One /\ MaxMarketNotional \in Nat
  /\ MinQuantity \in Nat /\ MaxQuantity \in Nat /\ HybridIocFraction \in 0..One
  /\ FillParts \subseteq 0..One
BY SizingAssumption, Zenon

\* A fraction of a fraction is a fraction, and no more than it.
LEMMA Fraction ==
  ASSUME NEW a \in Nat, NEW b \in 0..One
  PROVE  (a * b) \div One \in Nat /\ (a * b) \div One <= a
<1>1. a * b \in Nat /\ a * b <= a * One
  BY DEF One
<1>2. QED BY <1>1 DEF One

\* Kelly's fraction is never negative.
LEMMA KellyType ==
  ASSUME NEW fair \in Int, NEW observed \in Int PROVE Kelly(fair, observed) \in Nat
<1> DEFINE p    == Clamp(fair, Tick, One - Tick)
           gain == Greater(One - observed, Tick)
           cost == Greater(observed, Tick)
           k    == (p * gain - (One - p) * cost) \div gain
<1>1. p \in Inside
  BY ClampInside
<1>2. gain \in Nat \ {0} /\ cost \in Nat
  BY DEF Greater, Tick, One
<1> HIDE DEF p, gain, cost
<1>3. p * gain \in Int /\ (One - p) * cost \in Int
  BY <1>1, <1>2 DEF Inside, Tick, One
<1>4. k \in Int
  BY <1>2, <1>3
<1>5. Kelly(fair, observed) = Greater(0, k)
  BY DEF Kelly, p, gain, cost
<1> HIDE DEF k
<1>6. QED BY <1>4, <1>5 DEF Greater

\* What the allocator gives a candidate is within every limit, and within what
\* is left of the cycle.
LEMMA ShareType ==
  ASSUME NEW c \in Candidate, left \in 0..One
  PROVE  /\ Share(c) \in 0..One /\ Share(c) <= left /\ Share(c) <= MaxFraction
         /\ Scaled(c) \in 0..One /\ Scaled(c) <= left /\ Scaled(c) <= MaxFraction
<1>1. c.fair \in Int /\ c.observed \in Int /\ c.conf \in Int
  <2>1. c.fair \in Inside /\ c.observed \in 0..One /\ c.conf \in 0..One
    BY DEF Candidate
  <2>2. \A x : x \in Inside \/ x \in 0..One => x \in Int
    BY DEF Inside, One, Tick
  <2>3. QED BY <2>1, <2>2
<1>2. Kelly(c.fair, c.observed) \in Nat
  BY <1>1, KellyType
<1>3. Share(c) \in 0..One /\ Share(c) <= left /\ Share(c) <= MaxFraction
  <2> DEFINE k == Kelly(c.fair, c.observed)
  <2>1. k \in Nat
    BY <1>2
  <2>2. MaxFraction \in Nat /\ left \in Nat /\ MaxFraction <= One
    BY Parameters DEF One
  <2>3. Share(c) = Lesser(Lesser(k, MaxFraction), left)
    BY DEF Share
  <2> HIDE DEF k
  <2>4. QED BY <2>1, <2>2, <2>3 DEF Lesser, One
<1>4. Clamp(c.conf, 200, One) \in 0..One
  BY <1>1, SMTT(30) DEF Clamp, One
<1>5. Scaled(c) \in Nat /\ Scaled(c) <= Share(c)
  <2>1. Share(c) \in Nat
    BY <1>3
  <2>2. QED BY <1>4, <2>1, Fraction DEF Scaled
<1>6. Scaled(c) \in 0..One /\ Scaled(c) <= left /\ Scaled(c) <= MaxFraction
  <2>1. \A m, n \in Nat, o \in 0..One : n \in 0..One /\ m <= n => m \in 0..One /\ (n <= o => m <= o)
    BY DEF One
  <2>2. QED BY <1>3, <1>5, <2>1, Parameters
<1>7. QED BY <1>3, <1>6

\* A candidate made from a valuation.
LEMMA CandidateType ==
  ASSUME NEW v \in Valuations
  PROVE  /\ CandidateOf(v) \in Candidate /\ ForcedCandidate(v) \in Candidate
         /\ CandidateOf(v).observed \in Inside
<1>1. /\ v \in Valuation /\ v.ticker \in Tickers /\ v.mid \in 0..One /\ v.fair \in 0..One
      /\ v.conf \in 0..One /\ v.book \in Book
  BY SizingAssumption DEF Valuation
<1>2. v.book.bid \in 0..One \cup {Nil} /\ v.book.ask \in 0..One \cup {Nil}
  BY <1>1 DEF Book
<1>3. ASSUME NEW o \in Outcomes, NEW f \in 0..One, NEW ask \in 0..One
      PROVE  SideOf(v, o, f, ask) \in Candidate /\ SideOf(v, o, f, ask).observed \in Inside
  <2>1. Clamp(f, Tick, One - Tick) \in Inside /\ Clamp(ask, Tick, One - Tick) \in Inside
    BY ClampInside DEF One
  <2>2. f - ask - Cost \in Int
    BY Parameters
  <2>3. Inside \subseteq 0..One
    BY SMTT(30) DEF Inside, Tick, One
  <2>4. QED BY <1>1, <2>1, <2>2, <2>3 DEF SideOf, Candidate
<1>4. CandidateOf(v) \in Candidate /\ CandidateOf(v).observed \in Inside
  <2> DEFINE yesAsk == IF v.book.ask = Nil THEN v.mid ELSE v.book.ask
             noAsk  == One - (IF v.book.bid = Nil THEN v.mid ELSE v.book.bid)
  <2>1. yesAsk \in 0..One /\ noAsk \in 0..One /\ One - v.fair \in 0..One
    <3>1. \A x \in 0..One : One - x \in 0..One
      BY DEF One
    <3>2. QED BY <1>1, <1>2, <3>1
  <2>2. CandidateOf(v) \in {SideOf(v, "yes", v.fair, yesAsk), SideOf(v, "no", One - v.fair, noAsk)}
    BY DEF CandidateOf
  <2> HIDE DEF yesAsk, noAsk
  <2>3. QED BY <1>1, <1>3, <2>1, <2>2 DEF Outcomes
<1>5. ForcedCandidate(v) \in Candidate
  <2> DEFINE yes      == Clamp(v.mid, Tick, One - Tick)
             outcome  == IF yes <= 950 THEN "yes" ELSE "no"
             observed == IF yes <= 950 THEN yes ELSE Clamp(One - yes, Tick, One - Tick)
             fair     == Clamp(observed + 3 * Tick, Tick, One - Tick)
  <2>1. yes \in Inside
    BY <1>1, ClampInside, SMTT(30) DEF One
  <2>2. observed \in Inside
    BY <2>1, ClampInside, Ranges
  <2>3. outcome \in Outcomes
    BY DEF Outcomes
  <2> HIDE DEF yes, outcome, observed
  <2>4. fair \in Inside
    BY <2>2, ClampInside, SMTT(30) DEF Inside, Tick, One
  <2> HIDE DEF fair
  <2>5. Greater(fair - observed, Tick) \in Int /\ 700 \in 0..One /\ observed \in 0..One
    BY <2>2, <2>4 DEF Greater, Inside, Tick, One
  <2>6. [ticker |-> v.ticker, outcome |-> outcome, fair |-> fair, observed |-> observed,
         edge |-> Greater(fair - observed, Tick), conf |-> 700] \in Candidate
    BY <1>1, <2>3, <2>4, <2>5 DEF Candidate
  <2>7. QED BY <2>6 DEF ForcedCandidate, yes, outcome, observed, fair
<1>6. QED BY <1>4, <1>5

(***************************************************************************)
(* Lists and choices.                                                      *)
(***************************************************************************)

\* A list of a set's elements is a sequence of them.
LEMMA Listed ==
  ASSUME NEW S, NEW T, S \subseteq T, NEW score, NEW s \in Descending(S, score)
  PROVE  /\ s \in Seq(T) /\ \A i \in DOMAIN s : s[i] \in S
         /\ \A i, j \in DOMAIN s : s[i] = s[j] => i = j
<1>1. PICK n \in 0..MaxCandidates : s \in Bijection(1..n, S)
  BY DEF Descending
<1>2. s \in [1..n -> S] /\ \A i, j \in 1..n : s[i] = s[j] => i = j
  BY <1>1 DEF Bijection, Injection, IsInjective
<1>3. n \in Nat /\ s \in [1..n -> T] /\ DOMAIN s = 1..n
  BY <1>2
<1>4. s \in Seq(T)
  BY <1>3, SeqDef
<1>5. QED BY <1>2, <1>3, <1>4

\* A set of indices has a first one.
LEMMA FirstIsMember ==
  ASSUME NEW S \in SUBSET Nat, S # {} PROVE Min(S) \in S
<1>1. PICK x \in S : \A y \in S : ~(<<y, x>> \in OpToRel(<, Nat))
  BY NatLessThanWellFounded, WFMin
<1>2. ASSUME NEW y \in S PROVE x <= y
  <2>1. x \in Nat /\ y \in Nat /\ ~(y < x)
    BY <1>1 DEF OpToRel
  <2>2. QED BY <2>1
<1>3. QED BY <1>2 DEF Min

\* One of a few values is the greatest.
LEMMA GreatestOfFour ==
  ASSUME NEW n \in 1..4, NEW g, \A i \in 1..n : g[i] \in Int
  PROVE  \E i \in 1..n : \A j \in 1..n : g[i] >= g[j]
<1>1. CASE n = 1
  BY <1>1
<1>2. CASE n = 2
  BY <1>2
<1>3. CASE n = 3
  BY <1>3
<1>4. CASE n = 4
  <2>1. PICK i \in 1..3 : \A j \in 1..3 : g[i] >= g[j]
    BY <1>4
  <2>2. CASE g[i] >= g[4]
    BY <1>4, <2>1, <2>2
  <2>3. CASE ~(g[i] >= g[4])
    BY <1>4, <2>1, <2>3
  <2>4. QED BY <2>2, <2>3
<1>5. QED BY <1>1, <1>2, <1>3, <1>4

(***************************************************************************)
(* The policy's decisions.                                                 *)
(***************************************************************************)

\* The limits tried are prices: at least one of them, at most four.
LEMMA GridType ==
  ASSUME NEW c \in Candidate, NEW b \in Book
  PROVE  /\ DOMAIN ActionGrid(c, b) = 1..Lesser(MaxActions, 4) /\ Lesser(MaxActions, 4) \in 1..4
         /\ \A i \in DOMAIN ActionGrid(c, b) : ActionGrid(c, b)[i] \in 0..One
<1> DEFINE s  == Spread(b)
           p1 == c.observed
           p2 == IF b.ask = Nil THEN c.observed ELSE b.ask
           d3 == IF s = Nil THEN Tick ELSE s \div 2
           d4 == IF s = Nil THEN Tick ELSE s \div 4
           p3 == Clamp(c.observed - d3, Tick, One - Tick)
           p4 == Clamp(c.observed + d4, Tick, One - Tick)
           n  == Lesser(MaxActions, 4)
<1>1. p1 \in 0..One /\ b.bid \in 0..One \cup {Nil} /\ b.ask \in 0..One \cup {Nil}
  BY DEF Candidate, Book
<1>2. p2 \in 0..One
  BY <1>1
<1>3. s \in Int \cup {Nil}
  <2>1. \A x, y \in 0..One : x - y \in Int
    BY DEF One
  <2>2. QED BY <1>1, <2>1 DEF Spread
<1>4. d3 \in Int /\ d4 \in Int
  <2>1. \A x \in Int : x \div 2 \in Int /\ x \div 4 \in Int
    OBVIOUS
  <2>2. Tick \in Int
    BY DEF Tick
  <2>3. QED BY <1>3, <2>1, <2>2
<1> HIDE DEF d3, d4, s
<1>5. p3 \in 0..One /\ p4 \in 0..One
  <2>1. \A x \in 0..One, d \in Int : x - d \in Int /\ x + d \in Int
    BY DEF One
  <2>2. p3 \in Inside /\ p4 \in Inside
    BY <1>1, <1>4, <2>1, ClampInside
  <2>3. QED BY <2>2, Ranges
<1>6. n \in 1..4
  BY Parameters DEF Lesser
<1> HIDE DEF p1, p2, p3, p4, n
<1> DEFINE wide == <<p1, p2, p3, p4>>
<1>7. wide \in Seq(0..One) /\ Len(wide) = 4
  BY <1>1, <1>2, <1>5
<1>8. \A i \in 1..4 : wide[i] \in 0..One
  BY <1>1, <1>2, <1>5
<1>9. ActionGrid(c, b) = SubSeq(wide, 1, n)
  BY <1>7 DEF ActionGrid, p1, p2, p3, p4, d3, d4, s, n
<1> HIDE DEF wide
<1>10. /\ SubSeq(wide, 1, n) \in Seq(0..One)
       /\ Len(SubSeq(wide, 1, n)) = n
       /\ \A i \in 1..n : SubSeq(wide, 1, n)[i] = wide[i]
  <2>1. n \in Int /\ 1 \in Int /\ \A i \in 1..n : wide[i] \in 0..One
    BY <1>6, <1>8
  <2>2. /\ SubSeq(wide, 1, n) \in Seq(0..One)
        /\ Len(SubSeq(wide, 1, n)) = IF 1 <= n THEN n - 1 + 1 ELSE 0
        /\ \A i \in 1..(n - 1 + 1) : SubSeq(wide, 1, n)[i] = wide[1 + i - 1]
    BY <2>1, SubSeqProperties
  <2>3. QED BY <1>6, <2>2
<1>11. DOMAIN SubSeq(wide, 1, n) = 1..n
  BY <1>10
<1>12. /\ DOMAIN ActionGrid(c, b) = 1..n
       /\ \A i \in DOMAIN ActionGrid(c, b) : ActionGrid(c, b)[i] \in 0..One
  <2>1. \A i \in 1..n : i \in 1..4
    BY <1>6
  <2>2. QED BY <1>8, <1>9, <1>10, <1>11, <2>1
<1>13. QED BY <1>6, <1>12 DEF n

Forecast == [fair : Inside, conf : 0..One]

\* What an action is scored, whatever is estimated of it.
LEMMA ScoreType ==
  ASSUME NEW f \in Forecast, NEW limit \in 0..One, NEW e \in Estimate
  PROVE  Score(f, limit, e) \in Decision
<1>1. f.fair \in Inside /\ f.conf \in 0..One
  BY DEF Forecast
<1>2. e.fill \in 1..One /\ e.price \in 1..One /\ e.markout \in Markouts
  BY DEF Estimate
<1>3. Pnl(f.fair, e) \in Int
  <2> DEFINE x == ((f.fair - e.price) * One + e.markout * e.price)
             y == Greater(e.price, Tick)
  <2>1. f.fair \in Int /\ e.price \in Int /\ e.markout \in Int /\ e.fill \in Int
    <3>1. \A z : z \in Inside \/ z \in 1..One \/ z \in Markouts => z \in Int
      BY SMTT(30) DEF Inside, Tick, One, Markouts
    <3>2. QED BY <1>1, <1>2, <3>1
  <2>2. x \in Int
    BY <2>1 DEF One
  <2>3. y \in Nat \ {0}
    BY <2>1 DEF Greater, Tick
  <2> HIDE DEF x, y
  <2>4. x \div y \in Int
    BY <2>2, <2>3
  <2>5. e.fill * (x \div y) \in Int
    BY <2>1, <2>4
  <2>6. (e.fill * (x \div y)) \div One \in Int
    BY <2>5 DEF One
  <2>7. QED BY <2>6 DEF Pnl, x, y
<1> DEFINE pnl   == Pnl(f.fair, e)
           trade == e.markout >= VetoThreshold /\ pnl >= MinPnl
           size  == IF trade THEN Clamp((e.fill * f.conf) \div One, 100, One) ELSE 0
<1>4. trade \in BOOLEAN
  OBVIOUS
<1>5. size \in 0..One
  <2>1. e.fill \in Nat
    <3>1. \A z \in 1..One : z \in Nat
      BY DEF One
    <3>2. QED BY <1>2, <3>1
  <2> DEFINE x == (e.fill * f.conf) \div One
  <2>2. x \in Nat
    BY <1>1, <2>1, Fraction
  <2> HIDE DEF x
  <2>3. Clamp(x, 100, One) \in 0..One
    BY <2>2 DEF Clamp, One
  <2>4. size = IF trade THEN Clamp(x, 100, One) ELSE 0
    BY DEF x
  <2> HIDE DEF trade, size
  <2>5. QED BY <2>3, <2>4, Ranges
<1>6. Score(f, limit, e) = [trade |-> trade, limit |-> limit, pnl |-> pnl, fill |-> e.fill,
                            fair |-> f.fair, markout |-> e.markout, size |-> size]
  BY DEF Score
<1>7. pnl \in Int
  BY <1>3
<1> HIDE DEF pnl, trade, size
<1>8. QED BY <1>1, <1>2, <1>4, <1>5, <1>6, <1>7 DEF Decision

\* The decision about a candidate.
LEMMA DecideType ==
  ASSUME NEW c \in Candidate, NEW f \in Forecast, NEW b \in Book,
         NEW es \in [1..Lesser(MaxActions, 4) -> Estimates]
  PROVE  Decide(c, f, b, es) \in Decision
<1> DEFINE grid == ActionGrid(c, b)
           n    == Lesser(MaxActions, 4)
           d    == [i \in DOMAIN grid |-> Score(f, grid[i], es[i])]
           g    == [i \in DOMAIN grid |-> d[i].pnl]
           best == {i \in DOMAIN grid : \A j \in DOMAIN grid : d[i].pnl >= d[j].pnl}
<1>1. DOMAIN grid = 1..n /\ n \in 1..4 /\ \A i \in 1..n : grid[i] \in 0..One
  BY GridType
<1>2. \A i \in 1..n : es[i] \in Estimate
  <2>1. Estimates \subseteq Estimate
    BY SizingAssumption, Zenon
  <2>2. QED BY <2>1
<1> HIDE DEF grid, n
<1>3. \A i \in 1..n : d[i] \in Decision
  BY <1>1, <1>2, ScoreType
<1> HIDE DEF d
<1>4. \A i \in 1..n : d[i].pnl \in Int
  BY <1>3 DEF Decision
<1>5. \A i \in 1..n : g[i] = d[i].pnl
  BY <1>1
<1> HIDE DEF g
<1>6. PICK i \in 1..n : \A j \in 1..n : g[i] >= g[j]
  BY <1>1, <1>4, <1>5, GreatestOfFour
<1>7. i \in best /\ best \subseteq 1..n
  BY <1>1, <1>5, <1>6
<1>8. best \in SUBSET Nat /\ best # {}
  BY <1>1, <1>7
<1>9. Decide(c, f, b, es) = d[Min(best)]
  BY DEF Decide, d, grid
<1> HIDE DEF best
<1>10. Min(best) \in best
  BY <1>8, FirstIsMember
<1>11. QED BY <1>3, <1>7, <1>9, <1>10

\* The decisions the policy may take about a candidate.
LEMMA DecisionsType ==
  ASSUME NEW c \in Candidate PROVE DecisionsOn(c) \subseteq Decision
<1>1. Valuations \subseteq Valuation /\ Books \subseteq Book
  BY SizingAssumption, Zenon
<1>2. [fair |-> c.fair, conf |-> c.conf] \in Forecast
  BY DEF Candidate, Forecast
<1>3. ASSUME NEW v \in Valuations
      PROVE  [fair |-> Clamp(IF c.outcome = "yes" THEN v.fair ELSE One - v.fair, Tick, One - Tick),
              conf |-> v.conf] \in Forecast
  <2> DEFINE x == IF c.outcome = "yes" THEN v.fair ELSE One - v.fair
  <2>1. v.fair \in 0..One /\ v.conf \in 0..One
    BY <1>1 DEF Valuation
  <2>2. \A y \in 0..One : y \in Int /\ One - y \in Int
    BY DEF One
  <2>3. x \in Int
    BY <2>1, <2>2
  <2> HIDE DEF x
  <2>4. Clamp(x, Tick, One - Tick) \in Inside
    BY <2>3, ClampInside
  <2>5. QED BY <2>1, <2>4 DEF Forecast, x
<1>4. Forecasts(c) \subseteq Forecast
  BY <1>2, <1>3 DEF Forecasts
<1>5. ASSUME NEW d \in DecisionsOn(c) PROVE d \in Decision
  <2>1. PICK f \in Forecasts(c), b \in Books, es \in [1..Lesser(MaxActions, 4) -> Estimates] :
          d = Decide(c, f, b, es)
    BY DEF DecisionsOn
  <2>2. f \in Forecast /\ b \in Book
    BY <1>1, <1>4
  <2>3. QED BY <2>1, <2>2, DecideType
<1>6. QED BY <1>5

\* A candidate the policy has priced anew is still one, for the same market and side.
LEMMA RankedType ==
  ASSUME TypeOK, NEW c \in Ranked
  PROVE  c \in Candidate /\ (Active => Key(c) \in DOMAIN decisions)
<1>1. ASSUME NEW k \in ToSet(candidates) PROVE k \in Candidate
  BY DEF ToSet, TypeOK
<1>2. CASE ~Active
  BY <1>1, <1>2 DEF Ranked
<1>3. CASE Active
  <2>1. PICK k \in ToSet(candidates) :
          /\ Key(k) \in DOMAIN decisions
          /\ c = [k EXCEPT !.observed = decisions[Key(k)].limit,
                           !.edge = Greater(decisions[Key(k)].pnl, 0),
                           !.conf = decisions[Key(k)].fill,
                           !.fair = decisions[Key(k)].fair]
    BY <1>3 DEF Ranked
  <2> DEFINE d == decisions[Key(k)]
             edge == Greater(d.pnl, 0)
  <2>2. d \in Decision /\ k \in Candidate
    BY <1>1, <2>1 DEF TypeOK
  <2>3. c = [k EXCEPT !.observed = d.limit, !.edge = edge, !.conf = d.fill, !.fair = d.fair]
    BY <2>1
  <2> HIDE DEF d
  <2>4. d.limit \in 0..One /\ d.pnl \in Int /\ d.fill \in 1..One /\ d.fair \in Inside
    BY <2>2 DEF Decision
  <2>5. edge \in Int
    BY <2>4 DEF Greater
  <2>6. d.fill \in 0..One
    BY <2>4 DEF One
  <2> HIDE DEF edge
  <2>7. c \in Candidate /\ c.ticker = k.ticker /\ c.outcome = k.outcome
    BY <2>2, <2>3, <2>4, <2>5, <2>6 DEF Candidate
  <2>8. QED BY <2>1, <2>7 DEF Key
<1>4. QED BY <1>2, <1>3

\* A list of indices in order has each of them once.
LEMMA OrderedType ==
  ASSUME NEW n \in Nat, NEW I \in SUBSET (1..n), NEW f \in Ordered(I)
  PROVE  /\ \E m \in Nat : DOMAIN f = 1..m
         /\ \A i \in DOMAIN f : f[i] \in I
         /\ \A i, j \in DOMAIN f : f[i] = f[j] => i = j
<1>1. IsFiniteSet(1..n)
  BY FS_Interval
<1>2. IsFiniteSet(I)
  BY <1>1, FS_Subset
<1>3. Cardinality(I) \in Nat
  BY <1>2, FS_CardinalityType
<1> DEFINE m == Cardinality(I)
<1>4. f \in [1..m -> I] /\ \A i, j \in 1..m : i < j => f[i] < f[j]
  BY DEF Ordered
<1>5. m \in Nat
  BY <1>3
<1> HIDE DEF m
<1>6. \A i \in 1..m : f[i] \in I /\ f[i] \in Nat
  <2>1. \A x \in I : x \in Nat
    OBVIOUS
  <2>2. QED BY <1>4, <2>1
<1>7. ASSUME NEW i \in 1..m, NEW j \in 1..m, f[i] = f[j] PROVE i = j
  BY <1>4, <1>5, <1>6, <1>7
<1>8. DOMAIN f = 1..m
  BY <1>4
<1>9. QED BY <1>5, <1>6, <1>7, <1>8

\* A name is resolved to a market, or not at all.
LEMMA ResolutionType ==
  ASSUME NEW name \in Tickers, NEW m \in Resolutions(name) PROVE m \in Tickers \cup {Nil}
<1>1. Aliases \in [DOMAIN Aliases -> Tickers]
  BY SizingAssumption, Zenon
<1>2. QED BY <1>1 DEF Resolutions

\* A trade the policy shrinks.
LEMMA ShrunkType ==
  ASSUME TypeOK, NEW a \in TradeType, Active => Key(a.candidate) \in DOMAIN decisions
  PROVE  /\ Shrunk(a) \in TradeType /\ Shrunk(a).candidate = a.candidate
         /\ Shrunk(a).fraction <= a.fraction
<1>1. a.fraction \in 0..One /\ a.fraction \in Nat
  <2>1. a.fraction \in 0..One
    BY DEF TradeType
  <2>2. QED BY <2>1, Ranges, SMTT(30)
<1>2. CASE ~Active
  BY <1>1, <1>2 DEF Shrunk
<1>3. CASE Active
  <2> DEFINE size == decisions[Key(a.candidate)].size
             x    == (a.fraction * size) \div One
  <2>1. size \in 0..One
    BY <1>3 DEF TypeOK, Decision
  <2> HIDE DEF size
  <2>2. x \in Nat /\ x <= a.fraction
    BY <1>1, <2>1, Fraction
  <2>3. x \in 0..One
    <3>1. \A y \in Nat, z \in 0..One : y <= z => y \in 0..One
      BY DEF One
    <3>2. QED BY <1>1, <2>2, <3>1
  <2>4. Shrunk(a) = [a EXCEPT !.fraction = x]
    BY <1>3 DEF Shrunk, size
  <2> HIDE DEF x
  <2>5. QED BY <2>2, <2>3, <2>4 DEF TradeType
<1>4. QED BY <1>2, <1>3

(***************************************************************************)
(* Types.  What holds of a cycle's stages: before the allocator runs there *)
(* are no trades, before the engine does no orders, and in active mode     *)
(* every candidate that the allocator has was decided about, under the     *)
(* name the size multiplier is later looked up by.                         *)
(***************************************************************************)

DecidedOn(c) == Active => Key(c) \in DOMAIN decisions

StageInv ==
  /\ stage \in {"idle", "decide"} => trades = <<>>
  /\ stage # "execute" => orders = <<>>
  /\ stage = "allocate" => \A i \in DOMAIN queue : DecidedOn(queue[i])
  /\ stage \in {"allocate", "guard"} => \A i \in DOMAIN trades : DecidedOn(trades[i].candidate)

ShapeInv == TypeOK /\ StageInv

OrderRecord ==
  [market : Tickers, candidate : Candidate, limit : Inside, parts : SUBSET Nat, stake : Nat]

\* A sequence without its head, and with one more element.
LEMMA TailType ==
  ASSUME NEW T, NEW s \in Seq(T), s # <<>>
  PROVE  /\ Head(s) \in T /\ Head(s) = s[1] /\ Tail(s) \in Seq(T) /\ 1 \in DOMAIN s
         /\ \A i \in DOMAIN Tail(s) : i + 1 \in DOMAIN s /\ Tail(s)[i] = s[i + 1]
<1>1. Len(s) \in Nat \ {0} /\ DOMAIN s = 1..Len(s)
  BY EmptySeq, LenProperties
<1>2. /\ Head(s) = s[1] /\ Tail(s) \in Seq(T) /\ Len(Tail(s)) = Len(s) - 1
      /\ \A i \in 1..Len(Tail(s)) : Tail(s)[i] = s[i + 1]
  BY <1>1, HeadTailProperties
<1>3. QED BY <1>1, <1>2, ElementOfSeq

LEMMA AppendType ==
  ASSUME NEW T, NEW s \in Seq(T), NEW e \in T
  PROVE  /\ Append(s, e) \in Seq(T)
         /\ DOMAIN s = 1..Len(s) /\ DOMAIN Append(s, e) = 1..(Len(s) + 1)
         /\ \A i \in DOMAIN s : Append(s, e)[i] = s[i]
         /\ Append(s, e)[Len(s) + 1] = e
BY AppendProperties, LenProperties

\* A new cycle.
LEMMA EndCycleShape == ASSUME ShapeInv, EndCycle PROVE ShapeInv'
<1>1. MaxTotal \in 0..One
  BY Parameters
<1>2. TypeOK'
  <2>1. decisions' = NoDecisions /\ DOMAIN NoDecisions = {}
    BY DEF EndCycle, NoDecisions
  <2>2. DOMAIN decisions' = {}
    BY <2>1
  <2>3. /\ stage' = "idle" /\ candidates' = <<>> /\ forced' = FALSE /\ queue' = <<>>
        /\ left' = MaxTotal /\ seen' = {} /\ trades' = <<>> /\ orders' = <<>>
        /\ setting' = setting
    BY DEF EndCycle
  <2>4. /\ DOMAIN decisions' \subseteq Tickers \X Outcomes
        /\ \A k \in DOMAIN decisions' : decisions'[k] \in Decision
    BY <2>2
  <2>5. /\ candidates' \in Seq(Candidate) /\ queue' \in Seq(Candidate) /\ trades' \in Seq(TradeType)
        /\ orders' \in Seq(OrderRecord)
    BY <2>3
  <2>6. setting' \in [policy : PolicyModes, models : BOOLEAN, hybrid : BOOLEAN]
    BY <2>3 DEF ShapeInv, TypeOK
  <2>7. QED BY <1>1, <2>3, <2>4, <2>5, <2>6 DEF TypeOK, OrderRecord
<1>3. StageInv'
  BY DEF EndCycle, StageInv
<1>4. QED BY <1>2, <1>3 DEF ShapeInv

LEMMA ChooseCandidatesShape == ASSUME ShapeInv, ChooseCandidates PROVE ShapeInv'
<1>1. candidates' \in Seq(Candidate) /\ forced' \in BOOLEAN
  <2>1. PICK vs \in Views :
          LET found == {CandidateOf(v) : v \in {w \in vs : ~Converged(w)}}
              good  == {c \in found : c.edge >= MinEdge}
          IN \/ /\ good # {} /\ candidates' \in Descending(good, [c \in good |-> c.edge])
                /\ forced' = FALSE
             \/ /\ good = {} /\ ForceTestCandidate
                /\ candidates' \in {<<ForcedCandidate(v)>> : v \in vs}
                /\ forced' = PaperCapture
    BY DEF ChooseCandidates
  <2> DEFINE good == {c \in {CandidateOf(v) : v \in {w \in vs : ~Converged(w)}} : c.edge >= MinEdge}
  <2>2. vs \subseteq Valuations
    BY DEF Views, kSubset
  <2>3. good \subseteq Candidate
    BY <2>2, CandidateType
  <2>4. PaperCapture \in BOOLEAN
    BY SizingAssumption, Zenon
  <2>5. \/ candidates' \in Descending(good, [c \in good |-> c.edge]) /\ forced' = FALSE
        \/ candidates' \in {<<ForcedCandidate(v)>> : v \in vs} /\ forced' = PaperCapture
    BY <2>1, Zenon
  <2> HIDE DEF good
  <2>6. CASE candidates' \in Descending(good, [c \in good |-> c.edge]) /\ forced' = FALSE
    BY <2>3, <2>6, Listed
  <2>7. CASE candidates' \in {<<ForcedCandidate(v)>> : v \in vs} /\ forced' = PaperCapture
    <3>1. PICK v \in vs : candidates' = <<ForcedCandidate(v)>>
      BY <2>7
    <3>2. ForcedCandidate(v) \in Candidate
      BY <2>2, <3>1, CandidateType
    <3>3. QED BY <2>4, <2>7, <3>1, <3>2
  <2>8. QED BY <2>5, <2>6, <2>7
<1>2. TypeOK'
  BY <1>1 DEF ChooseCandidates, ShapeInv, TypeOK
<1>3. StageInv'
  BY DEF ChooseCandidates, ShapeInv, StageInv
<1>4. QED BY <1>2, <1>3 DEF ShapeInv

LEMMA DecideNextShape == ASSUME ShapeInv, DecideNext PROVE ShapeInv'
<1> DEFINE c == candidates[Min(Undecided)]
<1>1. PICK d \in DecisionsOn(c) :
        decisions' = [k \in DOMAIN decisions \cup {Key(c)} |->
                        IF k = Key(c) THEN d ELSE decisions[k]]
  BY DEF DecideNext
<1>2. Undecided \subseteq DOMAIN candidates /\ Undecided # {} /\ DOMAIN candidates \subseteq Nat
  <2>1. Undecided \subseteq DOMAIN candidates
    BY DEF Undecided
  <2>2. Undecided # {}
    BY DEF DecideNext
  <2>3. candidates \in Seq(Candidate)
    BY DEF ShapeInv, TypeOK
  <2>4. DOMAIN candidates = 1..Len(candidates) /\ Len(candidates) \in Nat
    BY <2>3, LenProperties
  <2>5. DOMAIN candidates \subseteq Nat
    BY <2>4
  <2>6. QED BY <2>1, <2>2, <2>5
<1>3. Min(Undecided) \in DOMAIN candidates
  BY <1>2, FirstIsMember
<1>4. c \in Candidate
  BY <1>3 DEF ShapeInv, TypeOK
<1> HIDE DEF c
<1>5. d \in Decision /\ Key(c) \in Tickers \X Outcomes
  BY <1>1, <1>4, DecisionsType DEF Key, Candidate
<1>6. /\ DOMAIN decisions' \subseteq Tickers \X Outcomes
      /\ \A k \in DOMAIN decisions' : decisions'[k] \in Decision
  BY <1>1, <1>5 DEF ShapeInv, TypeOK
<1>7. TypeOK'
  BY <1>6 DEF DecideNext, ShapeInv, TypeOK
<1>8. StageInv'
  BY DEF DecideNext, ShapeInv, StageInv
<1>9. QED BY <1>7, <1>8 DEF ShapeInv

LEMMA StartAllocationShape == ASSUME ShapeInv, StartAllocation PROVE ShapeInv'
<1>1. PICK s \in Descending(Allowed, [c \in Allowed |-> c.edge * c.conf]) :
        queue' = SubSeq(s, 1, Lesser(MaxTrades, Len(s)))
  BY DEF StartAllocation
<1>2. \A c \in Allowed : c \in Candidate /\ DecidedOn(c)
  BY RankedType DEF Allowed, ShapeInv, DecidedOn
<1>3. s \in Seq(Candidate) /\ \A i \in DOMAIN s : s[i] \in Allowed
  BY <1>1, <1>2, Listed
<1> DEFINE n == Lesser(MaxTrades, Len(s))
<1>4. Len(s) \in Nat /\ DOMAIN s = 1..Len(s) /\ n \in Nat /\ n <= Len(s)
  BY <1>3, Parameters, LenProperties DEF Lesser
<1>5. queue' = SubSeq(s, 1, n)
  BY <1>1
<1> HIDE DEF n
<1>6. queue' \in Seq(Candidate) /\ \A i \in DOMAIN queue' : queue'[i] \in Allowed
  <2>1. \A i \in 1..n : s[i] \in Candidate
    BY <1>2, <1>3, <1>4
  <2>2. /\ SubSeq(s, 1, n) \in Seq(Candidate)
        /\ Len(SubSeq(s, 1, n)) = IF 1 <= n THEN n - 1 + 1 ELSE 0
        /\ \A i \in 1..(n - 1 + 1) : SubSeq(s, 1, n)[i] = s[1 + i - 1]
    BY <1>3, <1>4, <2>1, SubSeqProperties
  <2>3. DOMAIN SubSeq(s, 1, n) = 1..Len(SubSeq(s, 1, n))
    BY <2>2, LenProperties
  <2>4. \A i \in DOMAIN SubSeq(s, 1, n) : i \in 1..n /\ SubSeq(s, 1, n)[i] = s[i]
    BY <1>4, <2>2, <2>3
  <2>5. QED BY <1>3, <1>4, <1>5, <2>2, <2>4
<1>7. TypeOK'
  BY <1>6 DEF StartAllocation, ShapeInv, TypeOK
<1>8. trades = <<>> /\ UNCHANGED <<setting, decisions, trades, orders>> /\ orders = <<>>
      /\ stage' = "allocate"
  BY DEF StartAllocation, ShapeInv, StageInv
<1>9. \A i \in DOMAIN queue' : DecidedOn(queue'[i])
  BY <1>2, <1>6
<1>10. StageInv'
  BY <1>8, <1>9 DEF StageInv, DecidedOn, Active
<1>11. QED BY <1>7, <1>10 DEF ShapeInv

LEMMA BootstrapAllocationShape == ASSUME ShapeInv, BootstrapAllocation PROVE ShapeInv'
<1>1. CASE Allowed = {}
  <2>1. trades' = <<>> /\ orders = <<>>
    BY <1>1 DEF BootstrapAllocation, ShapeInv, StageInv
  <2>2. TypeOK'
    BY <2>1 DEF BootstrapAllocation, ShapeInv, TypeOK
  <2>3. StageInv'
    BY <2>1 DEF BootstrapAllocation, StageInv
  <2>4. QED BY <2>2, <2>3 DEF ShapeInv
<1>2. CASE Allowed # {}
  <2>1. PICK c \in Allowed : trades' = <<Trade(c, Greater(MinFraction, Tick))>>
    BY <1>2 DEF BootstrapAllocation
  <2>2. c \in Candidate /\ DecidedOn(c)
    BY RankedType DEF Allowed, ShapeInv, DecidedOn
  <2> DEFINE t == Trade(c, Greater(MinFraction, Tick))
  <2>3. Greater(MinFraction, Tick) \in 0..One
    BY Parameters DEF Greater, Tick, One
  <2>4. t \in TradeType /\ t.candidate = c
    BY <2>2, <2>3 DEF Trade, TradeType
  <2> HIDE DEF t
  <2>5. trades' = <<t>>
    BY <2>1 DEF t
  <2>6. TypeOK'
    BY <2>4, <2>5 DEF BootstrapAllocation, ShapeInv, TypeOK
  <2>7. orders' = <<>> /\ stage' = "guard" /\ UNCHANGED <<setting, decisions>>
    BY DEF BootstrapAllocation, ShapeInv, StageInv
  <2>8. \A i \in DOMAIN trades' : DecidedOn(trades'[i].candidate)
    BY <2>2, <2>4, <2>5
  <2>9. StageInv'
    BY <2>7, <2>8 DEF StageInv, DecidedOn, Active
  <2>10. QED BY <2>6, <2>9 DEF ShapeInv
<1>3. QED BY <1>1, <1>2

\* The allocator looks at one candidate of its queue.
LEMMA QueueShape ==
  ASSUME ShapeInv, stage = "allocate", queue # <<>>
  PROVE  /\ Head(queue) \in Candidate /\ DecidedOn(Head(queue))
         /\ Tail(queue) \in Seq(Candidate)
         /\ \A i \in DOMAIN Tail(queue) : DecidedOn(Tail(queue)[i])
BY TailType DEF ShapeInv, TypeOK, StageInv

LEMMA SeeType ==
  ASSUME TypeOK, NEW c \in Candidate, See(c) PROVE seen' \subseteq Events
<1>1. c.ticker \in Tickers
  BY DEF Candidate
<1>2. EventOf \in [Tickers -> Events]
  BY SizingAssumption, Zenon
<1>3. QED BY <1>1, <1>2 DEF See, TypeOK

LEMMA SkipShape ==
  ASSUME ShapeInv, SkipTakenEvent \/ SkipSmall PROVE ShapeInv'
<1>1. /\ Allocating /\ queue' = Tail(queue)
      /\ UNCHANGED <<setting, stage, candidates, forced, decisions, left, trades, orders>>
      /\ See(Head(queue)) \/ UNCHANGED seen
  BY DEF SkipTakenEvent, SkipSmall
<1>2. stage = "allocate" /\ queue # <<>>
  BY <1>1 DEF Allocating
<1>3. /\ Head(queue) \in Candidate
      /\ queue' \in Seq(Candidate) /\ \A i \in DOMAIN queue' : DecidedOn(queue'[i])
  BY <1>1, <1>2, QueueShape
<1>4. seen' \subseteq Events
  BY <1>1, <1>3, SeeType DEF ShapeInv, TypeOK
<1>5. TypeOK'
  BY <1>1, <1>3, <1>4 DEF ShapeInv, TypeOK
<1>6. StageInv'
  BY <1>1, <1>2, <1>3 DEF ShapeInv, StageInv, DecidedOn, Active
<1>7. QED BY <1>5, <1>6 DEF ShapeInv

LEMMA AllocateShape == ASSUME ShapeInv, Allocate PROVE ShapeInv'
<1> DEFINE c == Head(queue)
           t == Trade(c, Scaled(c))
<1>1. /\ stage = "allocate" /\ queue # <<>> /\ trades' = Append(trades, t)
      /\ left' = left - Scaled(c) /\ queue' = Tail(queue) /\ See(c)
      /\ UNCHANGED <<setting, stage, candidates, forced, decisions, orders>>
  BY DEF Allocate, Allocating, Spend
<1>2. /\ c \in Candidate /\ DecidedOn(c)
      /\ queue' \in Seq(Candidate) /\ \A i \in DOMAIN queue' : DecidedOn(queue'[i])
  BY <1>1, QueueShape
<1> HIDE DEF c
<1>3. seen' \subseteq Events
  BY <1>1, <1>2, SeeType DEF ShapeInv
<1>4. Scaled(c) \in 0..One /\ Scaled(c) <= left /\ left \in 0..One
  BY <1>2, ShareType DEF ShapeInv, TypeOK
<1>5. t \in TradeType /\ t.candidate = c
  BY <1>2, <1>4 DEF Trade, TradeType
<1>6. left' \in 0..One
  <2>1. \A x, y \in 0..One : y <= x => x - y \in 0..One
    BY DEF One
  <2>2. QED BY <1>1, <1>4, <2>1
<1> HIDE DEF t
<1>7. /\ trades' \in Seq(TradeType) /\ DOMAIN trades' = 1..(Len(trades) + 1)
      /\ DOMAIN trades = 1..Len(trades) /\ Len(trades) \in Nat
      /\ \A i \in DOMAIN trades : trades'[i] = trades[i] /\ trades'[Len(trades) + 1] = t
  BY <1>1, <1>5, AppendType, LenProperties DEF ShapeInv, TypeOK
<1>8. trades'[Len(trades) + 1] = t
  BY <1>1, <1>5, AppendType DEF ShapeInv, TypeOK
<1>9. TypeOK'
  BY <1>1, <1>2, <1>3, <1>6, <1>7 DEF ShapeInv, TypeOK
<1>10. \A i \in DOMAIN trades' : DecidedOn(trades'[i].candidate)
  <2>1. \A i \in DOMAIN trades : DecidedOn(trades[i].candidate)
    BY <1>1 DEF ShapeInv, StageInv
  <2>2. \A i \in DOMAIN trades' : i \in DOMAIN trades \/ i = Len(trades) + 1
    BY <1>7
  <2>3. QED BY <1>2, <1>5, <1>7, <1>8, <2>1, <2>2
<1>11. StageInv'
  BY <1>1, <1>2, <1>10 DEF ShapeInv, StageInv, DecidedOn, Active
<1>12. QED BY <1>9, <1>11 DEF ShapeInv

LEMMA AllocationOverShape == ASSUME ShapeInv, AllocationOver PROVE ShapeInv'
<1>1. TypeOK'
  BY DEF AllocationOver, ShapeInv, TypeOK
<1>2. StageInv'
  BY DEF AllocationOver, ShapeInv, StageInv, DecidedOn, Active
<1>3. QED BY <1>1, <1>2 DEF ShapeInv

\* What the guard keeps is some of the trades, in order, each no larger than it was.
LEMMA GuardKeeps ==
  ASSUME ShapeInv, Guard
  PROVE  \E m \in Nat : \E f \in [1..m -> DOMAIN trades] :
           /\ trades' \in Seq(TradeType) /\ DOMAIN trades' = 1..m
           /\ \A i, j \in 1..m : i < j => f[i] < f[j]
           /\ \A i \in 1..m : /\ trades'[i].candidate = trades[f[i]].candidate
                              /\ trades'[i].fraction <= trades[f[i]].fraction
<1>1. PICK kept \in SUBSET DOMAIN trades :
        \E f \in Ordered({i \in kept : Fits(Shrunk(trades[i]))}) :
          trades' = [j \in DOMAIN f |-> Shrunk(trades[f[j]])]
  BY DEF Guard
<1> DEFINE I == {i \in kept : Fits(Shrunk(trades[i]))}
<1>2. PICK f \in Ordered(I) : trades' = [j \in DOMAIN f |-> Shrunk(trades[f[j]])]
  BY <1>1
<1>3. /\ trades \in Seq(TradeType) /\ Len(trades) \in Nat /\ DOMAIN trades = 1..Len(trades)
      /\ \A i \in DOMAIN trades : trades[i] \in TradeType /\ DecidedOn(trades[i].candidate)
  BY LenProperties, ElementOfSeq DEF ShapeInv, TypeOK, StageInv, Guard
<1>4. I \in SUBSET (1..Len(trades))
  BY <1>3
<1>5. \A i \in I : i \in DOMAIN trades
  OBVIOUS
<1> HIDE DEF I
<1>6. PICK m \in Nat : DOMAIN f = 1..m
  BY <1>3, <1>4, OrderedType
<1>7. \A i \in DOMAIN f : f[i] \in I
  BY <1>3, <1>4, OrderedType
<1>8. \A i, j \in DOMAIN f : i < j => f[i] < f[j]
  BY DEF Ordered
<1>9. f \in [1..m -> DOMAIN trades]
  <2>1. f \in [1..Cardinality(I) -> I]
    BY DEF Ordered
  <2>2. f \in [1..m -> I]
    BY <1>6, <2>1
  <2>3. QED BY <1>5, <2>2
<1>10. \A i \in 1..m :
         /\ trades'[i] \in TradeType
         /\ trades'[i].candidate = trades[f[i]].candidate
         /\ trades'[i].fraction <= trades[f[i]].fraction
  <2>1. ASSUME NEW i \in 1..m
        PROVE  /\ Shrunk(trades[f[i]]) \in TradeType
               /\ Shrunk(trades[f[i]]).candidate = trades[f[i]].candidate
               /\ Shrunk(trades[f[i]]).fraction <= trades[f[i]].fraction
    <3>1. trades[f[i]] \in TradeType /\ DecidedOn(trades[f[i]].candidate)
      BY <1>3, <1>5, <1>6, <1>7
    <3>2. QED BY <3>1, ShrunkType DEF ShapeInv, DecidedOn
  <2>2. \A i \in 1..m : trades'[i] = Shrunk(trades[f[i]])
    BY <1>2, <1>6
  <2>3. QED BY <2>1, <2>2
<1>11. trades' \in Seq(TradeType) /\ DOMAIN trades' = 1..m
  <2>1. trades' \in [1..m -> TradeType]
    <3>1. trades' = [i \in 1..m |-> trades'[i]]
      BY <1>2, <1>6
    <3>2. QED BY <1>10, <3>1
  <2>2. QED BY <2>1, SeqDef
<1>12. QED BY <1>6, <1>8, <1>9, <1>10, <1>11

LEMMA GuardShape == ASSUME ShapeInv, Guard PROVE ShapeInv'
<1>1. trades' \in Seq(TradeType)
  BY GuardKeeps
<1>2. TypeOK'
  BY <1>1 DEF Guard, ShapeInv, TypeOK
<1>3. StageInv'
  BY DEF Guard, StageInv
<1>4. QED BY <1>2, <1>3 DEF ShapeInv

\* What is staked is a whole number of millionths, and nothing without a Kelly share.
LEMMA StakeType ==
  ASSUME NEW a \in TradeType
  PROVE  /\ Stake(a) \in Nat
         /\ Stake(a) <= a.fraction * MaxBankrollFraction
         /\ Stake(a) > 0 => Kelly(a.candidate.fair, a.candidate.observed) > 0
<1> DEFINE k == Kelly(a.candidate.fair, a.candidate.observed)
           n == Lesser(k, MaxBankrollFraction)
<1>1. a.candidate.fair \in Int /\ a.candidate.observed \in Int /\ a.fraction \in Nat
  <2>1. a.candidate.fair \in Inside /\ a.candidate.observed \in 0..One /\ a.fraction \in 0..One
    BY DEF TradeType, Candidate
  <2>2. \A x : x \in Inside \/ x \in 0..One => x \in Int /\ x \in Nat
    BY DEF Inside, Tick, One
  <2>3. QED BY <2>1, <2>2
<1>2. k \in Nat
  BY <1>1, KellyType
<1> HIDE DEF k
<1>3. n \in Nat /\ n <= MaxBankrollFraction /\ (n > 0 => k > 0)
  BY <1>2, Parameters, Ranges DEF Lesser
<1>4. Stake(a) = Lesser(a.fraction * n, MaxMarketNotional * One)
  BY DEF Stake, n, k
<1> HIDE DEF n
<1>5. MaxMarketNotional * One \in Nat
  BY Parameters DEF One
<1>6. a.fraction * n \in Nat /\ a.fraction * n <= a.fraction * MaxBankrollFraction
  <2>1. \A x \in Nat, y \in Nat, z \in Nat : x * y \in Nat /\ (y <= z => x * y <= x * z)
    OBVIOUS
  <2>2. MaxBankrollFraction \in Nat
    BY Parameters, Ranges
  <2>3. QED BY <1>1, <1>3, <2>1, <2>2
<1>7. n = 0 => a.fraction * n = 0
  BY <1>1
<1>8. a.fraction * MaxBankrollFraction \in Nat
  <2>1. \A x \in Nat, y \in Nat : x * y \in Nat
    OBVIOUS
  <2>2. MaxBankrollFraction \in Nat
    BY Parameters, Ranges
  <2>3. QED BY <1>1, <2>1, <2>2
<1> DEFINE x == a.fraction * n
           y == MaxMarketNotional * One
           z == a.fraction * MaxBankrollFraction
<1>9. x \in Nat /\ y \in Nat /\ z \in Nat /\ x <= z /\ (n = 0 => x = 0) /\ Stake(a) = Lesser(x, y)
  BY <1>4, <1>5, <1>6, <1>7, <1>8
<1> HIDE DEF x, y
<1>10. Stake(a) \in Nat /\ Stake(a) <= z /\ (Stake(a) > 0 => k > 0)
  <2> HIDE DEF z
  <2>1. QED BY <1>3, <1>9 DEF Lesser
<1>11. QED BY <1>10 DEF k, z

\* What the checks of one order compare: numbers.
LEMMA CostingType ==
  ASSUME NEW a \in TradeType, NEW quantity \in Nat PROVE Costing(a, quantity) \in Nat
<1>1. a.candidate.observed \in 0..One
  BY DEF TradeType, Candidate
<1>2. Greater(a.candidate.observed, Tick) \in Nat
  <2>1. \A x \in 0..One : x \in Nat
    BY DEF One
  <2>2. a.candidate.observed \in Nat
    BY <1>1, <2>1
  <2>3. QED BY <2>2 DEF Greater, Tick
<1>3. \A x, y \in Nat : x * y \in Nat
  OBVIOUS
<1>4. QED BY <1>2, <1>3 DEF Costing

\* The IOC leg of a hybrid signal is a part of its stake, and fills a part of that.
LEMMA IocType ==
  ASSUME NEW a \in TradeType
  PROVE  /\ IocPart(a) \in Nat /\ IocPart(a) <= Stake(a)
         /\ \A fill \in IocFills(a) : fill \in Nat /\ fill <= IocPart(a)
<1> DEFINE share == (Stake(a) * HybridIocFraction) \div One
           least == Costing(a, MinQuantity)
           whole == Stake(a)
<1>1. whole \in Nat /\ least \in Nat
  BY StakeType, CostingType, Parameters
<1>2. share \in Nat
  BY <1>1, Fraction, Parameters
<1>3. IocPart(a) = Lesser(Greater(share, least), whole)
  BY DEF IocPart
<1> HIDE DEF share, least, whole
<1>4. IocPart(a) \in Nat /\ IocPart(a) <= whole
  BY <1>1, <1>2, <1>3 DEF Lesser, Greater
<1>5. ASSUME NEW fill \in IocFills(a) PROVE fill \in Nat /\ fill <= IocPart(a)
  <2>1. PICK part \in FillParts : fill = (IocPart(a) * part) \div One
    BY DEF IocFills
  <2>2. part \in 0..One
    BY Parameters
  <2>3. QED BY <1>4, <2>1, <2>2, Fraction
<1>6. QED BY <1>4, <1>5 DEF whole

\* What is sent for a trade: parts of its stake, each of which passes the checks.
SentFor(a, o) ==
  /\ o.stake \in Nat /\ o.stake <= Stake(a)
  /\ o.parts \in SUBSET Nat
  /\ \A part \in o.parts : part <= Stake(a) /\ OrderPasses(a, part)

LEMMA SentType ==
  ASSUME NEW a \in TradeType, Placeable(a),
         NEW sent \in IF setting.hybrid THEN HybridOrders(a) ELSE WholeOrder(a)
  PROVE  SentFor(a, sent)
<1>1. Stake(a) \in Nat
  BY StakeType
<1>2. CASE ~setting.hybrid
  <2>1. sent = [parts |-> {Stake(a)}, stake |-> Stake(a)]
    BY <1>2 DEF WholeOrder
  <2>2. OrderPasses(a, Stake(a))
    BY <1>2 DEF Placeable
  <2>3. sent.parts = {Stake(a)} /\ sent.stake = Stake(a)
    BY <2>1
  <2>4. Stake(a) <= Stake(a)
    BY <1>1
  <2>5. QED BY <1>1, <2>2, <2>3, <2>4 DEF SentFor
<1>3. CASE setting.hybrid
  <2>1. /\ IocPart(a) \in Nat /\ IocPart(a) <= Stake(a)
        /\ \A fill \in IocFills(a) : fill \in Nat /\ fill <= IocPart(a)
    BY IocType
  <2>2. OrderPasses(a, IocPart(a))
    BY <1>3 DEF Placeable
  <2>3. CASE \E fill \in IocFills(a) : sent = [parts |-> {IocPart(a)}, stake |-> fill]
    <3>1. PICK fill \in IocFills(a) : sent = [parts |-> {IocPart(a)}, stake |-> fill]
      BY <2>3
    <3>2. sent.parts = {IocPart(a)} /\ sent.stake = fill
      BY <3>1
    <3>3. fill \in Nat /\ fill <= Stake(a)
      BY <1>1, <2>1
    <3>4. QED BY <2>1, <2>2, <3>2, <3>3 DEF SentFor
  <2>4. CASE \E fill \in IocFills(a) :
               /\ OrderPasses(a, Stake(a) - fill)
               /\ sent = [parts |-> {IocPart(a), Stake(a) - fill}, stake |-> Stake(a)]
    <3>1. PICK fill \in IocFills(a) :
               /\ OrderPasses(a, Stake(a) - fill)
               /\ sent = [parts |-> {IocPart(a), Stake(a) - fill}, stake |-> Stake(a)]
      BY <2>4
    <3>2. sent.parts = {IocPart(a), Stake(a) - fill} /\ sent.stake = Stake(a)
      BY <3>1
    <3>3. Stake(a) - fill \in Nat /\ Stake(a) - fill <= Stake(a) /\ Stake(a) <= Stake(a)
      BY <1>1, <2>1
    <3>4. QED BY <1>1, <2>1, <2>2, <3>1, <3>2, <3>3 DEF SentFor
  <2>5. QED BY <1>3, <2>3, <2>4 DEF HybridOrders
<1>4. QED BY <1>2, <1>3

\* What an order is made of.
LEMMA OrderType ==
  ASSUME ShapeInv, PlaceNext
  PROVE  LET a == Head(trades) IN
         /\ a \in TradeType /\ stage = "execute" /\ trades # <<>> /\ Placeable(a)
         /\ \E o \in OrderRecord :
              /\ orders' = Append(orders, o)
              /\ o.candidate = a.candidate /\ o.limit = Limit(a.candidate) /\ SentFor(a, o)
<1> DEFINE a == Head(trades)
<1>1. stage = "execute" /\ trades # <<>> /\ Placeable(a)
  BY DEF PlaceNext
<1>2. a \in TradeType
  BY <1>1, TailType DEF ShapeInv, TypeOK
<1>3. PICK m \in Resolutions(a.candidate.ticker),
           sent \in IF setting.hybrid THEN HybridOrders(a) ELSE WholeOrder(a) :
        orders' = Append(orders, [market |-> IF m = Nil THEN a.candidate.ticker ELSE m,
                                  candidate |-> a.candidate, limit |-> Limit(a.candidate),
                                  parts |-> sent.parts, stake |-> sent.stake])
  BY DEF PlaceNext
<1>4. SentFor(a, sent)
  BY <1>1, <1>2, <1>3, SentType
<1> HIDE DEF a
<1>5. a.candidate \in Candidate /\ a.candidate.ticker \in Tickers /\ a.candidate.observed \in 0..One
  BY <1>2 DEF TradeType, Candidate
<1>6. m \in Tickers \cup {Nil}
  BY <1>3, <1>5, ResolutionType
<1> DEFINE market == IF m = Nil THEN a.candidate.ticker ELSE m
           o      == [market |-> market, candidate |-> a.candidate, limit |-> Limit(a.candidate),
                      parts |-> sent.parts, stake |-> sent.stake]
<1>7. market \in Tickers
  BY <1>5, <1>6
<1>8. Limit(a.candidate) \in Inside
  <2>1. \A x \in 0..One : x + Tick \in Int
    BY DEF One, Tick
  <2>2. a.candidate.observed + Tick \in Int
    BY <1>5, <2>1
  <2>3. QED BY <2>2, ClampInside DEF Limit
<1>9. orders' = Append(orders, o)
  BY <1>3
<1> HIDE DEF market
<1>10. /\ o \in OrderRecord /\ o.candidate = a.candidate /\ o.limit = Limit(a.candidate)
       /\ o.parts = sent.parts /\ o.stake = sent.stake
  BY <1>4, <1>5, <1>7, <1>8 DEF OrderRecord, SentFor
<1> HIDE DEF o
<1>11. SentFor(a, o)
  BY <1>4, <1>10 DEF SentFor
<1>12. QED BY <1>1, <1>2, <1>9, <1>10, <1>11 DEF a

LEMMA PlaceNextShape == ASSUME ShapeInv, PlaceNext PROVE ShapeInv'
<1>1. PICK o \in OrderRecord : orders' = Append(orders, o)
  BY OrderType
<1>2. orders \in Seq(OrderRecord)
  BY DEF ShapeInv, TypeOK, OrderRecord
<1>3. orders' \in Seq(OrderRecord)
  BY <1>1, <1>2, AppendType
<1>4. stage = "execute" /\ trades # <<>> /\ trades' = Tail(trades)
      /\ UNCHANGED <<setting, stage, candidates, forced, decisions, queue, left, seen>>
  BY DEF PlaceNext
<1>5. trades' \in Seq(TradeType)
  BY <1>4, TailType DEF ShapeInv, TypeOK
<1>6. TypeOK'
  BY <1>3, <1>4, <1>5 DEF ShapeInv, TypeOK, OrderRecord
<1>7. StageInv'
  BY <1>4 DEF StageInv
<1>8. QED BY <1>6, <1>7 DEF ShapeInv

LEMMA RefuseNextShape == ASSUME ShapeInv, RefuseNext PROVE ShapeInv'
<1>1. stage = "execute" /\ trades # <<>> /\ trades' = Tail(trades)
      /\ UNCHANGED <<setting, stage, candidates, forced, decisions, queue, left, seen, orders>>
  BY DEF RefuseNext
<1>2. trades' \in Seq(TradeType)
  BY <1>1, TailType DEF ShapeInv, TypeOK
<1>3. TypeOK'
  BY <1>1, <1>2 DEF ShapeInv, TypeOK
<1>4. StageInv'
  BY <1>1 DEF StageInv
<1>5. QED BY <1>3, <1>4 DEF ShapeInv

LEMMA InitShape == ASSUME Init PROVE ShapeInv
<1>1. MaxTotal \in 0..One
  BY Parameters
<1>2. decisions = NoDecisions /\ DOMAIN NoDecisions = {}
  BY DEF Init, NoDecisions
<1>3. DOMAIN decisions = {}
  BY <1>2
<1>4. DOMAIN decisions \subseteq Tickers \X Outcomes /\ \A k \in DOMAIN decisions : decisions[k] \in Decision
  BY <1>3
<1>5. TypeOK
  <2>1. /\ stage = "idle" /\ candidates = <<>> /\ forced = FALSE /\ queue = <<>>
        /\ left = MaxTotal /\ seen = {} /\ trades = <<>> /\ orders = <<>>
        /\ setting \in [policy : PolicyModes, models : BOOLEAN, hybrid : BOOLEAN]
    BY DEF Init
  <2>2. /\ candidates \in Seq(Candidate) /\ queue \in Seq(Candidate) /\ trades \in Seq(TradeType)
        /\ orders \in Seq(OrderRecord)
    BY <2>1
  <2>3. QED BY <1>1, <1>4, <2>1, <2>2 DEF TypeOK, OrderRecord
<1>6. StageInv
  BY DEF Init, StageInv
<1>7. QED BY <1>5, <1>6 DEF ShapeInv

LEMMA ShapeStep == ASSUME ShapeInv, [Next]_vars PROVE ShapeInv'
<1>1. CASE ChooseCandidates
  BY <1>1, ChooseCandidatesShape
<1>2. CASE DecideNext
  BY <1>2, DecideNextShape
<1>3. CASE PolicyUnavailable \/ CycleOver
  BY <1>3, EndCycleShape DEF PolicyUnavailable, CycleOver
<1>4. CASE StartAllocation
  BY <1>4, StartAllocationShape
<1>5. CASE BootstrapAllocation
  BY <1>5, BootstrapAllocationShape
<1>6. CASE SkipTakenEvent \/ SkipSmall
  BY <1>6, SkipShape
<1>7. CASE Allocate
  BY <1>7, AllocateShape
<1>8. CASE AllocationOver
  BY <1>8, AllocationOverShape
<1>9. CASE Guard
  BY <1>9, GuardShape
<1>10. CASE PlaceNext
  BY <1>10, PlaceNextShape
<1>11. CASE RefuseNext
  BY <1>11, RefuseNextShape
<1>12. CASE UNCHANGED vars
  BY <1>12 DEF vars, ShapeInv, TypeOK, StageInv, DecidedOn, Active
<1>13. QED
  BY <1>1, <1>2, <1>3, <1>4, <1>5, <1>6, <1>7, <1>8, <1>9, <1>10, <1>11, <1>12 DEF Next

LEMMA ShapeInvariant == Spec => []ShapeInv
BY InitShape, ShapeStep, PTL DEF Spec

\* The variables keep their types in every reachable state: a price stays between
\* zero and certainty, a fraction of the bankroll between zero and all of it, an
\* order's limit between one cent and 99, whatever Claude, the forecast and the
\* execution model make of a market.
THEOREM SizingTypeCorrect == Spec => []TypeOK
<1>1. ShapeInv => TypeOK
  BY DEF ShapeInv
<1>2. QED BY <1>1, ShapeInvariant, PTL

(***************************************************************************)
(* One order per event.  The names of the trades still to come and of the  *)
(* orders placed are all of different events, and while the allocator runs *)
(* it has noted the event of each trade.  So two orders of one event are   *)
(* not both on markets of their names' events.                             *)
(***************************************************************************)

EventAt(s, i)   == EventOf[s[i].candidate.ticker]
Distinct(s)     == \A i, j \in DOMAIN s : EventAt(s, i) = EventAt(s, j) => i = j
NoneShared(s, t) == \A i \in DOMAIN s, j \in DOMAIN t : EventAt(s, i) # EventAt(t, j)

MutexInv ==
  EnforceMutex =>
    /\ Distinct(trades) /\ Distinct(orders) /\ NoneShared(trades, orders)
    /\ stage = "allocate" => \A i \in DOMAIN trades : EventAt(trades, i) \in seen

\* Steps that leave trades and orders alone, and note no event less.
LEMMA MutexQuiet ==
  ASSUME ShapeInv, MutexInv, UNCHANGED <<trades, orders>>,
         stage' = "allocate" => trades = <<>> \/ (stage = "allocate" /\ seen \subseteq seen')
  PROVE  MutexInv'
BY DEF MutexInv, Distinct, NoneShared, EventAt

LEMMA MutexEndCycle == ASSUME EndCycle PROVE MutexInv'
BY DEF EndCycle, MutexInv, Distinct, NoneShared, EventAt

LEMMA MutexBootstrap == ASSUME ShapeInv, BootstrapAllocation PROVE MutexInv'
<1>1. orders' = <<>> /\ stage' = "guard"
  BY DEF BootstrapAllocation, ShapeInv, StageInv
<1>2. \A i, j \in DOMAIN trades' : i = j
  <2>1. trades' = <<>> \/ \E t : trades' = <<t>>
    BY DEF BootstrapAllocation
  <2>2. QED BY <2>1
<1>3. QED BY <1>1, <1>2 DEF MutexInv, Distinct, NoneShared

LEMMA MutexAllocate == ASSUME ShapeInv, MutexInv, Allocate PROVE MutexInv'
<1> DEFINE c == Head(queue)
           t == Trade(c, Scaled(c))
           n == Len(trades) + 1
<1>1. /\ stage = "allocate" /\ trades' = Append(trades, t) /\ c \in Candidate
      /\ ~EventTaken(c) /\ See(c) /\ orders' = orders /\ orders = <<>> /\ t.candidate = c
      /\ trades \in Seq(TradeType) /\ queue # <<>>
  BY QueueShape DEF Allocate, Allocating, ShapeInv, TypeOK, StageInv, Trade
<1> HIDE DEF c
<1>2. t \in TradeType
  <2>1. Scaled(c) \in 0..One
    BY <1>1, ShareType DEF ShapeInv, TypeOK
  <2>2. QED BY <1>1, <2>1 DEF Trade, TradeType
<1> HIDE DEF t
<1>3. /\ DOMAIN trades' = DOMAIN trades \cup {n} /\ n \notin DOMAIN trades
      /\ trades'[n] = t /\ \A i \in DOMAIN trades : trades'[i] = trades[i]
  <2>1. Len(trades) \in Nat
    BY <1>1, LenProperties
  <2>2. /\ DOMAIN trades = 1..Len(trades) /\ DOMAIN trades' = 1..(Len(trades) + 1)
        /\ \A i \in DOMAIN trades : trades'[i] = trades[i]
        /\ trades'[Len(trades) + 1] = t
    BY <1>1, <1>2, AppendType
  <2>3. QED BY <2>1, <2>2
<1> HIDE DEF n
<1>4. SUFFICES ASSUME EnforceMutex
               PROVE  /\ Distinct(trades') /\ orders' = <<>>
                      /\ \A i \in DOMAIN trades' : EventAt(trades', i) \in seen'
  BY <1>1 DEF MutexInv, Distinct, NoneShared, EventAt
<1>5. seen' = seen \cup {EventOf[c.ticker]} /\ EventOf[c.ticker] \notin seen
  BY <1>1, <1>4 DEF See, EventTaken
<1>6. Distinct(trades) /\ \A i \in DOMAIN trades : EventAt(trades, i) \in seen
  BY <1>1, <1>4 DEF MutexInv
<1>7. EventAt(trades', n) = EventOf[c.ticker] /\ \A i \in DOMAIN trades : EventAt(trades', i) = EventAt(trades, i)
  BY <1>1, <1>3 DEF EventAt
<1>8. QED BY <1>1, <1>3, <1>5, <1>6, <1>7 DEF Distinct

LEMMA MutexGuard == ASSUME ShapeInv, MutexInv, Guard PROVE MutexInv'
<1>1. PICK m \in Nat : \E f \in [1..m -> DOMAIN trades] :
           /\ trades' \in Seq(TradeType) /\ DOMAIN trades' = 1..m
           /\ \A i, j \in 1..m : i < j => f[i] < f[j]
           /\ \A i \in 1..m : /\ trades'[i].candidate = trades[f[i]].candidate
                              /\ trades'[i].fraction <= trades[f[i]].fraction
  BY GuardKeeps
<1>2. PICK f \in [1..m -> DOMAIN trades] :
           /\ DOMAIN trades' = 1..m
           /\ \A i, j \in 1..m : i < j => f[i] < f[j]
           /\ \A i \in 1..m : trades'[i].candidate = trades[f[i]].candidate
  BY <1>1
<1>3. \A i \in 1..m : f[i] \in DOMAIN trades /\ f[i] \in Nat
  <2>1. DOMAIN trades \subseteq Nat
    BY DEF ShapeInv, TypeOK
  <2>2. QED BY <2>1
<1>4. \A i, j \in 1..m : f[i] = f[j] => i = j
  <2>1. ASSUME NEW i \in 1..m, NEW j \in 1..m, f[i] = f[j] PROVE i = j
    BY <1>2, <1>3, <2>1
  <2>2. QED BY <2>1
<1>5. \A i \in 1..m : EventAt(trades', i) = EventAt(trades, f[i])
  BY <1>2 DEF EventAt
<1>6. orders' = <<>> /\ stage' = "execute"
  BY DEF Guard, ShapeInv, StageInv
<1>7. EnforceMutex => Distinct(trades')
  BY <1>2, <1>3, <1>4, <1>5 DEF MutexInv, Distinct
<1>8. QED BY <1>6, <1>7 DEF MutexInv, Distinct, NoneShared, EventAt

\* The engine takes the first of the trades.
LEMMA MutexRefuse ==
  ASSUME ShapeInv, MutexInv, stage = "execute", trades # <<>>
  PROVE  EnforceMutex => /\ Distinct(Tail(trades)) /\ NoneShared(Tail(trades), orders)
                         /\ \A i \in DOMAIN Tail(trades) : EventAt(Tail(trades), i) # EventAt(trades, 1)
<1>1. /\ 1 \in DOMAIN trades
      /\ \A i \in DOMAIN Tail(trades) : i \in Nat \ {0} /\ i + 1 \in DOMAIN trades /\ Tail(trades)[i] = trades[i + 1]
  <2>1. trades \in Seq(TradeType)
    BY DEF ShapeInv, TypeOK
  <2>2. /\ Tail(trades) \in Seq(TradeType) /\ 1 \in DOMAIN trades
        /\ \A i \in DOMAIN Tail(trades) : i + 1 \in DOMAIN trades /\ Tail(trades)[i] = trades[i + 1]
    BY <2>1, TailType
  <2>3. \A i \in DOMAIN Tail(trades) : i \in Nat \ {0}
    <3>1. DOMAIN Tail(trades) = 1..Len(Tail(trades)) /\ Len(Tail(trades)) \in Nat
      BY <2>2, LenProperties
    <3>2. QED BY <3>1
  <2>4. QED BY <2>2, <2>3
<1>2. \A i \in DOMAIN Tail(trades) : EventAt(Tail(trades), i) = EventAt(trades, i + 1)
  BY <1>1 DEF EventAt
<1>3. SUFFICES ASSUME EnforceMutex
               PROVE  /\ Distinct(Tail(trades)) /\ NoneShared(Tail(trades), orders)
                      /\ \A i \in DOMAIN Tail(trades) : EventAt(Tail(trades), i) # EventAt(trades, 1)
  OBVIOUS
<1>4. Distinct(trades) /\ NoneShared(trades, orders)
  BY <1>3 DEF MutexInv
<1>5. Distinct(Tail(trades))
  <2>1. ASSUME NEW i \in DOMAIN Tail(trades), NEW j \in DOMAIN Tail(trades),
               EventAt(Tail(trades), i) = EventAt(Tail(trades), j)
        PROVE  i = j
    <3>1. i + 1 = j + 1
      BY <1>1, <1>2, <1>4, <2>1 DEF Distinct
    <3>2. QED BY <1>1, <3>1
  <2>2. QED BY <2>1 DEF Distinct
<1>6. NoneShared(Tail(trades), orders)
  BY <1>1, <1>2, <1>4 DEF NoneShared
<1>7. \A i \in DOMAIN Tail(trades) : EventAt(Tail(trades), i) # EventAt(trades, 1)
  <2>1. ASSUME NEW i \in DOMAIN Tail(trades) PROVE EventAt(trades, i + 1) # EventAt(trades, 1)
    <3>1. i + 1 # 1 /\ i + 1 \in DOMAIN trades
      BY <1>1
    <3>2. QED BY <1>1, <1>4, <3>1 DEF Distinct
  <2>2. QED BY <1>2, <2>1
<1>8. QED BY <1>5, <1>6, <1>7

LEMMA MutexPlace == ASSUME ShapeInv, MutexInv, PlaceNext PROVE MutexInv'
<1> DEFINE n == Len(orders) + 1
<1>1. stage = "execute" /\ trades # <<>> /\ trades' = Tail(trades) /\ stage' = "execute"
  BY DEF PlaceNext
<1>2. PICK o \in OrderRecord : orders' = Append(orders, o) /\ o.candidate = Head(trades).candidate
  BY OrderType
<1>3. Head(trades) = trades[1]
  BY <1>1, TailType DEF ShapeInv, TypeOK
<1>4. /\ DOMAIN orders' = DOMAIN orders \cup {n} /\ n \notin DOMAIN orders
      /\ orders'[n] = o /\ \A i \in DOMAIN orders : orders'[i] = orders[i]
  <2>1. orders \in Seq(OrderRecord) /\ Len(orders) \in Nat
    BY LenProperties DEF ShapeInv, TypeOK, OrderRecord
  <2>2. /\ DOMAIN orders = 1..Len(orders) /\ DOMAIN orders' = 1..(Len(orders) + 1)
        /\ \A i \in DOMAIN orders : orders'[i] = orders[i]
        /\ orders'[Len(orders) + 1] = o
    BY <1>2, <2>1, AppendType
  <2>3. QED BY <2>1, <2>2
<1> HIDE DEF n
<1>5. EventAt(orders', n) = EventAt(trades, 1) /\ \A i \in DOMAIN orders : EventAt(orders', i) = EventAt(orders, i)
  BY <1>2, <1>3, <1>4 DEF EventAt
<1>6. SUFFICES ASSUME EnforceMutex
               PROVE  Distinct(Tail(trades)) /\ Distinct(orders') /\ NoneShared(Tail(trades), orders')
  BY <1>1 DEF MutexInv, Distinct, NoneShared, EventAt
<1>7. /\ Distinct(Tail(trades)) /\ NoneShared(Tail(trades), orders)
      /\ \A i \in DOMAIN Tail(trades) : EventAt(Tail(trades), i) # EventAt(trades, 1)
  BY <1>1, <1>6, MutexRefuse
<1>8. Distinct(orders) /\ \A j \in DOMAIN orders : EventAt(trades, 1) # EventAt(orders, j)
  <2>1. 1 \in DOMAIN trades
    BY <1>1, TailType DEF ShapeInv, TypeOK
  <2>2. QED BY <1>6, <2>1 DEF MutexInv, NoneShared
<1>9. Distinct(orders')
  BY <1>4, <1>5, <1>8 DEF Distinct
<1>10. NoneShared(Tail(trades), orders')
  BY <1>4, <1>5, <1>7 DEF NoneShared
<1>11. QED BY <1>7, <1>9, <1>10

LEMMA MutexStep == ASSUME ShapeInv, MutexInv, [Next]_vars PROVE MutexInv'
<1>1. CASE ChooseCandidates \/ DecideNext \/ AllocationOver \/ UNCHANGED vars
  BY <1>1, MutexQuiet DEF ChooseCandidates, DecideNext, AllocationOver, vars
<1>2. CASE StartAllocation
  BY <1>2, MutexQuiet DEF StartAllocation, ShapeInv, StageInv
<1>3. CASE SkipTakenEvent \/ SkipSmall
  BY <1>3, MutexQuiet DEF SkipTakenEvent, SkipSmall, Allocating, See
<1>4. CASE PolicyUnavailable \/ CycleOver
  BY <1>4, MutexEndCycle DEF PolicyUnavailable, CycleOver
<1>5. CASE BootstrapAllocation
  BY <1>5, MutexBootstrap
<1>6. CASE Allocate
  BY <1>6, MutexAllocate
<1>7. CASE Guard
  BY <1>7, MutexGuard
<1>8. CASE PlaceNext
  BY <1>8, MutexPlace
<1>9. CASE RefuseNext
  <2>1. /\ stage = "execute" /\ trades # <<>> /\ trades' = Tail(trades) /\ stage' = "execute"
        /\ orders' = orders
    BY <1>9 DEF RefuseNext
  <2>2. EnforceMutex => Distinct(Tail(trades)) /\ NoneShared(Tail(trades), orders) /\ Distinct(orders)
    BY <2>1, MutexRefuse DEF MutexInv
  <2>3. QED BY <2>1, <2>2 DEF MutexInv, Distinct, NoneShared, EventAt
<1>10. QED
  BY <1>1, <1>2, <1>3, <1>4, <1>5, <1>6, <1>7, <1>8, <1>9 DEF Next

\* A cycle never orders on two markets of one event, as long as the mapper takes
\* each name for a market of the name's own event: not when Claude valued a market
\* twice and the two valuations favour both outcomes, not when the policy repriced
\* and reordered them.  An alias or a title may lead elsewhere, and there the mutex,
\* which knows only names, promises nothing.
THEOREM OneMarketPerEvent == Spec => []OneOrderPerEvent
<1>1. Init => MutexInv
  BY DEF Init, MutexInv, Distinct, NoneShared
<1>2. ShapeInv /\ MutexInv /\ [Next]_vars => MutexInv'
  BY MutexStep
<1>3. MutexInv => OneOrderPerEvent
  BY DEF MutexInv, OneOrderPerEvent, OwnEvent, Distinct, EventAt
<1>4. QED BY <1>1, <1>2, <1>3, ShapeInvariant, PTL DEF Spec

(***************************************************************************)
(* What an order costs.                                                    *)
(***************************************************************************)

\* Kelly's fraction of a price that is not below what its side is worth is zero.
LEMMA KellyNeedsAnEdge ==
  ASSUME NEW fair \in Inside, NEW o \in 0..One, Kelly(fair, o) > 0 PROVE o < fair
<1> DEFINE gain == Greater(One - o, Tick)
           cost == Greater(o, Tick)
           net  == fair * gain - (One - fair) * cost
<1>1. fair \in Nat /\ 10 <= fair /\ fair <= 990 /\ o \in Nat /\ o <= 1000
  BY DEF Inside, Tick, One
<1>2. gain \in Nat \ {0} /\ cost \in Nat
  BY <1>1 DEF Greater, Tick, One
<1>3. Clamp(fair, Tick, One - Tick) = fair
  BY <1>1 DEF Clamp, Tick, One
<1>4. Kelly(fair, o) = Greater(0, net \div gain)
  BY <1>3 DEF Kelly
<1> HIDE DEF net
<1>5. net \div gain > 0
  BY <1>4 DEF Greater
<1>6. net > 0
  <2>1. net \in Int
    <3>1. \A x, y \in Int : x * y \in Int /\ x - y \in Int
      OBVIOUS
    <3>2. fair \in Int /\ gain \in Int /\ One - fair \in Int /\ cost \in Int
      BY <1>1, <1>2 DEF One
    <3>3. fair * gain \in Int /\ (One - fair) * cost \in Int
      BY <3>1, <3>2
    <3>4. QED BY <3>1, <3>3 DEF net
  <2>2. \A x \in Int, y \in Nat \ {0} : x \div y > 0 => x > 0
    OBVIOUS
  <2>3. QED BY <1>2, <1>5, <2>1, <2>2
<1>7. CASE o <= 10
  <2>1. cost = 10 /\ gain = 1000 - o
    BY <1>1, <1>7 DEF gain, cost, Greater, Tick, One
  <2>2. CASE o < 10
    BY <1>1, <2>2
  <2>3. CASE o = 10
    <3>1. net = fair * 990 - (1000 - fair) * 10
      BY <2>1, <2>3 DEF net, One
    <3>2. QED BY <1>1, <1>6, <2>3, <3>1
  <2>4. QED BY <1>1, <1>7, <2>2, <2>3
<1>8. CASE 10 < o /\ o <= 990
  <2>1. cost = o /\ gain = 1000 - o
    BY <1>1, <1>8 DEF gain, cost, Greater, Tick, One
  <2>2. net = fair * (1000 - o) - (1000 - fair) * o
    BY <2>1 DEF net, One
  <2>3. net = 1000 * fair - 1000 * o
    <3>1. \A x, y \in Nat : x * (1000 - y) - (1000 - x) * y = 1000 * x - 1000 * y
      OBVIOUS
    <3>2. QED BY <1>1, <2>2, <3>1
  <2>4. QED BY <1>1, <1>6, <2>3
<1>9. CASE 990 < o
  <2>1. cost = o /\ gain = 10
    BY <1>1, <1>9 DEF gain, cost, Greater, Tick, One
  <2>2. net = fair * 10 - (1000 - fair) * o
    BY <2>1 DEF net, One
  <2>3. (1000 - fair) * o >= 10 * o
    <3>1. \A x, y \in Nat : x >= 10 => x * y >= 10 * y
      OBVIOUS
    <3>2. 1000 - fair \in Nat /\ 1000 - fair >= 10
      BY <1>1
    <3>3. QED BY <1>1, <3>1, <3>2
  <2>4. (1000 - fair) * o \in Int
    <3>1. \A x, y \in Int : x * y \in Int
      OBVIOUS
    <3>2. QED BY <1>1, <3>1
  <2>5. QED BY <1>1, <1>6, <1>9, <2>2, <2>3, <2>4
<1>10. QED BY <1>1, <1>7, <1>8, <1>9

\* What an order is placed at and for: less than a cent above what its side is
\* worth, and in no part for the cap of compute_position_size.
Sound(o) ==
  /\ o.limit - o.candidate.fair < Tick
  /\ o.candidate.observed \in 1..(One - Tick - 1) =>
       \A part \in o.parts : part < MaxMarketNotional * One

OrdersSound == \A i \in DOMAIN orders : Sound(orders[i])

LEMMA PlacedSound ==
  ASSUME NEW a \in TradeType, Placeable(a), NEW order \in OrderRecord,
         order.candidate = a.candidate, order.limit = Limit(a.candidate), SentFor(a, order)
  PROVE  Sound(order)
<1> DEFINE fair  == a.candidate.fair
           o     == a.candidate.observed
           limit == Limit(a.candidate)
           y     == MaxMarketNotional * One
<1>1. fair \in Inside /\ o \in 0..One
  BY DEF TradeType, Candidate
<1>2. Stake(a) > 0
  BY DEF Placeable
<1>3. o < fair
  BY <1>1, <1>2, StakeType, KellyNeedsAnEdge
<1>4. limit = Clamp(o + Tick, Tick, One - Tick)
  BY DEF Limit
<1>5. y \in Nat
  BY Parameters DEF One
<1>6. Stake(a) \in Nat /\ Stake(a) <= y
  <2>1. Stake(a) \in Nat
    BY StakeType
  <2>2. Stake(a) <= y
    <3> DEFINE x == a.fraction * Lesser(Kelly(fair, o), MaxBankrollFraction)
    <3>1. Stake(a) = Lesser(x, y)
      BY DEF Stake
    <3> HIDE DEF x, y
    <3>2. QED BY <1>5, <2>1, <3>1 DEF Lesser
  <2>3. QED BY <2>1, <2>2
<1>7. fair \in Nat /\ o \in Nat /\ 10 <= fair /\ fair <= 990
  <2>1. \A x \in Inside : x \in Nat /\ 10 <= x /\ x <= 990
    BY DEF Inside, Tick, One
  <2>2. \A x \in 0..One : x \in Nat
    BY DEF One
  <2>3. QED BY <1>1, <2>1, <2>2
<1>8. limit - fair < Tick
  <2> HIDE DEF limit, fair, o
  <2>1. QED BY <1>3, <1>4, <1>7 DEF Clamp, Tick, One
<1>9. ASSUME o \in 1..(One - Tick - 1), NEW part \in order.parts PROVE part < y
  <2> DEFINE g == Greater(o, Tick)
  <2>1. part \in Nat /\ part <= Stake(a) /\ OrderPasses(a, part)
    BY DEF SentFor
  <2>2. part * limit <= y * g
    BY <2>1 DEF OrderPasses, WorthAtMost
  <2> HIDE DEF limit, fair, o, y
  <2>3. limit \in Nat /\ g \in Nat /\ g < limit
    BY <1>4, <1>7, <1>9 DEF Clamp, Greater, Tick, One
  <2>4. part <= y /\ 0 < y
    BY <1>2, <1>5, <1>6, <2>1
  <2> HIDE DEF g
  <2>5. \A x \in Nat, b \in Nat, c \in Nat : x > 0 /\ b < c => x * b < x * c
    OBVIOUS
  <2>6. part # y
    <3>1. SUFFICES ASSUME part = y PROVE FALSE
      OBVIOUS
    <3>2. y * g < y * limit
      BY <1>5, <2>3, <2>4, <2>5
    <3>3. y * g \in Nat /\ y * limit \in Nat
      <4>1. \A x, b \in Nat : x * b \in Nat
        OBVIOUS
      <4>2. QED BY <1>5, <2>3, <4>1
    <3>4. QED BY <2>2, <3>1, <3>2, <3>3
  <2>7. QED BY <1>5, <2>1, <2>4, <2>6
<1>10. order.limit = limit /\ order.candidate.fair = fair /\ order.candidate.observed = o
  OBVIOUS
<1> HIDE DEF limit, fair, o
<1>11. QED BY <1>8, <1>9, <1>10 DEF Sound, y

LEMMA OrdersSoundStep ==
  ASSUME ShapeInv, OrdersSound, [Next]_vars PROVE OrdersSound'
<1>1. CASE PlaceNext
  <2>1. PICK o \in OrderRecord : orders' = Append(orders, o) /\ Sound(o)
    BY <1>1, OrderType, PlacedSound
  <2>2. orders \in Seq(OrderRecord) /\ Len(orders) \in Nat
    BY LenProperties DEF ShapeInv, TypeOK, OrderRecord
  <2>3. /\ DOMAIN orders = 1..Len(orders) /\ DOMAIN orders' = 1..(Len(orders) + 1)
        /\ \A i \in DOMAIN orders : orders'[i] = orders[i]
        /\ orders'[Len(orders) + 1] = o
    BY <2>1, <2>2, AppendType
  <2>4. \A i \in DOMAIN orders' : i \in DOMAIN orders \/ i = Len(orders) + 1
    BY <2>2, <2>3
  <2>5. \A i \in DOMAIN orders' : orders'[i] = o \/ (i \in DOMAIN orders /\ orders'[i] = orders[i])
    BY <2>3, <2>4
  <2>6. QED BY <2>1, <2>5 DEF OrdersSound, Sound
<1>2. CASE ~PlaceNext
  <2>1. orders' = orders \/ orders' = <<>>
    BY <1>2 DEF Next, vars, ChooseCandidates, DecideNext, PolicyUnavailable, StartAllocation,
                BootstrapAllocation, SkipTakenEvent, SkipSmall, Allocate, AllocationOver,
                Guard, RefuseNext, CycleOver, EndCycle
  <2>2. QED BY <2>1 DEF OrdersSound, Sound
<1>3. QED BY <1>1, <1>2

LEMMA OrdersSoundInvariant == Spec => []OrdersSound
<1>1. Init => OrdersSound
  BY DEF Init, OrdersSound
<1>2. QED BY <1>1, OrdersSoundStep, ShapeInvariant, PTL DEF Spec

\* An order's limit is less than a cent above what its side is thought to be worth:
\* Kelly's fraction of a price that is not below that is zero, whatever price the
\* policy took from the quotes, and a cent is all the engine adds to it.
THEOREM LimitNearFair == Spec => []NeverOverpays
<1>1. OrdersSound => NeverOverpays
  BY DEF OrdersSound, Sound, NeverOverpays
<1>2. QED BY <1>1, OrdersSoundInvariant, PTL

\* No order asks for max_market_notional or more: the check on the cap prices an
\* order at its limit, which is above the price that the stake was made from.  A
\* stake that compute_position_size has capped is therefore placed only by the
\* hybrid policy, which divides it before the check.
THEOREM CapNeverPlaced == Spec => []OrdersBelowCap
<1>1. OrdersSound => OrdersBelowCap
  BY DEF OrdersSound, Sound, OrdersBelowCap
<1>2. QED BY <1>1, OrdersSoundInvariant, PTL

(***************************************************************************)
(* The budget of a cycle.  While the allocator runs, what it has given and *)
(* what is left are together no more than its share; then what the trades  *)
(* have is within the budget, and in the end what is staked, with what the *)
(* trades still to come may stake.                                         *)
(***************************************************************************)

Fractions(given) == [i \in DOMAIN given |-> given[i].fraction]
Budget           == Greater(MaxTotal, IF forced THEN Greater(MinFraction, Tick) ELSE 0)

BudgetInv ==
  /\ stage \in {"idle", "decide"} => left = MaxTotal
  /\ stage = "allocate" => Total(Fractions(trades)) + left <= MaxTotal
  /\ stage = "guard" => Total(Fractions(trades)) <= Budget
  /\ stage = "execute" =>
       Total(Stakes(orders)) + Total(Fractions(trades)) * MaxBankrollFraction
         <= Budget * MaxBankrollFraction

\* A trade's fraction is a number.
LEMMA FractionType ==
  ASSUME NEW a \in TradeType PROVE a.fraction \in Nat
<1>1. a.fraction \in 0..One
  BY DEF TradeType
<1>2. \A x \in 0..One : x \in Nat
  BY DEF One
<1>3. QED BY <1>1, <1>2

\* The fractions of trades, and the stakes of orders, are lists of numbers.
LEMMA FractionsType ==
  ASSUME NEW s \in Seq(TradeType)
  PROVE  /\ Fractions(s) \in Seq(Nat) /\ Len(Fractions(s)) = Len(s) /\ Len(s) \in Nat
         /\ \A i \in 1..Len(s) : Fractions(s)[i] = s[i].fraction /\ s[i].fraction \in Nat
<1>1. Len(s) \in Nat /\ DOMAIN s = 1..Len(s) /\ \A i \in 1..Len(s) : s[i] \in TradeType
  BY LenProperties, ElementOfSeq
<1>2. \A a \in TradeType : a.fraction \in Nat
  BY FractionType
<1>3. /\ Fractions(s) \in [1..Len(s) -> Nat]
      /\ \A i \in 1..Len(s) : Fractions(s)[i] = s[i].fraction /\ s[i].fraction \in Nat
  BY <1>1, <1>2 DEF Fractions
<1>4. QED BY <1>1, <1>3, SameLength

LEMMA StakesType ==
  ASSUME NEW s \in Seq(OrderRecord)
  PROVE  /\ Stakes(s) \in Seq(Nat) /\ Len(Stakes(s)) = Len(s) /\ Len(s) \in Nat
         /\ \A i \in 1..Len(s) : Stakes(s)[i] = s[i].stake
<1>1. Len(s) \in Nat /\ DOMAIN s = 1..Len(s) /\ \A i \in 1..Len(s) : s[i] \in OrderRecord
  BY LenProperties, ElementOfSeq
<1>2. \A o \in OrderRecord : o.stake \in Nat
  BY DEF OrderRecord
<1>3. /\ Stakes(s) \in [1..Len(s) -> Nat]
      /\ \A i \in 1..Len(s) : Stakes(s)[i] = s[i].stake
  BY <1>1, <1>2 DEF Stakes
<1>4. QED BY <1>1, <1>3, SameLength

\* The sums after a trade more, a trade less, an order more.
LEMMA FractionsAppend ==
  ASSUME NEW s \in Seq(TradeType), NEW t \in TradeType
  PROVE  Total(Fractions(Append(s, t))) = Total(Fractions(s)) + t.fraction
<1> DEFINE r == Append(s, t)
           x == Append(Fractions(s), t.fraction)
<1>1. t.fraction \in Nat
  BY FractionType
<1>2. /\ r \in Seq(TradeType) /\ Len(r) = Len(s) + 1
      /\ \A i \in 1..Len(s) : r[i] = s[i]
      /\ r[Len(s) + 1] = t
  BY AppendProperties
<1>3. /\ Fractions(s) \in Seq(Nat) /\ Len(Fractions(s)) = Len(s) /\ Len(s) \in Nat
      /\ \A i \in 1..Len(s) : Fractions(s)[i] = s[i].fraction
  BY FractionsType
<1>4. /\ x \in Seq(Nat) /\ Len(x) = Len(s) + 1
      /\ \A i \in 1..Len(s) : x[i] = s[i].fraction
      /\ x[Len(s) + 1] = t.fraction
  BY <1>1, <1>3, AppendProperties
<1>5. Total(x) = Total(Fractions(s)) + t.fraction
  BY <1>1, <1>3, TotalAppend
<1> HIDE DEF r, x
<1>6. /\ Fractions(r) \in Seq(Nat) /\ Len(Fractions(r)) = Len(s) + 1
      /\ \A i \in 1..(Len(s) + 1) : Fractions(r)[i] = r[i].fraction
  BY <1>2, FractionsType
<1>7. \A i \in 1..(Len(s) + 1) : i \in 1..Len(s) \/ i = Len(s) + 1
  BY <1>3
<1>8. \A i \in 1..(Len(s) + 1) : Fractions(r)[i] = x[i]
  BY <1>2, <1>4, <1>6, <1>7
<1>9. Fractions(r) = x
  BY <1>4, <1>6, <1>8, SameList
<1>10. QED BY <1>5, <1>9 DEF r

LEMMA StakesAppend ==
  ASSUME NEW s \in Seq(OrderRecord), NEW o \in OrderRecord
  PROVE  Total(Stakes(Append(s, o))) = Total(Stakes(s)) + o.stake
<1> DEFINE r == Append(s, o)
           x == Append(Stakes(s), o.stake)
<1>1. o.stake \in Nat
  BY DEF OrderRecord
<1>2. /\ r \in Seq(OrderRecord) /\ Len(r) = Len(s) + 1
      /\ \A i \in 1..Len(s) : r[i] = s[i]
      /\ r[Len(s) + 1] = o
  BY AppendProperties
<1>3. /\ Stakes(s) \in Seq(Nat) /\ Len(Stakes(s)) = Len(s) /\ Len(s) \in Nat
      /\ \A i \in 1..Len(s) : Stakes(s)[i] = s[i].stake
  BY StakesType
<1>4. /\ x \in Seq(Nat) /\ Len(x) = Len(s) + 1
      /\ \A i \in 1..Len(s) : x[i] = s[i].stake
      /\ x[Len(s) + 1] = o.stake
  BY <1>1, <1>3, AppendProperties
<1>5. Total(x) = Total(Stakes(s)) + o.stake
  BY <1>1, <1>3, TotalAppend
<1> HIDE DEF r, x
<1>6. /\ Stakes(r) \in Seq(Nat) /\ Len(Stakes(r)) = Len(s) + 1
      /\ \A i \in 1..(Len(s) + 1) : Stakes(r)[i] = r[i].stake
  BY <1>2, StakesType
<1>7. \A i \in 1..(Len(s) + 1) : i \in 1..Len(s) \/ i = Len(s) + 1
  BY <1>3
<1>8. \A i \in 1..(Len(s) + 1) : Stakes(r)[i] = x[i]
  BY <1>2, <1>4, <1>6, <1>7
<1>9. Stakes(r) = x
  BY <1>4, <1>6, <1>8, SameList
<1>10. QED BY <1>5, <1>9 DEF r

LEMMA FractionsTail ==
  ASSUME NEW s \in Seq(TradeType), s # <<>>
  PROVE  Total(Fractions(s)) = Head(s).fraction + Total(Fractions(Tail(s)))
<1> DEFINE x == Fractions(s)
           r == Tail(s)
<1>1. Len(s) \in Nat \ {0} /\ Head(s) = s[1]
  BY EmptySeq, LenProperties, HeadTailProperties
<1>2. /\ r \in Seq(TradeType) /\ Len(r) = Len(s) - 1
      /\ \A i \in 1..(Len(s) - 1) : r[i] = s[i + 1]
  BY HeadTailProperties
<1>3. /\ x \in Seq(Nat) /\ Len(x) = Len(s)
      /\ \A i \in 1..Len(s) : x[i] = s[i].fraction
  BY FractionsType
<1>4. /\ Fractions(r) \in Seq(Nat) /\ Len(Fractions(r)) = Len(s) - 1
      /\ \A i \in 1..(Len(s) - 1) : Fractions(r)[i] = r[i].fraction
  BY <1>2, FractionsType
<1> HIDE DEF x, r
<1>5. x # <<>>
  BY <1>1, <1>3, EmptySeq
<1>6. /\ Tail(x) \in Seq(Nat) /\ Len(Tail(x)) = Len(s) - 1
      /\ \A i \in 1..(Len(s) - 1) : Tail(x)[i] = x[i + 1]
  BY <1>3, <1>5, HeadTailProperties
<1>7. \A i \in 1..(Len(s) - 1) : i + 1 \in 1..Len(s)
  BY <1>1
<1>8. \A i \in 1..(Len(s) - 1) : Fractions(r)[i] = Tail(x)[i]
  BY <1>2, <1>3, <1>4, <1>6, <1>7
<1>9. Fractions(r) = Tail(x)
  BY <1>4, <1>6, <1>8, SameList
<1>10. Total(x) = x[1] + Total(Tail(x))
  BY <1>3, <1>5, TotalTail
<1>11. x[1] = Head(s).fraction
  <2>1. 1 \in 1..Len(s)
    BY <1>1
  <2>2. QED BY <1>1, <1>3, <2>1
<1>12. QED BY <1>9, <1>10, <1>11 DEF x, r

\* What the budget is counted with.
LEMMA BudgetType ==
  ASSUME TypeOK
  PROVE  /\ Total(Fractions(trades)) \in Nat /\ Total(Stakes(orders)) \in Nat
         /\ left \in Nat /\ MaxTotal \in Nat /\ MaxBankrollFraction \in Nat
         /\ Budget \in Nat /\ MaxTotal <= Budget
         /\ forced => Greater(MinFraction, Tick) <= Budget
<1>1. Total(Fractions(trades)) \in Nat /\ Total(Stakes(orders)) \in Nat
  BY FractionsType, StakesType, TotalType DEF TypeOK, OrderRecord
<1>2. left \in Nat /\ MaxTotal \in Nat /\ MaxBankrollFraction \in Nat /\ MinFraction \in Nat
  <2>1. left \in 0..One
    BY DEF TypeOK
  <2>2. QED BY <2>1, Parameters, Ranges
<1>3. /\ Budget \in Nat /\ MaxTotal <= Budget
      /\ forced => Greater(MinFraction, Tick) <= Budget
  BY <1>2, Ranges DEF Budget, Greater
<1>4. QED BY <1>1, <1>2, <1>3

\* Nothing is given or staked yet.
LEMMA NothingYet == Total(Fractions(<<>>)) = 0 /\ Total(Stakes(<<>>)) = 0
<1>1. Fractions(<<>>) = <<>> /\ Stakes(<<>>) = <<>>
  BY DEF Fractions, Stakes
<1>2. QED BY <1>1, TotalEmpty

LEMMA BudgetNew ==
  ASSUME left' = MaxTotal, stage' \in {"idle", "decide"} PROVE BudgetInv'
BY DEF BudgetInv

LEMMA BudgetQuiet ==
  ASSUME BudgetInv, UNCHANGED <<trades, orders, forced, stage, left>>
  PROVE  BudgetInv'
BY DEF BudgetInv, Budget

LEMMA BudgetStart == ASSUME ShapeInv, BudgetInv, StartAllocation PROVE BudgetInv'
<1>1. trades' = <<>> /\ left' = MaxTotal /\ stage' = "allocate"
  BY DEF StartAllocation, ShapeInv, StageInv, BudgetInv
<1>2. Total(Fractions(trades')) = 0
  BY <1>1, NothingYet
<1>3. MaxTotal \in Nat
  BY BudgetType DEF ShapeInv
<1>4. QED BY <1>1, <1>2, <1>3 DEF BudgetInv

LEMMA BudgetBootstrap == ASSUME ShapeInv, BootstrapAllocation PROVE BudgetInv'
<1> DEFINE f == Greater(MinFraction, Tick)
<1>1. stage' = "guard" /\ Budget' = Budget /\ forced
  BY DEF BootstrapAllocation, Budget
<1>2. Budget \in Nat /\ f <= Budget
  BY <1>1, BudgetType DEF ShapeInv
<1>3. CASE trades' = <<>>
  BY <1>1, <1>2, <1>3, NothingYet DEF BudgetInv
<1>4. CASE trades' # <<>>
  <2>1. PICK c \in Allowed : trades' = <<Trade(c, f)>>
    BY <1>4 DEF BootstrapAllocation
  <2>2. Trade(c, f) \in TradeType
    <3>1. <<Trade(c, f)>> \in Seq(TradeType)
      BY <2>1, BootstrapAllocationShape DEF ShapeInv, TypeOK
    <3>2. QED BY <3>1
  <2>3. Trade(c, f).fraction = f /\ f \in Nat
    BY Parameters, Ranges DEF Trade, Greater
  <2> DEFINE t == Trade(c, f)
  <2>4. trades' = Append(<<>>, t) /\ <<>> \in Seq(TradeType)
    BY <2>1
  <2> HIDE DEF t, f
  <2>5. Total(Fractions(trades')) = 0 + t.fraction
    BY <2>2, <2>4, FractionsAppend, NothingYet DEF t
  <2>6. Total(Fractions(trades')) = f
    BY <2>3, <2>5 DEF t
  <2>7. QED BY <1>1, <1>2, <2>6 DEF BudgetInv
<1>5. QED BY <1>3, <1>4

LEMMA BudgetAllocate == ASSUME ShapeInv, BudgetInv, Allocate PROVE BudgetInv'
<1> DEFINE c == Head(queue)
           f == Scaled(c)
           t == Trade(c, f)
<1>1. /\ stage = "allocate" /\ stage' = "allocate" /\ trades' = Append(trades, t)
      /\ left' = left - f /\ c \in Candidate /\ t.fraction = f /\ t.candidate = c
      /\ trades \in Seq(TradeType) /\ orders' = orders /\ forced' = forced
  BY QueueShape DEF Allocate, Allocating, Spend, ShapeInv, TypeOK, Trade
<1> HIDE DEF c
<1>2. f \in 0..One
  BY <1>1, ShareType DEF ShapeInv, TypeOK
<1>3. t \in TradeType /\ f \in Nat
  <2>1. t \in TradeType
    <3> HIDE DEF f
    <3>1. QED BY <1>1, <1>2 DEF Trade, TradeType
  <2>2. QED BY <1>1, <2>1, FractionType
<1> HIDE DEF f, t
<1>4. Total(Fractions(trades')) = Total(Fractions(trades)) + f
  BY <1>1, <1>3, FractionsAppend
<1>5. Total(Fractions(trades)) \in Nat /\ left \in Nat /\ MaxTotal \in Nat
  BY BudgetType DEF ShapeInv
<1>6. Total(Fractions(trades)) + left <= MaxTotal
  BY <1>1 DEF BudgetInv
<1>7. Total(Fractions(trades')) + left' <= MaxTotal
  BY <1>1, <1>3, <1>4, <1>5, <1>6
<1>8. QED BY <1>1, <1>7 DEF BudgetInv

LEMMA BudgetAllocated == ASSUME ShapeInv, BudgetInv, AllocationOver PROVE BudgetInv'
<1>1. stage = "allocate" /\ stage' = "guard" /\ UNCHANGED <<trades, orders, forced>>
  BY DEF AllocationOver
<1>2. Total(Fractions(trades)) \in Nat /\ left \in Nat /\ MaxTotal \in Nat /\ Budget \in Nat /\ MaxTotal <= Budget
  BY BudgetType DEF ShapeInv
<1>3. Total(Fractions(trades)) + left <= MaxTotal
  BY <1>1 DEF BudgetInv
<1>4. Budget' = Budget /\ Total(Fractions(trades)) <= Budget
  BY <1>1, <1>2, <1>3 DEF Budget
<1>5. QED BY <1>1, <1>4 DEF BudgetInv

LEMMA BudgetGuard == ASSUME ShapeInv, BudgetInv, Guard PROVE BudgetInv'
<1>1. PICK m \in Nat : \E f \in [1..m -> DOMAIN trades] :
           /\ trades' \in Seq(TradeType) /\ DOMAIN trades' = 1..m
           /\ \A i, j \in 1..m : i < j => f[i] < f[j]
           /\ \A i \in 1..m : /\ trades'[i].candidate = trades[f[i]].candidate
                              /\ trades'[i].fraction <= trades[f[i]].fraction
  BY GuardKeeps
<1>2. PICK f \in [1..m -> DOMAIN trades] :
           /\ trades' \in Seq(TradeType) /\ DOMAIN trades' = 1..m
           /\ \A i, j \in 1..m : i < j => f[i] < f[j]
           /\ \A i \in 1..m : trades'[i].fraction <= trades[f[i]].fraction
  BY <1>1
<1>3. trades \in Seq(TradeType)
  BY DEF ShapeInv, TypeOK
<1> DEFINE r == trades'
           x == Fractions(trades)
           y == Fractions(r)
<1>4. /\ x \in Seq(Nat) /\ Len(x) = Len(trades) /\ Len(trades) \in Nat
      /\ \A i \in 1..Len(trades) : x[i] = trades[i].fraction
  BY <1>3, FractionsType
<1>5. /\ y \in Seq(Nat) /\ Len(y) = Len(r)
      /\ \A i \in 1..Len(r) : y[i] = r[i].fraction
  BY <1>2, FractionsType
<1>6. DOMAIN trades = 1..Len(trades)
  BY <1>3, LenProperties
<1>7. Len(r) = m
  <2>1. r \in [1..m -> TradeType]
    <3>1. r = [i \in 1..m |-> r[i]] /\ \A i \in 1..m : r[i] \in TradeType
      BY <1>2, ElementOfSeq, LenProperties
    <3>2. QED BY <3>1
  <2>2. QED BY <2>1, SameLength
<1>8. f \in [1..Len(y) -> 1..Len(x)]
  BY <1>2, <1>4, <1>5, <1>6, <1>7
<1> HIDE DEF x, y
<1>9. /\ \A i, j \in 1..Len(y) : i < j => f[i] < f[j]
      /\ \A i \in 1..Len(y) : y[i] <= x[f[i]]
  BY <1>2, <1>4, <1>5, <1>7, <1>8
<1>10. Total(y) <= Total(x)
  BY <1>4, <1>5, <1>8, <1>9, TotalOfSome
<1>11. stage = "guard" /\ stage' = "execute" /\ orders' = <<>> /\ Budget' = Budget
  BY DEF Guard, ShapeInv, StageInv, Budget
<1>12. Total(Fractions(trades)) \in Nat /\ Total(y) \in Nat /\ Budget \in Nat /\ MaxBankrollFraction \in Nat
  BY <1>5, BudgetType, TotalType DEF ShapeInv
<1>13. Total(y) <= Budget
  <2>1. Total(x) <= Budget
    BY <1>11 DEF BudgetInv, x
  <2>2. QED BY <1>10, <1>12, <2>1 DEF x
<1>14. \A a, b, n \in Nat : a <= b => 0 + a * n <= b * n
  OBVIOUS
<1>15. 0 + Total(y) * MaxBankrollFraction <= Budget * MaxBankrollFraction
  BY <1>12, <1>13, <1>14
<1>16. QED BY <1>11, <1>15, NothingYet DEF BudgetInv, y

LEMMA BudgetPlace ==
  ASSUME ShapeInv, BudgetInv, PlaceNext \/ RefuseNext PROVE BudgetInv'
<1> DEFINE a == Head(trades)
           M == MaxBankrollFraction
           S == Total(Stakes(orders))
           F == Total(Fractions(trades))
           G == Total(Fractions(trades'))
<1>1. /\ stage = "execute" /\ stage' = "execute" /\ trades # <<>> /\ trades' = Tail(trades)
      /\ Budget' = Budget
  BY DEF PlaceNext, RefuseNext, Budget
<1>2. trades \in Seq(TradeType) /\ orders \in Seq(OrderRecord) /\ a \in TradeType
  BY <1>1, TailType DEF ShapeInv, TypeOK, OrderRecord
<1>3. F = a.fraction + G
  BY <1>1, <1>2, FractionsTail
<1>4. S + F * M <= Budget * M
  BY <1>1 DEF BudgetInv
<1>5. a.fraction \in Nat /\ Stake(a) \in Nat /\ Stake(a) <= a.fraction * M
  BY <1>2, FractionType, StakeType
<1>6. S \in Nat /\ F \in Nat /\ M \in Nat /\ Budget \in Nat
  BY BudgetType DEF ShapeInv
<1>7. G \in Nat
  <2>1. trades' \in Seq(TradeType)
    BY <1>1, <1>2, TailType
  <2>2. QED BY <2>1, FractionsType, TotalType
<1>8. \E s \in Nat : s <= Stake(a) /\ Total(Stakes(orders')) = S + s
  <2>1. CASE RefuseNext
    <3>1. orders' = orders
      BY <2>1 DEF RefuseNext
    <3>2. Total(Stakes(orders')) = S + 0 /\ 0 <= Stake(a)
      BY <1>5, <1>6, <3>1
    <3>3. QED BY <3>2
  <2>2. CASE PlaceNext
    <3>1. PICK o \in OrderRecord : orders' = Append(orders, o) /\ SentFor(a, o)
      BY <2>2, OrderType
    <3>2. o.stake \in Nat /\ o.stake <= Stake(a)
      BY <3>1 DEF SentFor
    <3>3. Total(Stakes(orders')) = S + o.stake
      BY <1>2, <3>1, StakesAppend
    <3>4. QED BY <3>2, <3>3
  <2>3. QED BY <2>1, <2>2
<1> DEFINE f == a.fraction
           N == Total(Stakes(orders'))
<1>9. N + G * M <= Budget * M
  <2> HIDE DEF S, F, G, M, N, f, a
  <2>1. \A u, v, w \in Nat : (u + v) * w = u * w + v * w /\ u * w \in Nat
    OBVIOUS
  <2>2. F * M = f * M + G * M /\ f * M \in Nat /\ G * M \in Nat /\ Budget * M \in Nat
    BY <1>3, <1>5, <1>6, <1>7, <2>1 DEF f
  <2>3. PICK s \in Nat : N = S + s /\ s <= f * M
    <3>1. PICK s \in Nat : s <= Stake(a) /\ N = S + s
      BY <1>8 DEF N
    <3>2. Stake(a) \in Nat /\ Stake(a) <= f * M
      BY <1>5 DEF f
    <3>3. s <= f * M
      BY <2>2, <3>1, <3>2
    <3>4. QED BY <3>1, <3>3
  <2>4. S + F * M <= Budget * M /\ S \in Nat
    BY <1>4, <1>6
  <2>5. QED BY <2>2, <2>3, <2>4
<1>10. QED BY <1>1, <1>9 DEF BudgetInv

LEMMA BudgetStep == ASSUME ShapeInv, BudgetInv, [Next]_vars PROVE BudgetInv'
<1>1. CASE ChooseCandidates
  BY <1>1, BudgetNew DEF ChooseCandidates, BudgetInv
<1>2. CASE PolicyUnavailable \/ CycleOver
  BY <1>2, BudgetNew DEF PolicyUnavailable, CycleOver, EndCycle
<1>3. CASE DecideNext \/ SkipTakenEvent \/ SkipSmall \/ UNCHANGED vars
  BY <1>3, BudgetQuiet DEF DecideNext, SkipTakenEvent, SkipSmall, vars
<1>4. CASE StartAllocation
  BY <1>4, BudgetStart
<1>5. CASE BootstrapAllocation
  BY <1>5, BudgetBootstrap
<1>6. CASE Allocate
  BY <1>6, BudgetAllocate
<1>7. CASE AllocationOver
  BY <1>7, BudgetAllocated
<1>8. CASE Guard
  BY <1>8, BudgetGuard
<1>9. CASE PlaceNext \/ RefuseNext
  BY <1>9, BudgetPlace
<1>10. QED
  BY <1>1, <1>2, <1>3, <1>4, <1>5, <1>6, <1>7, <1>8, <1>9 DEF Next

\* What a cycle stakes is at most the allocator's share for a cycle (the bootstrap
\* trade's, if that is greater), times the engine's share for a trade: whichever
\* trades the guards let through, however the policy shrinks them, and however the
\* engine rounds and caps each.
THEOREM StakeStaysCapped == Spec => []CycleStakeCapped
<1>1. Init => BudgetInv
  BY DEF Init, BudgetInv
<1>2. ShapeInv /\ BudgetInv /\ [Next]_vars => BudgetInv'
  BY BudgetStep
<1>3. ShapeInv /\ BudgetInv => CycleStakeCapped
  <2>1. SUFFICES ASSUME ShapeInv, BudgetInv
                 PROVE  Total(Stakes(orders)) <= Budget * MaxBankrollFraction
    BY DEF CycleStakeCapped, Budget
  <2>2. /\ Total(Fractions(trades)) \in Nat /\ Total(Stakes(orders)) \in Nat
        /\ MaxBankrollFraction \in Nat /\ Budget \in Nat
    BY <2>1, BudgetType DEF ShapeInv
  <2>3. \A x, y \in Nat : x * y \in Nat
    OBVIOUS
  <2>4. CASE stage = "execute"
    <3>1. Total(Stakes(orders)) + Total(Fractions(trades)) * MaxBankrollFraction
            <= Budget * MaxBankrollFraction
      BY <2>1, <2>4 DEF BudgetInv
    <3>2. Total(Fractions(trades)) * MaxBankrollFraction \in Nat /\ Budget * MaxBankrollFraction \in Nat
      BY <2>2, <2>3
    <3>3. QED BY <2>2, <3>1, <3>2
  <2>5. CASE stage # "execute"
    <3>1. Total(Stakes(orders)) = 0
      BY <2>1, <2>5, NothingYet DEF ShapeInv, StageInv
    <3>2. QED BY <2>2, <2>3, <3>1
  <2>6. QED BY <2>4, <2>5
<1>4. QED BY <1>1, <1>2, <1>3, ShapeInvariant, PTL DEF Spec
==============================================================================
