-------------------------- MODULE TradingCycleProofs --------------------------
(***************************************************************************)
(* Proofs about the trading cycle, for every trigger mode, cache expiry,   *)
(* batch size, set of markets and number of retries.                       *)
(***************************************************************************)
EXTENDS TradingCycle, FiniteSetTheorems, TLAPS

(***************************************************************************)
(* Finite sets.  A set of valuations is finite as its markets are, which   *)
(* matters where the candidates are counted.                               *)
(***************************************************************************)

\* The values of a function on a finite set.
LEMMA ImageFinite ==
  ASSUME NEW S, IsFiniteSet(S), NEW f, DOMAIN f = S
  PROVE  IsFiniteSet({f[x] : x \in S})
<1> DEFINE T == {f[x] : x \in S}
<1> DEFINE g == [x \in S |-> f[x]]
<1>1. g \in [S -> T] /\ \A y \in T : \E x \in S : g[x] = y
  OBVIOUS
<1> HIDE DEF T, g
<1>2. g \in Surjection(S, T)
  BY <1>1 DEF Surjection
<1>3. IsFiniteSet(T)
  BY <1>2, FS_Surjection
<1>4. QED BY <1>3 DEF T

\* A set that has no two elements.
LEMMA AtMostOneFinite ==
  ASSUME NEW S, \A v, w \in S : v = w PROVE IsFiniteSet(S)
<1>1. CASE S = {}
  BY <1>1, FS_EmptySet
<1>2. CASE S # {}
  <2>1. PICK v \in S : TRUE
    BY <1>2
  <2>2. S = {v}
    BY <2>1
  <2>3. QED BY <2>2, FS_Singleton
<1>3. QED BY <1>1, <1>2

\* A finite set has subsets of every smaller size.
LEMMA SubsetOfSize ==
  ASSUME NEW S, IsFiniteSet(S), NEW n \in 0..Cardinality(S)
  PROVE  \E T \in SUBSET S : Cardinality(T) = n
<1> DEFINE m == Cardinality(S)
<1>1. m \in Nat /\ ExistsBijection(1..m, S)
  BY FS_CardinalityType
<1>2. PICK f \in Bijection(1..m, S) : TRUE
  BY <1>1 DEF ExistsBijection
<1>3. f \in [1..m -> S] /\ \A i, j \in 1..m : f[i] = f[j] => i = j
  BY <1>2 DEF Bijection, Injection, IsInjective
<1>4. n \in Nat /\ 1..n \subseteq 1..m
  BY <1>1
<1> HIDE DEF m
<1> DEFINE T == {f[i] : i \in 1..n}
<1> DEFINE g == [i \in 1..n |-> f[i]]
<1>5. /\ g \in [1..n -> T] /\ \A y \in T : \E i \in 1..n : g[i] = y
      /\ \A i, j \in 1..n : g[i] = g[j] => i = j
  BY <1>3, <1>4
<1>6. T \in SUBSET S
  BY <1>3, <1>4
<1> HIDE DEF T, g
<1>7. g \in Bijection(1..n, T)
  BY <1>5 DEF Bijection, Injection, Surjection, IsInjective
<1>8. Cardinality(T) = n
  BY <1>4, <1>7, FS_CountingElements DEF ExistsBijection
<1>9. QED BY <1>6, <1>8

LEMMA EdgesFinite == IsFiniteSet(Edges)
<1>1. IsFiniteSet({"strict"} \cup {"relaxed"})
  BY FS_Singleton, FS_Union
<1>2. IsFiniteSet(({"strict"} \cup {"relaxed"}) \cup {"none"})
  BY <1>1, FS_Singleton, FS_Union
<1>3. Edges = ({"strict"} \cup {"relaxed"}) \cup {"none"}
  BY DEF Edges
<1>4. QED BY <1>2, <1>3

(***************************************************************************)
(* The candidates.                                                         *)
(***************************************************************************)

\* A valuation that is no candidate: neither strict nor, where relaxed ones may
\* become candidates, relaxed.
Dull(v) == v.edge # "strict" /\ (MinCandidates = 0 \/ v.edge = "none")

\* A candidate is one of the valuations, and it is not dull.
LEMMA CandidateNotDull ==
  ASSUME NEW vs, IsFiniteSet(vs), NEW C \in CandidatesOf(vs), NEW v \in C
  PROVE  v \in vs /\ ~Dull(v)
<1> DEFINE strict == {w \in vs : w.edge = "strict"}
<1> DEFINE both == {w \in vs : w.edge # "none"}
<1>1. IsFiniteSet(strict) /\ Cardinality(strict) \in Nat
  BY FS_Subset, FS_CardinalityType
<1>2. CASE Cardinality(strict) >= MinCandidates
  <2>1. CandidatesOf(vs) = {strict}
    BY <1>2 DEF CandidatesOf
  <2>2. QED BY <2>1 DEF Dull
<1>3. CASE ~(Cardinality(strict) >= MinCandidates)
  <2>1. MinCandidates # 0
    BY <1>1, <1>3, CycleAssumption
  <2>2. \E D \in SUBSET both : C \in kSubset(Least(MinCandidates, Cardinality(D)), D)
    BY <1>3 DEF CandidatesOf
  <2>3. v \in both
    BY <2>2 DEF kSubset
  <2>4. QED BY <2>1, <2>3 DEF Dull
<1>4. QED BY <1>2, <1>3

\* Where there is no candidate, all valuations are dull.
LEMMA NoCandidateAllDull ==
  ASSUME NEW vs, IsFiniteSet(vs), CandidatesOf(vs) = {{}}, NEW v \in vs
  PROVE  Dull(v)
<1> DEFINE strict == {w \in vs : w.edge = "strict"}
<1> DEFINE both == {w \in vs : w.edge # "none"}
<1> DEFINE apart == {w \in both : \A s \in strict : w = s \/ w.ticker # s.ticker}
<1>1. IsFiniteSet(both) /\ Cardinality(both) \in Nat
  BY FS_Subset, FS_CardinalityType
<1>2. CASE Cardinality(strict) >= MinCandidates
  <2>1. strict = {}
    BY <1>2 DEF CandidatesOf
  <2>2. MinCandidates = 0
    <3> HIDE DEF strict
    <3>1. Cardinality(strict) = 0
      BY <2>1, FS_EmptySet
    <3>2. QED BY <1>2, <3>1, CycleAssumption
  <2>3. QED BY <2>1, <2>2 DEF Dull
<1>3. CASE ~(Cardinality(strict) >= MinCandidates)
  <2> DEFINE n == Least(MinCandidates, Cardinality(both))
  <2>1. n \in 0..Cardinality(both) /\ (n = 0 => MinCandidates = 0 \/ Cardinality(both) = 0)
    BY <1>1, CycleAssumption DEF Least
  <2>2. strict \cup apart \subseteq both
    OBVIOUS
  <2>3. kSubset(n, both) \subseteq CandidatesOf(vs)
    BY <1>3, <2>2 DEF CandidatesOf
  <2>4. PICK S \in SUBSET both : Cardinality(S) = n
    BY <1>1, <2>1, SubsetOfSize
  <2>5. S = {}
    BY <2>3, <2>4 DEF kSubset
  <2>6. n = 0
    BY <2>4, <2>5, FS_EmptySet
  <2>7. MinCandidates # 0
    <3>1. Cardinality(strict) \in Nat
      BY FS_Subset, FS_CardinalityType
    <3>2. QED BY <1>3, <3>1, CycleAssumption
  <2>8. both = {}
    BY <1>1, <2>1, <2>6, <2>7, FS_EmptySet
  <2>9. QED BY <2>8 DEF Dull
<1>4. QED BY <1>2, <1>3

(***************************************************************************)
(* The invariant.                                                          *)
(***************************************************************************)
Types == TypeOK /\ cache \in [Keys -> SUBSET Valuation] /\ started <= now

\* Between cycles there is no valuation; a screening pass is one of the heuristic.
Stages ==
  /\ IsFiniteSet(valued)
  /\ stage = "idle" => valued = {}
  /\ stage # "decide" => candidates = {}
  /\ stage = "screen" => TriggerMode = "on_heuristic_candidates" /\ ~useClaude

\* Valuations for the quotes of the cycle, not expired when it began.
CurrentOf(vs) ==
  \A v \in vs : /\ v.ticker \in DOMAIN inputs
                 /\ v.quote.mid = inputs[v.ticker].mid
                 /\ started <= v.at + CacheTtl

Current == CurrentOf(valued) /\ CurrentOf(candidates) /\ CurrentOf(traded)

\* What the cache holds.  A heuristic valuation of this cycle got there in the
\* pass that the summary is about.
CacheSound ==
  \A k \in Keys : \A v \in cache[k] :
    /\ v.source # "screening" /\ v.cycle <= cycle
    /\ stage = "screen" => v.cycle < cycle
    /\ stage # "idle" /\ v.source \in Heuristics /\ v.cycle = cycle => summary.heuristic

\* A heuristic valuation of this cycle leaves its mark in the summary.
HeuristicsRecorded ==
  \A v \in valued \cup candidates :
    v.source \in Heuristics => v.cycle < cycle \/ summary.heuristic

\* The cycle goes on with what its screening pass valued, Claude was not asked.
Unasked ==
  stage \in {"value", "decide"} /\ TriggerMode = "on_heuristic_candidates" /\ ~useClaude

Unscreened ==
  stage \in {"value", "decide"} /\ ~Unasked =>
    \A v \in valued \cup candidates : v.source # "screening"

\* Then no pass goes on, and only an override can make a candidate.
UnaskedDull ==
  /\ Unasked /\ stage = "value" => todo = {} /\ batch = {} /\ \A v \in valued : Dull(v)
  /\ Unasked /\ stage = "decide" => \A v \in candidates : v.source \notin Heuristics

CycleInv ==
  /\ Types /\ Stages /\ Current /\ CacheSound /\ HeuristicsRecorded
  /\ Unscreened /\ UnaskedDull
  /\ OwnHeuristicsNotTraded

LEMMA HeuristicsDef == Heuristics = {"screening", "disabled", "fallback"}
BY DEF Heuristics

LEMMA InitInv == ASSUME Init PROVE CycleInv
<1>1. Types
  <2>1. CacheTtl \in Nat /\ MaxRetries \in Nat
    BY CycleAssumption
  <2>2. DOMAIN inputs = {}
    BY DEF Init
  <2>3. cache \in [Keys -> SUBSET Valuation] /\ \A k \in Keys : cache[k] = {}
    BY DEF Init, EmptyCache
  <2>4. /\ now = 0 /\ started = 0 /\ cycle = 0 /\ attempt = 0 /\ stage = "idle"
        /\ todo = {} /\ batch = {} /\ useClaude = FALSE
        /\ valued = {} /\ candidates = {} /\ traded = {}
    BY DEF Init
  <2>5. summary \in [claude : BOOLEAN, heuristic : BOOLEAN]
    BY DEF Init, NoSummary
  <2>6. useClaude \in BOOLEAN
    BY <2>4
  <2>7. now \in Nat /\ started \in Nat /\ cycle \in Nat /\ started <= now
    BY <2>4
  <2>8. attempt \in 0..MaxRetries
    BY <2>1, <2>4
  <2>9. DOMAIN inputs \subseteq Tickers /\ \A t \in DOMAIN inputs : inputs[t] \in Quotes
    BY <2>2
  <2>10. \A k \in Keys : \A v, w \in cache[k] :
           v \in Valuation /\ <<v.ticker, v.quote.mid>> = k /\ v = w
    BY <2>3
  <2>11. QED BY <2>3, <2>4, <2>5, <2>6, <2>7, <2>8, <2>9, <2>10 DEF Types, TypeOK
<1>2. Stages
  BY FS_EmptySet DEF Init, Stages
<1>3. CacheSound
  BY DEF Init, CacheSound, EmptyCache
<1>4. QED
  BY <1>1, <1>2, <1>3 DEF Init, CycleInv, Current, CurrentOf, HeuristicsRecorded, Unasked,
     Unscreened, UnaskedDull, OwnHeuristicsNotTraded

\* The end of a cycle, with trades that may be traded.
LEMMA EndKeeps ==
  ASSUME CycleInv, NEW s, NEW T \in SUBSET candidates, EndCycle(s, T),
         UNCHANGED <<now, started, cycle, cache, inputs, pass, summary>>,
         LiveOnClaudeOnly => \A v \in T :
           v.source # "screening" /\ (v.source \in Heuristics => v.cycle < cycle)
  PROVE  CycleInv'
<1>1. /\ stage' = "idle" /\ traded' = T /\ candidates' = {} /\ valued' = {}
      /\ UNCHANGED <<now, started, cycle, cache, inputs, useClaude, todo, batch, attempt, summary>>
  BY DEF EndCycle, pass
<1>2. Types'
  BY <1>1 DEF CycleInv, Types, TypeOK
<1>3. Stages'
  BY <1>1, FS_EmptySet DEF Stages
<1>4. Current'
  BY <1>1 DEF CycleInv, Current, CurrentOf
<1>5. CacheSound'
  BY <1>1 DEF CycleInv, CacheSound
<1>6. HeuristicsRecorded' /\ Unscreened' /\ UnaskedDull'
  BY <1>1 DEF HeuristicsRecorded, Unscreened, UnaskedDull, Unasked
<1>7. OwnHeuristicsNotTraded'
  BY <1>1 DEF OwnHeuristicsNotTraded, LiveOnClaudeOnly
<1>8. QED BY <1>1, <1>2, <1>3, <1>4, <1>5, <1>6, <1>7 DEF CycleInv

LEMMA DecideKeeps == ASSUME CycleInv, NoCandidates \/ FailClosed \/ Trade PROVE CycleInv'
<1>1. CASE NoCandidates
  BY <1>1, EndKeeps DEF NoCandidates
<1>2. CASE FailClosed
  BY <1>2, EndKeeps DEF FailClosed
<1>3. CASE Trade
  <2>1. PICK T \in SUBSET candidates :
          EndCycle(IF T = {} THEN "no_allocations" ELSE "completed", T)
    BY <1>3 DEF Trade
  <2>2. stage = "decide" /\ ~FailsClosed
    BY <1>3 DEF Trade
  <2>3. ASSUME LiveOnClaudeOnly, NEW v \in candidates
        PROVE  v.source # "screening" /\ (v.source \in Heuristics => v.cycle < cycle)
    <3>1. CASE Unasked
      BY <2>2, <3>1 DEF CycleInv, UnaskedDull, Heuristics
    <3>2. CASE ~Unasked
      <4>1. v.source # "screening"
        BY <2>2, <3>2 DEF CycleInv, Unscreened
      <4>2. ~summary.heuristic
        BY <2>2, <2>3, <3>2 DEF FailsClosed, LiveOnClaudeOnly, Unasked
      <4>3. QED BY <4>1, <4>2 DEF CycleInv, HeuristicsRecorded
    <3>3. QED BY <3>1, <3>2
  <2>4. QED BY <1>3, <2>1, <2>3, EndKeeps DEF Trade
<1>4. QED BY <1>1, <1>2, <1>3

\* A cycle begins: what the cache holds is of earlier cycles.
LEMMA BeginKeeps == ASSUME CycleInv, BeginCycle PROVE CycleInv'
<1>1. /\ stage = "idle" /\ cycle' = cycle + 1 /\ started' = now
      /\ stage' \in {"screen", "value"} /\ (stage' = "screen" <=> TriggerMode = "on_heuristic_candidates")
      /\ valued' = {} /\ traded' = {} /\ batch' = {} /\ attempt' = 0
      /\ todo' = DOMAIN inputs' /\ summary' = NoSummary
      /\ UNCHANGED <<now, cache, candidates>>
  BY DEF BeginCycle, NewCycle, StartPass
<1>2. useClaude' \in BOOLEAN /\ (stage' = "screen" => ~useClaude')
  <2>1. ClaudeThisCycle(cycle) \in BOOLEAN
    BY DEF ClaudeThisCycle
  <2>2. useClaude' = CASE TriggerMode = "cadence" -> ClaudeThisCycle(cycle)
                       [] TriggerMode = "on_viable_markets" -> TRUE
                       [] OTHER -> FALSE
    BY DEF BeginCycle, StartPass
  <2>3. QED BY <1>1, <2>1, <2>2
<1>3. /\ DOMAIN inputs' \subseteq Tickers
      /\ \A t \in DOMAIN inputs' : inputs'[t] \in Quotes
  <2>1. PICK S \in SUBSET Tickers \ {{}} : inputs' \in [S -> Quotes]
    BY DEF BeginCycle
  <2>2. QED BY <2>1
<1>4. cycle \in Nat /\ now \in Nat /\ candidates = {}
  BY <1>1 DEF CycleInv, Types, TypeOK, Stages
<1>5. Types'
  BY <1>1, <1>2, <1>3, <1>4, CycleAssumption DEF CycleInv, Types, TypeOK, NoSummary
<1>6. Stages'
  BY <1>1, <1>2, <1>4, FS_EmptySet DEF Stages
<1>7. CacheSound'
  <2>1. SUFFICES ASSUME NEW k \in Keys, NEW v \in cache[k]
                 PROVE  v.source # "screening" /\ v.cycle < cycle + 1 /\ v.cycle <= cycle + 1
    BY <1>1, <1>4 DEF CacheSound
  <2>2. v.source # "screening" /\ v.cycle <= cycle /\ v.cycle \in Nat
    BY DEF CycleInv, CacheSound, Types, Valuation
  <2>3. QED BY <1>4, <2>2
<1>8. Current' /\ HeuristicsRecorded' /\ Unscreened' /\ UnaskedDull' /\ OwnHeuristicsNotTraded'
  BY <1>1, <1>2, <1>4 DEF Current, CurrentOf, HeuristicsRecorded, Unscreened, UnaskedDull,
     Unasked, OwnHeuristicsNotTraded
<1>9. QED BY <1>1, <1>4, <1>5, <1>6, <1>7, <1>8 DEF CycleInv

LEMMA NoMarketsKeeps == ASSUME CycleInv, CycleWithoutMarkets PROVE CycleInv'
<1>1. /\ stage = "idle" /\ stage' = "idle" /\ cycle' = cycle + 1 /\ started' = now
      /\ valued' = {} /\ traded' = {} /\ candidates' = {}
      /\ UNCHANGED <<now, cache, inputs, useClaude, todo, batch, attempt, summary>>
  BY DEF CycleWithoutMarkets, NewCycle, EndCycle, pass
<1>2. cycle \in Nat /\ now \in Nat
  BY DEF CycleInv, Types, TypeOK
<1>3. Types'
  BY <1>1, <1>2 DEF CycleInv, Types, TypeOK
<1>4. Stages'
  BY <1>1, FS_EmptySet DEF Stages
<1>5. CacheSound'
  <2>1. SUFFICES ASSUME NEW k \in Keys, NEW v \in cache[k]
                 PROVE  v.source # "screening" /\ v.cycle <= cycle + 1
    BY <1>1 DEF CacheSound
  <2>2. v.source # "screening" /\ v.cycle <= cycle /\ v.cycle \in Nat
    BY DEF CycleInv, CacheSound, Types, Valuation
  <2>3. QED BY <1>2, <2>2
<1>6. QED
  BY <1>1, <1>3, <1>4, <1>5 DEF CycleInv, Current, CurrentOf, HeuristicsRecorded,
     Unscreened, UnaskedDull, Unasked, OwnHeuristicsNotTraded

\* The next chunk is looked up: what the cache gives is current and recorded.
LEMMA ChunkKeeps == ASSUME CycleInv, NextChunk PROVE CycleInv'
<1>1. PICK B \in SUBSET todo :
        /\ todo' = todo \ B /\ batch' = {t \in B : GetCached(t) = {}}
        /\ valued' = valued \cup UNION {GetCached(t) : t \in B}
  BY DEF NextChunk
<1>2. /\ stage \in {"screen", "value"} /\ todo # {} /\ attempt' = 0
      /\ UNCHANGED <<now, started, cycle, cache, stage, inputs, useClaude, summary,
                     candidates, traded>>
  BY DEF NextChunk, InPass, result
<1> DEFINE new == UNION {GetCached(t) : t \in B}
<1>3. B \subseteq DOMAIN inputs /\ DOMAIN inputs \subseteq Tickers
  BY DEF CycleInv, Types, TypeOK
<1>4. ASSUME NEW t \in B
      PROVE  /\ CacheKey(t) \in Keys /\ GetCached(t) \subseteq cache[CacheKey(t)]
             /\ IsFiniteSet(GetCached(t))
  <2>1. inputs[t] \in Quotes /\ t \in Tickers
    BY <1>3 DEF CycleInv, Types, TypeOK
  <2>2. CacheKey(t) \in Keys
    BY <2>1 DEF CacheKey, Keys, Quotes
  <2>3. GetCached(t) \subseteq cache[CacheKey(t)]
    BY DEF GetCached
  <2>4. \A v, w \in GetCached(t) : v = w
    BY <2>2, <2>3 DEF CycleInv, Types, TypeOK
  <2>5. QED BY <2>2, <2>3, <2>4, AtMostOneFinite
<1>5. ASSUME NEW v \in new
      PROVE  /\ v \in Valuation /\ v.source # "screening"
             /\ v.ticker \in DOMAIN inputs /\ v.quote.mid = inputs[v.ticker].mid
             /\ started <= v.at + CacheTtl
             /\ v.source \in Heuristics => v.cycle < cycle \/ summary.heuristic
  <2>1. PICK t \in B : v \in GetCached(t)
    OBVIOUS
  <2>2. v \in Valuation /\ <<v.ticker, v.quote.mid>> = <<t, inputs[t].mid>>
    BY <1>4, <2>1, ZenonT(60) DEF CycleInv, Types, TypeOK, CacheKey
  <2>3. started <= v.at + CacheTtl
    <3>1. now <= v.at + CacheTtl /\ v.at \in Nat
      BY <2>1, <2>2 DEF GetCached, Valuation
    <3>2. started <= now /\ now \in Nat /\ started \in Nat /\ CacheTtl \in Nat
      BY CycleAssumption DEF CycleInv, Types, TypeOK
    <3>3. QED BY <3>1, <3>2
  <2>4. /\ v.source # "screening" /\ v.cycle <= cycle /\ v.cycle \in Nat /\ cycle \in Nat
        /\ v.source \in Heuristics /\ v.cycle = cycle => summary.heuristic
    BY <1>2, <1>4, <2>1, <2>2 DEF CycleInv, CacheSound, Types, TypeOK, Valuation
  <2>5. v.ticker = t /\ v.quote.mid = inputs[t].mid
    BY <2>2
  <2>6. QED BY <1>3, <2>2, <2>3, <2>4, <2>5
<1>6. IsFiniteSet(new)
  <2>1. IsFiniteSet(B)
    BY <1>3, FS_Subset, CycleAssumption
  <2> DEFINE f == [t \in B |-> GetCached(t)]
  <2>2. IsFiniteSet({f[t] : t \in B})
    <3>1. DOMAIN f = B
      OBVIOUS
    <3> HIDE DEF f
    <3>2. QED BY <2>1, <3>1, ImageFinite
  <2>3. \A T \in {f[t] : t \in B} : IsFiniteSet(T)
    BY <1>4
  <2>4. IsFiniteSet(UNION {f[t] : t \in B})
    BY <2>2, <2>3, FS_UNION
  <2>5. new = UNION {f[t] : t \in B}
    OBVIOUS
  <2>6. QED BY <2>4, <2>5
<1> HIDE DEF new
<1>7. valued' = valued \cup new
  BY <1>1 DEF new
<1>8. Types'
  BY <1>1, <1>2, <1>3, <1>5, <1>7, CycleAssumption DEF CycleInv, Types, TypeOK
<1>9. Stages'
  BY <1>2, <1>6, <1>7, FS_Union DEF CycleInv, Stages
<1>10. Current' /\ HeuristicsRecorded'
  BY <1>2, <1>5, <1>7 DEF CycleInv, Current, CurrentOf, HeuristicsRecorded
<1>11. CacheSound' /\ OwnHeuristicsNotTraded'
  BY <1>2 DEF CycleInv, CacheSound, OwnHeuristicsNotTraded, LiveOnClaudeOnly
<1>12. ~(Unasked /\ stage = "value")
  BY <1>2 DEF CycleInv, UnaskedDull
<1>13. Unscreened' /\ UnaskedDull'
  BY <1>2, <1>5, <1>7, <1>12 DEF CycleInv, Unscreened, UnaskedDull, Unasked
<1>14. QED BY <1>8, <1>9, <1>10, <1>11, <1>13 DEF CycleInv

\* A batch is valued, by whomever: what is new is current, recorded if it is
\* heuristic, and not put into the cache by a screening pass.
LEMMA ResolveKeeps ==
  ASSUME CycleInv, InPass, batch # {}, NEW answers, answers \subseteq batch \X Edges,
         IsFiniteSet(answers),
         NEW source \in {"screening", "disabled", "fallback", "claude"},
         source = "screening" <=> stage = "screen", Resolve(answers, source),
         summary' \in [claude : BOOLEAN, heuristic : BOOLEAN],
         summary.heuristic \/ source \in Heuristics => summary'.heuristic
  PROVE  CycleInv'
<1> DEFINE f == [a \in answers |->
             [ticker |-> a[1], quote |-> inputs[a[1]], source |-> source, edge |-> a[2],
              cycle |-> cycle, at |-> now]]
<1> DEFINE new == {f[a] : a \in answers}
<1>1. /\ stage \in {"screen", "value"}
      /\ valued' = valued \cup new /\ batch' = {} /\ attempt' = 0
      /\ IF stage = "screen" THEN UNCHANGED cache ELSE PutCached(new)
      /\ UNCHANGED <<now, started, cycle, stage, inputs, useClaude, todo, candidates, traded>>
  <2>1. new = {[ticker |-> a[1], quote |-> inputs[a[1]], source |-> source, edge |-> a[2],
                cycle |-> cycle, at |-> now] : a \in answers}
    OBVIOUS
  <2> HIDE DEF new
  <2>2. QED BY <2>1 DEF Resolve, InPass, result
<1>2. /\ now \in Nat /\ started \in Nat /\ started <= now /\ cycle \in Nat /\ CacheTtl \in Nat
      /\ batch \subseteq DOMAIN inputs /\ DOMAIN inputs \subseteq Tickers
      /\ \A t \in DOMAIN inputs : inputs[t] \in Quotes
  BY CycleAssumption DEF CycleInv, Types, TypeOK
<1>3. ASSUME NEW v \in new
      PROVE  /\ v \in Valuation /\ v.source = source /\ v.cycle = cycle
             /\ v.ticker \in DOMAIN inputs /\ v.quote = inputs[v.ticker]
             /\ started <= v.at + CacheTtl
  <2>1. PICK a \in answers : v = f[a]
    OBVIOUS
  <2>2. a[1] \in batch /\ a[2] \in Edges
    OBVIOUS
  <2>3. /\ v.ticker = a[1] /\ v.quote = inputs[a[1]] /\ v.source = source
        /\ v.cycle = cycle /\ v.at = now
    BY <2>1
  <2>4. v \in Valuation
    BY <1>2, <2>1, <2>2 DEF Valuation, Sources, Heuristics
  <2>5. QED BY <1>2, <2>2, <2>3, <2>4
<1>4. IsFiniteSet(new)
  <2>1. DOMAIN f = answers
    OBVIOUS
  <2> HIDE DEF f
  <2>2. QED BY <2>1, ImageFinite
<1> HIDE DEF f, new
<1>5. ASSUME NEW k \in Keys, cache'[k] # cache[k]
      PROVE  stage = "value" /\ \E v \in new : cache'[k] = {v} /\ <<v.ticker, v.quote.mid>> = k
  <2>1. stage = "value" /\ PutCached(new)
    BY <1>1, <1>5
  <2> DEFINE keys == {CacheKey(v.ticker) : v \in new}
  <2>2. PICK last \in [keys -> new] :
          /\ \A j \in keys : CacheKey(last[j].ticker) = j
          /\ cache' = [j \in Keys |-> IF j \in keys THEN {last[j]} ELSE cache[j]]
    BY <2>1 DEF PutCached
  <2> HIDE DEF keys
  <2>3. k \in keys
    BY <1>5, <2>2
  <2>4. cache'[k] = {last[k]} /\ last[k] \in new /\ CacheKey(last[k].ticker) = k
    BY <2>2, <2>3
  <2>5. <<last[k].ticker, last[k].quote.mid>> = k
    BY <1>3, <2>4 DEF CacheKey
  <2>6. QED BY <2>1, <2>4, <2>5
<1>6. cache' \in [Keys -> SUBSET Valuation]
  <2>1. \A k \in Keys : cache'[k] \subseteq Valuation
    BY <1>3, <1>5 DEF CycleInv, Types
  <2>2. cache' = [k \in Keys |-> cache'[k]]
    BY <1>1 DEF PutCached, CycleInv, Types
  <2>3. QED BY <2>1, <2>2
<1>7. \A k \in Keys : \A v, w \in cache'[k] :
        v \in Valuation /\ <<v.ticker, v.quote.mid>> = k /\ v = w
  BY <1>3, <1>5 DEF CycleInv, Types, TypeOK
<1>8. valued' \subseteq Valuation /\ attempt' \in 0..MaxRetries
  BY <1>1, <1>3, CycleAssumption DEF CycleInv, Types, TypeOK
<1>9. Types'
  BY <1>1, <1>6, <1>7, <1>8 DEF CycleInv, Types, TypeOK
<1>10. Stages'
  BY <1>1, <1>4, FS_Union DEF CycleInv, Stages
<1>11. Current'
  <2>1. \A v \in new : v.quote.mid = inputs[v.ticker].mid
    BY <1>3
  <2>2. QED BY <1>1, <1>3, <2>1 DEF CycleInv, Current, CurrentOf
<1>12. CacheSound'
  <2>1. SUFFICES ASSUME NEW k \in Keys, NEW v \in cache'[k]
        PROVE  /\ v.source # "screening" /\ v.cycle <= cycle
               /\ stage = "screen" => v.cycle < cycle
               /\ v.source \in Heuristics /\ v.cycle = cycle => summary'.heuristic
    BY <1>1 DEF CacheSound
  <2>2. CASE cache'[k] = cache[k]
    BY <1>1, <2>1, <2>2 DEF CycleInv, CacheSound
  <2>3. CASE cache'[k] # cache[k]
    BY <1>2, <1>3, <1>5, <2>1, <2>3
  <2>4. QED BY <2>2, <2>3
<1>13. HeuristicsRecorded'
  BY <1>1, <1>3 DEF CycleInv, HeuristicsRecorded
<1>14. ~(Unasked /\ stage = "value")
  BY DEF CycleInv, UnaskedDull
<1>15. Unscreened' /\ UnaskedDull'
  BY <1>1, <1>3, <1>14 DEF CycleInv, Unscreened, UnaskedDull, Unasked
<1>16. OwnHeuristicsNotTraded'
  BY <1>1 DEF CycleInv, OwnHeuristicsNotTraded, LiveOnClaudeOnly
<1>17. QED
  BY <1>9, <1>10, <1>11, <1>12, <1>13, <1>15, <1>16 DEF CycleInv

\* The heuristic values the whole batch.
LEMMA HeuristicKeeps ==
  ASSUME CycleInv, InPass, batch # {},
         NEW source \in {"screening", "disabled", "fallback"},
         source = "screening" <=> stage = "screen",
         HeuristicBatch(source), RecordHeuristic
  PROVE  CycleInv'
<1>1. PICK e \in [batch -> Edges] : Resolve({<<t, e[t]>> : t \in batch}, source)
  BY DEF HeuristicBatch
<1> DEFINE f == [t \in batch |-> <<t, e[t]>>]
<1> DEFINE answers == {f[t] : t \in batch}
<1>2. answers \subseteq batch \X Edges
  OBVIOUS
<1>3. IsFiniteSet(answers)
  <2>1. IsFiniteSet(batch)
    <3>1. batch \subseteq Tickers
      BY DEF CycleInv, Types, TypeOK
    <3>2. QED BY <3>1, FS_Subset, CycleAssumption
  <2>2. DOMAIN f = batch
    OBVIOUS
  <2> HIDE DEF f
  <2>3. QED BY <2>1, <2>2, ImageFinite
<1>4. Resolve(answers, source)
  <2>1. answers = {<<t, e[t]>> : t \in batch}
    OBVIOUS
  <2> HIDE DEF answers
  <2>2. QED BY <1>1, <2>1
<1> HIDE DEF answers, f
<1>5. /\ summary' \in [claude : BOOLEAN, heuristic : BOOLEAN]
      /\ summary'.heuristic
  <2>1. summary \in [claude : BOOLEAN, heuristic : BOOLEAN]
    BY DEF CycleInv, Types, TypeOK
  <2>2. summary' = [summary EXCEPT !.heuristic = TRUE]
    BY DEF RecordHeuristic
  <2>3. QED BY <2>1, <2>2
<1>6. QED BY <1>2, <1>3, <1>4, <1>5, ResolveKeeps

LEMMA ValueKeeps ==
  ASSUME CycleInv, ValueHeuristically \/ ClaudeAnswers \/ ClaudeFallsBack
  PROVE  CycleInv'
<1>1. CASE ValueHeuristically
  <2> DEFINE source == CASE stage = "screen" -> "screening" [] useClaude -> "fallback"
                         [] OTHER -> "disabled"
  <2>1. InPass /\ batch # {} /\ HeuristicBatch(source) /\ RecordHeuristic
    BY <1>1 DEF ValueHeuristically
  <2>2. /\ source \in {"screening", "disabled", "fallback"}
        /\ source = "screening" <=> stage = "screen"
    <3>1. CASE stage = "screen"
      BY <3>1 DEF CycleInv, Stages
    <3>2. CASE stage # "screen"
      BY <3>2
    <3>3. QED BY <3>1, <3>2
  <2> HIDE DEF source
  <2>3. QED BY <2>1, <2>2, HeuristicKeeps
<1>2. CASE ClaudeFallsBack
  <2>1. stage # "screen"
    BY <1>2 DEF ClaudeFallsBack, AsksClaude, CycleInv, Stages
  <2>2. InPass /\ batch # {} /\ HeuristicBatch("fallback") /\ RecordHeuristic
    BY <1>2 DEF ClaudeFallsBack
  <2>3. QED BY <2>1, <2>2, HeuristicKeeps
<1>3. CASE ClaudeAnswers
  <2>1. PICK A \in SUBSET (batch \X Edges) : Resolve(A, "claude")
    BY <1>3 DEF ClaudeAnswers
  <2>2. InPass /\ batch # {} /\ stage # "screen" /\ RecordClaude
    BY <1>3 DEF ClaudeAnswers, AsksClaude, CycleInv, Stages
  <2>3. IsFiniteSet(A)
    <3>1. batch \subseteq Tickers
      BY DEF CycleInv, Types, TypeOK
    <3>2. IsFiniteSet(batch \X Edges)
      BY <3>1, EdgesFinite, FS_Subset, FS_Product, CycleAssumption
    <3>3. QED BY <3>2, FS_Subset
  <2>4. /\ summary' \in [claude : BOOLEAN, heuristic : BOOLEAN]
        /\ summary.heuristic => summary'.heuristic
    <3>1. summary \in [claude : BOOLEAN, heuristic : BOOLEAN]
      BY DEF CycleInv, Types, TypeOK
    <3>2. summary' = [summary EXCEPT !.claude = TRUE]
      BY <2>2 DEF RecordClaude
    <3>3. QED BY <3>1, <3>2
  <2>5. "claude" \notin Heuristics
    BY DEF Heuristics
  <2>6. QED BY <2>1, <2>2, <2>3, <2>4, <2>5, ResolveKeeps
<1>4. QED BY <1>1, <1>2, <1>3

LEMMA RetryKeeps == ASSUME CycleInv, ClaudeRetry PROVE CycleInv'
<1>1. /\ attempt < MaxRetries /\ attempt' = attempt + 1
      /\ UNCHANGED <<now, started, cycle, cache, stage, inputs, useClaude, todo, batch,
                     valued, summary, candidates, traded>>
  BY DEF ClaudeRetry, result
<1>2. attempt' \in 0..MaxRetries
  BY <1>1, CycleAssumption DEF CycleInv, Types, TypeOK
<1>3. Types'
  BY <1>1, <1>2 DEF CycleInv, Types, TypeOK
<1>4. QED
  BY <1>1, <1>3 DEF CycleInv, Stages, Current, CurrentOf, CacheSound, HeuristicsRecorded,
     Unscreened, UnaskedDull, Unasked, OwnHeuristicsNotTraded, LiveOnClaudeOnly

\* Time passes while a cycle runs.
LEMMA TickKeeps == ASSUME CycleInv, Tick PROVE CycleInv'
<1>1. /\ now' = now + 1
      /\ UNCHANGED <<started, cycle, cache, stage, inputs, useClaude, todo, batch, attempt,
                     valued, summary, candidates, traded>>
  BY DEF Tick, pass, result
<1>2. Types'
  BY <1>1 DEF CycleInv, Types, TypeOK
<1>3. QED
  BY <1>1, <1>2 DEF CycleInv, Stages, Current, CurrentOf, CacheSound, HeuristicsRecorded,
     Unscreened, UnaskedDull, Unasked, OwnHeuristicsNotTraded, LiveOnClaudeOnly

LEMMA StutterKeeps == ASSUME CycleInv, UNCHANGED vars PROVE CycleInv'
<1>1. UNCHANGED <<now, started, cycle, cache, stage, inputs, useClaude, todo, batch,
                  attempt, valued, summary, candidates, traded>>
  BY DEF vars, pass, result
<1>2. QED
  BY <1>1 DEF CycleInv, Types, TypeOK, Stages, Current, CurrentOf, CacheSound,
     HeuristicsRecorded, Unscreened, UnaskedDull, Unasked, OwnHeuristicsNotTraded,
     LiveOnClaudeOnly

\* Claude is asked for a second pass, which starts with nothing valued.
LEMMA FindsKeeps == ASSUME CycleInv, ScreeningFinds PROVE CycleInv'
<1>1. /\ stage = "screen" /\ stage' = "value" /\ useClaude' = TRUE
      /\ todo' = DOMAIN inputs /\ batch' = {} /\ attempt' = 0
      /\ valued' = {} /\ summary' = NoSummary
      /\ UNCHANGED <<now, started, cycle, cache, inputs, candidates, traded>>
  BY DEF ScreeningFinds, StartPass, result
<1>2. candidates = {}
  BY <1>1 DEF CycleInv, Stages
<1>3. useClaude' \in BOOLEAN
  BY <1>1
<1>4. Types'
  BY <1>1, <1>3, CycleAssumption DEF CycleInv, Types, TypeOK, NoSummary
<1>5. Stages'
  BY <1>1, <1>2, FS_EmptySet DEF Stages
<1>6. CacheSound'
  <2>1. SUFFICES ASSUME NEW k \in Keys, NEW v \in cache[k]
                 PROVE  v.source # "screening" /\ v.cycle <= cycle /\ v.cycle # cycle
    BY <1>1 DEF CacheSound
  <2>2. v.source # "screening" /\ v.cycle < cycle /\ v.cycle \in Nat /\ cycle \in Nat
    BY <1>1 DEF CycleInv, CacheSound, Types, TypeOK, Valuation
  <2>3. QED BY <2>2
<1>7. Current' /\ HeuristicsRecorded' /\ Unscreened' /\ UnaskedDull'
  BY <1>1, <1>2 DEF CycleInv, Current, CurrentOf, HeuristicsRecorded, Unscreened,
     UnaskedDull, Unasked
<1>8. OwnHeuristicsNotTraded'
  BY <1>1 DEF CycleInv, OwnHeuristicsNotTraded, LiveOnClaudeOnly
<1>9. QED BY <1>4, <1>5, <1>6, <1>7, <1>8 DEF CycleInv

\* The cycle goes on with what its screening pass valued: nothing of it may become
\* a candidate.
LEMMA FindsNoneKeeps == ASSUME CycleInv, ScreeningFindsNone PROVE CycleInv'
<1>1. /\ stage = "screen" /\ stage' = "value" /\ CandidatesOf(valued) = {{}}
      /\ batch = {} /\ todo = {}
      /\ UNCHANGED <<now, started, cycle, cache, inputs, useClaude, todo, batch, attempt,
                     valued, summary, candidates, traded>>
  BY DEF ScreeningFindsNone, PassOver, pass, result
<1>2. IsFiniteSet(valued) /\ candidates = {} /\ TriggerMode = "on_heuristic_candidates"
      /\ ~useClaude
  BY <1>1 DEF CycleInv, Stages
<1>3. \A v \in valued : Dull(v)
  BY <1>1, <1>2, NoCandidateAllDull
<1>4. \A v \in valued' : Dull(v)
  BY <1>1, <1>3
<1>5. Types'
  BY <1>1 DEF CycleInv, Types, TypeOK
<1>6. Stages'
  BY <1>1, <1>2 DEF Stages
<1>7. CacheSound'
  BY <1>1 DEF CycleInv, CacheSound
<1>8. Unscreened' /\ UnaskedDull'
  BY <1>1, <1>2, <1>4 DEF Unscreened, UnaskedDull, Unasked
<1>9. Current' /\ HeuristicsRecorded' /\ OwnHeuristicsNotTraded'
  BY <1>1 DEF CycleInv, Current, CurrentOf, HeuristicsRecorded, OwnHeuristicsNotTraded,
     LiveOnClaudeOnly
<1>10. QED BY <1>5, <1>6, <1>7, <1>8, <1>9 DEF CycleInv

\* The candidates are chosen among the valuations and the overrides.
LEMMA ChooseKeeps == ASSUME CycleInv, ChooseCandidates PROVE CycleInv'
<1> DEFINE W == {v \in valued : v.ticker \in ForecastTickers}
<1>1. PICK e \in [W -> Edges] :
        LET vs == {IF v \in DOMAIN e THEN [v EXCEPT !.source = "forecast", !.edge = e[v]] ELSE v :
                     v \in valued}
        IN valued' = vs /\ candidates' \in ForcedIfNone(vs)
  BY DEF ChooseCandidates
<1> DEFINE f == [v \in valued |->
                   IF v \in W THEN [v EXCEPT !.source = "forecast", !.edge = e[v]] ELSE v]
<1>2. valued' = {f[v] : v \in valued} /\ candidates' \in ForcedIfNone(valued')
  BY <1>1
<1>3. ASSUME NEW w \in valued'
      PROVE  \E v \in valued :
               /\ w.ticker = v.ticker /\ w.quote = v.quote /\ w.cycle = v.cycle /\ w.at = v.at
               /\ w = v \/ w.source = "forecast"
               /\ w \in Valuation
  <2>1. PICK v \in valued : w = f[v]
    BY <1>2
  <2>2. v \in Valuation
    BY DEF CycleInv, Types, TypeOK
  <2>3. CASE v \in W
    <3>1. w = [v EXCEPT !.source = "forecast", !.edge = e[v]] /\ e[v] \in Edges
      BY <2>1, <2>3
    <3>2. "forecast" \in Sources
      BY DEF Sources
    <3>3. w \in Valuation
      BY <2>2, <3>1, <3>2 DEF Valuation
    <3>4. /\ w.ticker = v.ticker /\ w.quote = v.quote /\ w.cycle = v.cycle /\ w.at = v.at
          /\ w.source = "forecast"
      BY <2>2, <3>1 DEF Valuation
    <3>5. QED BY <3>3, <3>4
  <2>4. CASE v \notin W
    BY <2>1, <2>2, <2>4
  <2>5. QED BY <2>3, <2>4
<1>4. IsFiniteSet(valued')
  <2>1. IsFiniteSet(valued) /\ DOMAIN f = valued
    BY DEF CycleInv, Stages
  <2> HIDE DEF f
  <2>2. QED BY <1>2, <2>1, ImageFinite
<1> HIDE DEF W, f
<1>5. ASSUME NEW c \in candidates'
      PROVE  \E w \in valued' :
               /\ c.ticker = w.ticker /\ c.quote = w.quote /\ c.cycle = w.cycle /\ c.at = w.at
               /\ (c = w /\ ~Dull(w)) \/ c.source = "forced"
               /\ c \in Valuation
  <2>1. CASE candidates' \in CandidatesOf(valued')
    <3>1. c \in valued' /\ ~Dull(c)
      BY <1>4, <2>1, CandidateNotDull
    <3>2. QED BY <1>3, <3>1
  <2>2. CASE candidates' \notin CandidatesOf(valued')
    <3>1. candidates' \in {{[v EXCEPT !.source = "forced", !.edge = "none"]} : v \in valued'}
      BY <1>2, <2>2 DEF ForcedIfNone
    <3>2. PICK w \in valued' : candidates' = {[w EXCEPT !.source = "forced", !.edge = "none"]}
      BY <3>1
    <3>3. w \in Valuation
      BY <1>3
    <3>4. c = [w EXCEPT !.source = "forced", !.edge = "none"]
      BY <3>2
    <3>5. "forced" \in Sources /\ "none" \in Edges
      BY DEF Sources, Edges
    <3>6. c \in Valuation
      BY <3>3, <3>4, <3>5 DEF Valuation
    <3>7. /\ c.ticker = w.ticker /\ c.quote = w.quote /\ c.cycle = w.cycle /\ c.at = w.at
          /\ c.source = "forced"
      BY <3>3, <3>4 DEF Valuation
    <3>8. QED BY <3>6, <3>7
  <2>3. QED BY <2>1, <2>2
<1>6. /\ stage = "value" /\ stage' = "decide"
      /\ UNCHANGED <<now, started, cycle, cache, inputs, useClaude, todo, batch, attempt,
                     summary, traded>>
  BY DEF ChooseCandidates, pass
<1>7. "forecast" \notin Heuristics \cup {"screening"} /\ "forced" \notin Heuristics \cup {"screening"}
  BY DEF Heuristics
<1>8. Types'
  <2>1. valued' \subseteq Valuation /\ candidates' \subseteq Valuation
    BY <1>3, <1>5
  <2>2. QED BY <1>6, <2>1 DEF CycleInv, Types, TypeOK
<1>9. Stages'
  BY <1>4, <1>6 DEF Stages
<1>10. Current'
  <2>1. \A v \in valued : /\ v.ticker \in DOMAIN inputs
                           /\ v.quote.mid = inputs[v.ticker].mid
                           /\ started <= v.at + CacheTtl
    BY DEF CycleInv, Current, CurrentOf
  <2>2. \A w \in valued' : /\ w.ticker \in DOMAIN inputs
                            /\ w.quote.mid = inputs[w.ticker].mid
                            /\ started <= w.at + CacheTtl
    BY <1>3, <2>1
  <2>3. \A c \in candidates' : /\ c.ticker \in DOMAIN inputs
                                /\ c.quote.mid = inputs[c.ticker].mid
                                /\ started <= c.at + CacheTtl
    BY <1>5, <2>2
  <2>4. CurrentOf(traded)
    BY DEF CycleInv, Current
  <2>5. QED BY <1>6, <2>2, <2>3, <2>4 DEF Current, CurrentOf
<1>11. CacheSound'
  BY <1>6 DEF CycleInv, CacheSound
<1>12. \A w \in valued' : w.source \in Heuristics => w.cycle < cycle \/ summary.heuristic
  BY <1>3, <1>7 DEF CycleInv, HeuristicsRecorded
<1>13. HeuristicsRecorded'
  BY <1>5, <1>6, <1>7, <1>12 DEF HeuristicsRecorded
<1>14. Unscreened'
  <2>1. SUFFICES ASSUME ~Unasked', NEW w \in valued' \cup candidates'
                 PROVE  w.source # "screening"
    BY DEF Unscreened
  <2>2. \A v \in valued : v.source # "screening"
    BY <1>6, <2>1 DEF CycleInv, Unscreened, Unasked
  <2>3. \A v \in valued' : v.source # "screening"
    BY <1>3, <2>2
  <2>4. QED BY <1>5, <2>3
<1>15. UnaskedDull'
  <2>1. SUFFICES ASSUME Unasked', NEW c \in candidates' PROVE c.source \notin Heuristics
    BY <1>6 DEF UnaskedDull
  <2>2. \A v \in valued : Dull(v)
    BY <1>6, <2>1 DEF CycleInv, UnaskedDull, Unasked
  <2>3. \A w \in valued' : Dull(w) \/ w.source = "forecast"
    BY <1>3, <2>2
  <2>4. QED BY <1>5, <1>7, <2>3
<1>16. OwnHeuristicsNotTraded'
  BY <1>6 DEF CycleInv, OwnHeuristicsNotTraded, LiveOnClaudeOnly
<1>17. QED
  BY <1>8, <1>9, <1>10, <1>11, <1>13, <1>14, <1>15, <1>16 DEF CycleInv

\* A new process starts as the first one did, at another time.
LEMMA RestartKeeps == ASSUME CycleInv, Restart PROVE CycleInv'
<1>1. /\ started' = 0 /\ cycle' = 0 /\ stage' = "idle" /\ now' = now
      /\ cache' = EmptyCache /\ inputs' = <<>> /\ useClaude' = FALSE
      /\ todo' = {} /\ batch' = {} /\ attempt' = 0
      /\ valued' = {} /\ candidates' = {} /\ traded' = {} /\ summary' = NoSummary
  BY DEF Restart
<1>2. now \in Nat /\ CacheTtl \in Nat /\ MaxRetries \in Nat
  BY CycleAssumption DEF CycleInv, Types, TypeOK
<1>3. DOMAIN inputs' = {}
  BY <1>1
<1>4. cache' \in [Keys -> SUBSET Valuation] /\ \A k \in Keys : cache'[k] = {}
  BY <1>1 DEF EmptyCache
<1>5. summary' \in [claude : BOOLEAN, heuristic : BOOLEAN]
  BY <1>1 DEF NoSummary
<1>6. useClaude' \in BOOLEAN
  BY <1>1
<1>7. now' \in Nat /\ started' \in Nat /\ cycle' \in Nat /\ started' <= now'
  BY <1>1, <1>2
<1>8. attempt' \in 0..MaxRetries
  BY <1>1, <1>2
<1>9. DOMAIN inputs' \subseteq Tickers /\ \A t \in DOMAIN inputs' : inputs'[t] \in Quotes
  BY <1>3
<1>10. \A k \in Keys : \A v, w \in cache'[k] :
         v \in Valuation /\ <<v.ticker, v.quote.mid>> = k /\ v = w
  BY <1>4
<1>11. Types'
  BY <1>1, <1>4, <1>5, <1>6, <1>7, <1>8, <1>9, <1>10 DEF Types, TypeOK
<1>12. Stages'
  BY <1>1, FS_EmptySet DEF Stages
<1>13. CacheSound'
  BY <1>4 DEF CacheSound
<1>14. QED
  BY <1>1, <1>11, <1>12, <1>13 DEF CycleInv, Current, CurrentOf, HeuristicsRecorded,
     Unasked, Unscreened, UnaskedDull, OwnHeuristicsNotTraded

(***************************************************************************)
(* The theorems.                                                           *)
(***************************************************************************)
LEMMA NextInv == CycleInv /\ [Next]_vars => CycleInv'
<1> SUFFICES ASSUME CycleInv, [Next]_vars PROVE CycleInv'
  OBVIOUS
<1>1. CASE CycleWithoutMarkets
  BY <1>1, NoMarketsKeeps
<1>2. CASE BeginCycle
  BY <1>2, BeginKeeps
<1>3. CASE CycleStep
  BY <1>3, ChunkKeeps, ValueKeeps, RetryKeeps, FindsKeeps, FindsNoneKeeps, ChooseKeeps,
     DecideKeeps DEF CycleStep
<1>4. CASE Restart
  BY <1>4, RestartKeeps
<1>5. CASE Tick
  BY <1>5, TickKeeps
<1>6. CASE UNCHANGED vars
  BY <1>6, StutterKeeps
<1>7. QED BY <1>1, <1>2, <1>3, <1>4, <1>5, <1>6 DEF Next

LEMMA SpecInv == Spec => []CycleInv
<1>1. Init => CycleInv
  BY InitInv
<1>2. QED BY <1>1, NextInv, PTL DEF Spec

\* The types of the cycle's state, and that a key of the valuation cache holds at
\* most one valuation, which is of the key's own market and mid.
THEOREM CycleTypeCorrect == Spec => []TypeOK
<1>1. CycleInv => TypeOK
  BY DEF CycleInv, Types
<1>2. QED BY <1>1, SpecInv, PTL

\* In live mode without BOT_ALLOW_HEURISTIC_IN_LIVE, run_cycle trades on no
\* heuristic valuation made in the same cycle and on none of a screening pass,
\* whatever batches Claude fails to value.
THEOREM HeuristicsNotTraded == Spec => []OwnHeuristicsNotTraded
<1>1. CycleInv => OwnHeuristicsNotTraded
  BY DEF CycleInv
<1>2. QED BY <1>1, SpecInv, PTL

\* What run_cycle trades rests on a valuation for the mid the cycle scanned that
\* had not outlived the cache's expiry when the cycle began.
THEOREM TradesCurrent == Spec => []TradesOnCurrentValuations
<1>1. CycleInv => TradesOnCurrentValuations
  BY DEF CycleInv, Current, CurrentOf, TradesOnCurrentValuations
<1>2. QED BY <1>1, SpecInv, PTL
==============================================================================
