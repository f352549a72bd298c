----------------------------- MODULE TradingCycle -----------------------------
(***************************************************************************)
(* A trading cycle up to its trades: run_cycle in src/main.rs and the      *)
(* valuation engine it calls, with its cache (src/model/valuation.rs).     *)
(*                                                                         *)
(* A cycle scans the markets, values them in batches, by Claude or by a    *)
(* heuristic, keeps the candidates whose edge is large enough, and trades  *)
(* some of them.  A live cycle must not trade on the heuristic unless      *)
(* BOT_ALLOW_HEURISTIC_IN_LIVE says so.  The cache is the only state that  *)
(* outlives a cycle.  What happens to the trades is RiskGuard's subject.   *)
(***************************************************************************)
EXTENDS Integers, FiniteSets, FiniteSetsExt

CONSTANTS
  Tickers,               \* markets
  Mids,                  \* what a market's cache key is made of
  Asks,                  \* the quote a trade would pay, which the key leaves out
  Mode,                  \* "Live" or "Paper"
  TriggerMode,           \* ClaudeTriggerMode
  ClaudeEveryNCycles,
  HasApiKey,
  AllowHeuristicInLive,
  BatchSize,
  MaxRetries,
  CacheTtl,
  MinCandidates,
  ForecastTickers,       \* markets the forecast model overrides; {} without a model
  ForceTestCandidate,
  MaxCycles,             \* bound of the model: no cycle starts after these
  MaxTime                \* bound of the model: the clock stops here

ASSUME CycleAssumption ==
  /\ Mode \in {"Live", "Paper"}
  /\ TriggerMode \in {"never", "cadence", "on_viable_markets", "on_heuristic_candidates"}
  /\ ClaudeEveryNCycles \in Nat \ {0}
  /\ HasApiKey \in BOOLEAN /\ AllowHeuristicInLive \in BOOLEAN
  /\ ForceTestCandidate \in BOOLEAN
  /\ BatchSize \in Nat \ {0} /\ MaxRetries \in Nat /\ CacheTtl \in Nat
  /\ MinCandidates \in Nat
  /\ IsFiniteSet(Tickers) /\ ForecastTickers \subseteq Tickers
  /\ MaxCycles \in Nat /\ MaxTime \in Nat

VARIABLES
  now,
  started,    \* started_at of the cycle
  cycle,      \* cycle_counter
  cache,      \* what each key holds: a set of at most one valuation
  stage,      \* where run_cycle is
  inputs,     \* the quote of each market selected for valuation
  useClaude,  \* is Claude enabled in this valuation pass?
  todo,       \* markets of the pass still to be looked up
  batch,      \* markets of the current chunk that the cache did not know
  attempt,    \* attempts to have Claude value the batch
  valued,     \* the valuations of the pass
  summary,    \* last_run_summary
  candidates, \* the valuations that became candidates
  traded,     \* the candidates the last cycle went on to trade
  status      \* of the last cycle's artifact

pass   == <<useClaude, todo, batch, attempt>>
result == <<candidates, traded, status>>
vars   == <<now, started, cycle, cache, stage, inputs, pass, valued, summary, result>>

Quotes == [mid : Mids, ask : Asks]

\* Where a valuation comes from.  A heuristic one is told by why it was made: in
\* the screening pass, with Claude off, or after Claude failed.
Heuristics == {"screening", "disabled", "fallback"}
Sources    == Heuristics \cup {"claude", "forecast", "forced"}

\* How far a valuation's edge reaches: the threshold, the relaxed one, or neither.
Edges == {"strict", "relaxed", "none"}

Valuation ==
  [ticker : Tickers, quote : Quotes, source : Sources, edge : Edges, cycle : Nat, at : Nat]

Least(a, b) == IF a < b THEN a ELSE b

Keys == Tickers \X Mids

NoSummary  == [claude |-> FALSE, heuristic |-> FALSE]
EmptyCache == [k \in Keys |-> {}]

\* A mutant: the key is the market alone.
CacheKeyOfTicker(t) == CHOOSE k \in Keys : k[1] = t

\* cache_key: the market, its mid and what is known of it, but not the quote.
CacheKey(t) == <<t, inputs[t].mid>>

\* A mutant: an entry never expires.
GetCachedForever(t) == cache[CacheKey(t)]

GetCached(t) == {v \in cache[CacheKey(t)] : now <= v.at + CacheTtl}

\* put_cached, one valuation after the other: the last one for a key stays.
PutCached(vs) ==
  LET keys == {CacheKey(v.ticker) : v \in vs}
  IN \E last \in [keys -> vs] :
       /\ \A k \in keys : CacheKey(last[k].ticker) = k
       /\ cache' = [k \in Keys |-> IF k \in keys THEN {last[k]} ELSE cache[k]]

------------------------------------------------------------------------------
ClaudeThisCycle(n) == n % ClaudeEveryNCycles = 0

\* A valuation pass over all the inputs; it resets the summary.
StartPass(claude) ==
  /\ useClaude' = claude
  /\ todo' = DOMAIN inputs' /\ batch' = {} /\ attempt' = 0
  /\ valued' = {}
  /\ summary' = NoSummary

\* The cycle returns: its locals are gone.
EndCycle(s, trades) ==
  /\ stage' = "idle"
  /\ status' = s /\ traded' = trades /\ candidates' = {} /\ valued' = {}

NewCycle == stage = "idle" /\ cycle < MaxCycles /\ cycle' = cycle + 1 /\ started' = now

\* The scan or the enrichment fails, or no market passes the selection.
CycleWithoutMarkets ==
  /\ NewCycle
  /\ \E s \in {"scan_failed", "no_markets", "enrichment_failed"} : EndCycle(s, {})
  /\ UNCHANGED <<now, cache, inputs, pass, summary>>

\* The markets are scanned, selected and enriched; the first pass begins.
BeginCycle ==
  /\ NewCycle
  /\ \E S \in SUBSET Tickers \ {{}} : inputs' \in [S -> Quotes]
  /\ stage' = (IF TriggerMode = "on_heuristic_candidates" THEN "screen" ELSE "value")
  /\ StartPass(CASE TriggerMode = "cadence" -> ClaudeThisCycle(cycle)
                 [] TriggerMode = "on_viable_markets" -> TRUE
                 [] OTHER -> FALSE)
  /\ status' = "running" /\ traded' = {}
  /\ UNCHANGED <<now, cache, candidates>>

InPass == stage \in {"screen", "value"}

\* value_markets_impl takes the next chunk and looks it up in the cache.
NextChunk ==
  /\ InPass /\ batch = {} /\ todo # {}
  /\ \E B \in SUBSET todo :
       /\ Cardinality(B) = Least(BatchSize, Cardinality(todo))
       /\ todo' = todo \ B
       /\ batch' = {t \in B : GetCached(t) = {}}
       /\ valued' = valued \cup UNION {GetCached(t) : t \in B}
  /\ attempt' = 0
  /\ UNCHANGED <<now, started, cycle, cache, stage, inputs, useClaude, summary, result>>

\* The batch is valued: answers are pairs of a market and an edge.
Resolve(answers, source) ==
  LET new == {[ticker |-> a[1], quote |-> inputs[a[1]], source |-> source, edge |-> a[2],
               cycle |-> cycle, at |-> now] : a \in answers}
  IN /\ valued' = valued \cup new
     /\ IF stage = "screen" THEN UNCHANGED cache ELSE PutCached(new)
     /\ batch' = {} /\ attempt' = 0
     /\ UNCHANGED <<now, started, cycle, stage, inputs, useClaude, todo, result>>

AsksClaude == useClaude /\ HasApiKey

RecordHeuristic == summary' = [summary EXCEPT !.heuristic = TRUE]
RecordClaude    == summary' = [summary EXCEPT !.claude = TRUE]

\* heuristic_batch values every market of the batch.
HeuristicBatch(source) == \E e \in [batch -> Edges] : Resolve({<<t, e[t]>> : t \in batch}, source)

ValueHeuristically ==
  /\ InPass /\ batch # {} /\ ~AsksClaude
  /\ HeuristicBatch(CASE stage = "screen" -> "screening" [] useClaude -> "fallback"
                      [] OTHER -> "disabled")
  /\ RecordHeuristic

\* Claude values some of the batch: markets it leaves out are dropped, and one it
\* names twice is valued twice.
ClaudeAnswers ==
  /\ InPass /\ batch # {} /\ AsksClaude
  /\ \E A \in SUBSET (batch \X Edges) \ {{}} : Resolve(A, "claude")
  /\ RecordClaude

\* A timeout, a server error or a truncated answer is retried, up to max_retries.
ClaudeRetry ==
  /\ InPass /\ batch # {} /\ AsksClaude /\ attempt < MaxRetries
  /\ attempt' = attempt + 1
  /\ UNCHANGED <<now, started, cycle, cache, stage, inputs, useClaude, todo, batch, valued, summary, result>>

\* Any other error, or one retry too many: the heuristic takes the batch.
ClaudeFallsBack ==
  /\ InPass /\ batch # {} /\ AsksClaude
  /\ HeuristicBatch("fallback")
  /\ RecordHeuristic

PassOver == batch = {} /\ todo = {}

\* generate_candidates: the strict ones or, if those are too few, the best of them
\* and the relaxed ones; a relaxed one is left out if a strict one is for the same
\* market and outcome.
CandidatesOf(vs) ==
  LET strict == {v \in vs : v.edge = "strict"}
      both   == {v \in vs : v.edge # "none"}
      apart  == {v \in both : \A s \in strict : v = s \/ v.ticker # s.ticker}
  IN IF Cardinality(strict) >= MinCandidates THEN {strict}
     ELSE UNION {kSubset(Least(MinCandidates, Cardinality(D)), D) :
                   D \in {E \in SUBSET both : strict \cup apart \subseteq E}}

\* With no candidate, a test candidate may be made of the first valuation.
ForcedIfNone(vs) ==
  IF CandidatesOf(vs) = {{}} /\ ForceTestCandidate
  THEN {{[v EXCEPT !.source = "forced", !.edge = "none"]} : v \in vs}
  ELSE CandidatesOf(vs)

\* The screening pass found candidates: Claude values the markets.
ScreeningFinds ==
  /\ stage = "screen" /\ PassOver
  /\ CandidatesOf(valued) # {{}}
  /\ stage' = "value"
  /\ UNCHANGED inputs
  /\ StartPass(TRUE)
  /\ UNCHANGED <<now, started, cycle, cache, result>>

\* It found none: its valuations are those of the cycle.
ScreeningFindsNone ==
  /\ stage = "screen" /\ PassOver
  /\ CandidatesOf(valued) = {{}}
  /\ stage' = "value"
  /\ UNCHANGED <<now, started, cycle, cache, inputs, pass, valued, summary, result>>

\* The forecast model overrides its markets, and the candidates are chosen.
ChooseCandidates ==
  /\ stage = "value" /\ PassOver
  /\ \E e \in [{v \in valued : v.ticker \in ForecastTickers} -> Edges] :
       LET vs == {IF v \in DOMAIN e THEN [v EXCEPT !.source = "forecast", !.edge = e[v]] ELSE v :
                    v \in valued}
       IN valued' = vs /\ candidates' \in ForcedIfNone(vs)
  /\ stage' = "decide"
  /\ UNCHANGED <<now, started, cycle, cache, inputs, pass, summary, traded, status>>

NoCandidates ==
  /\ stage = "decide" /\ candidates = {}
  /\ EndCycle("no_candidates", {})
  /\ UNCHANGED <<now, started, cycle, cache, inputs, pass, summary>>

\* A mutant: a cycle that also used Claude goes on.
FailsClosedUnmixed ==
  /\ Mode = "Live" /\ summary.heuristic /\ ~summary.claude /\ ~AllowHeuristicInLive
  /\ useClaude \/ TriggerMode # "on_heuristic_candidates"

\* claude_attempted is what the second pass of a cycle was started with.
FailsClosed ==
  /\ Mode = "Live" /\ summary.heuristic /\ ~AllowHeuristicInLive
  /\ useClaude \/ TriggerMode # "on_heuristic_candidates"

FailClosed ==
  /\ stage = "decide" /\ candidates # {} /\ FailsClosed
  /\ EndCycle("valuation_fail_closed_live", {})
  /\ UNCHANGED <<now, started, cycle, cache, inputs, pass, summary>>

\* The policy, the allocator and the risk guards choose among the candidates.
Trade ==
  /\ stage = "decide" /\ candidates # {} /\ ~FailsClosed
  /\ \E T \in SUBSET candidates :
       EndCycle(IF T = {} THEN "no_allocations" ELSE "completed", T)
  /\ UNCHANGED <<now, started, cycle, cache, inputs, pass, summary>>

Tick ==
  /\ now < MaxTime
  /\ now' = now + 1
  /\ UNCHANGED <<started, cycle, cache, stage, inputs, pass, valued, summary, result>>

Init ==
  /\ now = 0 /\ started = 0 /\ cycle = 0 /\ stage = "idle" /\ status = "none"
  /\ cache = EmptyCache /\ inputs = <<>>
  /\ useClaude = FALSE /\ todo = {} /\ batch = {} /\ attempt = 0
  /\ valued = {} /\ candidates = {} /\ traded = {} /\ summary = NoSummary

\* The process ends at any point and another one starts: nothing is kept.
Restart ==
  /\ started' = 0 /\ cycle' = 0 /\ stage' = "idle" /\ status' = "none"
  /\ cache' = EmptyCache /\ inputs' = <<>>
  /\ useClaude' = FALSE /\ todo' = {} /\ batch' = {} /\ attempt' = 0
  /\ valued' = {} /\ candidates' = {} /\ traded' = {} /\ summary' = NoSummary
  /\ UNCHANGED now

CycleStep ==
  \/ NextChunk \/ ValueHeuristically \/ ClaudeAnswers \/ ClaudeRetry \/ ClaudeFallsBack
  \/ ScreeningFinds \/ ScreeningFindsNone \/ ChooseCandidates
  \/ NoCandidates \/ FailClosed \/ Trade

Next == CycleWithoutMarkets \/ BeginCycle \/ CycleStep \/ Restart \/ Tick

Spec == Init /\ [][Next]_vars

------------------------------------------------------------------------------
\* The variables hold values of their types, and a key holds one valuation of
\* its own market.
TypeOK ==
  /\ now \in Nat /\ started \in Nat /\ cycle \in Nat /\ attempt \in 0..MaxRetries
  /\ stage \in {"idle", "screen", "value", "decide"}
  /\ DOMAIN inputs \subseteq Tickers /\ \A t \in DOMAIN inputs : inputs[t] \in Quotes
  /\ todo \subseteq DOMAIN inputs /\ batch \subseteq DOMAIN inputs
  /\ useClaude \in BOOLEAN /\ summary \in [claude : BOOLEAN, heuristic : BOOLEAN]
  /\ valued \subseteq Valuation /\ candidates \subseteq Valuation /\ traded \subseteq Valuation
  /\ \A k \in Keys : \A v, w \in cache[k] :
       v \in Valuation /\ <<v.ticker, v.quote.mid>> = k /\ v = w

LiveOnClaudeOnly == Mode = "Live" /\ ~AllowHeuristicInLive

\* Whatever batches fail and whatever the cache holds, a live cycle that may not
\* use the heuristic trades on no heuristic valuation of its own, and on none of
\* a screening pass, of this cycle or of an earlier one.
OwnHeuristicsNotTraded ==
  LiveOnClaudeOnly =>
    \A v \in traded :
      v.source # "screening" /\ (v.source \in Heuristics => v.cycle < cycle)

\* A trade rests on a valuation that was made for the mid the cycle saw and that
\* had not expired when the cycle began, over any number of cached cycles.
TradesOnCurrentValuations ==
  \A v \in traded :
    v.quote.mid = inputs[v.ticker].mid /\ started <= v.at + CacheTtl

\* main.rs:1132 aborts a live cycle because "heuristic valuation fallback was
\* used and BOT_ALLOW_HEURISTIC_IN_LIVE is false": then no trade rests on one.
LiveNeverTradesHeuristic ==
  LiveOnClaudeOnly => \A v \in traded : v.source \notin Heuristics
==============================================================================
