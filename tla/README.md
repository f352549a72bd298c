# Motorcade: a verification project

TLA+ modules, TLC configurations and TLAPS proofs for the trading bot in this
repository (Rust sources under `src/`). Source references below are relative to the
repository: `execution/engine.rs` is `src/execution/engine.rs`.

## The system

The bot is one asynchronous process. A cycle scans the exchange's markets, enriches
and prices some of them, turns mispricings into signals, allocates a fraction of the
bankroll to each, applies risk guards and hands the survivors one by one to the
execution engine, which places orders over HTTP and records what happened in two
files. Between cycles it sleeps. Everything it must not forget is in the files. Every 18
cycles it also asks the exchange how old markets ended and builds datasets; a script
outside the bot does the same and trains models from them, which the bot loads when it
starts again.

| Component | State it keeps | Operations | Talks to |
|---|---|---|---|
| execution engine (`execution/engine.rs`) | `RuntimeState` in the state file: day, loss, exposure, recent order times, seen order ids, open orders; the trade journal | `execute_signal`, `reconcile_open_orders`, load and save of the state, append to the journal | exchange client; called by the cycle |
| exchange client (`execution/client.rs`) | none (keys and an HTTP client) | `place_order`, `get_order`, `cancel_order` | the exchange |
| paper simulator (`execution/paper_sim.rs`) | simulated orders behind a mutex | the same three | - |
| trading cycle (`main.rs`) | cooldowns and per-ticker risk, rebuilt from the journal every cycle | startup, `run_cycle`, risk guards, activation gates | all others |
| allocator (`model/allocator.rs`) | none | `allocate` | cycle |
| valuation (`model/valuation.rs`) | a cache with expiry, recent trigger rates | `value_markets`, `generate_candidates` | Claude over HTTP |
| enrichment (`data/market_enrichment.rs`) | a cache of enriched markets and one of asset prices, both with expiry | `enrich_batch` | NOAA, price and sports feeds, sidecars |
| scanner (`data/market_scanner.rs`, `data/ws_delta.rs`) | scan snapshots | paged scans, tiered series fetches, websocket deltas | the exchange |
| mapper (`markets/kalshi_mapper.rs`) | none | choice of a ticker | the exchange |
| outcome resolver (`outcomes/resolver.rs`) | the file of resolved markets | backfill | the exchange |
| policy (`policy/decision.rs`) | a decision file | scoring of actions | cycle |
| dataset builder (`datasets/builder.rs`) | dataset files | joins of quotes, orders and outcomes | reads the recorders' files |
| models (`features/`, `models/`) | artifacts of each version, `latest.json`, a manifest | training, loading, prediction | read the datasets; read by the policy |
| research recorders (`research/`) | append-only event files | one line per event | written by scans and orders |

### What is hard in it

* An order lives on the exchange while the engine polls it, cancels it, dies or is
  restarted: fills and cancels interleave with every step of a call.
* A request may be lost before or after the exchange acted on it; a retry carries
  the same client order id.
* The state is saved twice per order, before it leaves and after it settled. A crash
  may fall anywhere between; the file may be empty or unreadable afterwards.
* Midnight resets the state while orders rest.
* A hybrid signal sizes its second order from the report of its first.
* The startup reconciliation is a loop of requests that saves only at its end.
* The journal is written by the engine and replayed by the risk guards: an entry
  that is missing is a guard that does not see an order.
* A size is cut by four parts in turn, each with its own idea of price and odds.
* Prices reach a valuation through two caches, one behind the other.
* Files of the research side are written line by line while another process may read
  them; the bot and the rebuild script may work on the same ones; which orders were
  real is found out afterwards, from lines any of which may be missing.

### What makes each component correct

* Engine: an order is on record before it is sent; limits hold whatever fails; what a
  day accumulated is not forgotten; a resting order is not lost; a signal is not
  overfilled; every call ends.
* Guards: no order for a market whose limits the journal says are reached.
* Allocator: the fractions given out respect the caps on a trade, a cycle and an event.
* Valuation: in live mode no price is used that Claude did not give when it must.
* Resolver: every market that settled is eventually recorded, once, with its outcome.
* Scanner and enrichment: a scan keeps its quota, every vertical gets a place, a request
  that fails never leaves part of a batch to be valued, a price is not older than its
  caches allow.
* Policy, allocator, mapper: whatever the models estimate, an order stays within the
  caps and near its fair price, and an event is traded once, as far as the mapper's
  market is of the event the allocator knew.
* Datasets and models: a label is how the market ended or what was filled for real, a
  split follows time, and a model that runs can be traced to its version.

## The modules

| Module | Models |
|---|---|
| `MarketFeed` | the scan, the deltas, the selection and the enrichment, and the record of a scan |
| `TradingCycle` | valuation passes, the cache, the live fail-closed rule |
| `TradeSizing` | candidates, the policy, the allocator, the mapper and the engine's sizing |
| `RiskGuard` | the risk guards, the journal they replay and the execution loop around them |
| `ExecutionEngine` | the engine with the exchange, the files, the clock and crashes around it |
| `OrderLedger` | what the engine promises about its orders, without how |
| `ExecutionLedger` | properties over the engine's history; the refinement to `OrderLedger` |
| `OutcomeBackfill` | the outcome resolver in one or two processes, and the exchange it asks |
| `OrderRecord` | the record of orders, the paper exchange and the engine's calls to both |
| `ResearchPipeline` | composes the two modules above with the dataset build, training and the start of the bot |
| `Lists` | lists sorted and filtered by position, and their sums, for the modules that need them |
| `ExecutionEngineProofs`, `ExecutionLedgerProofs`, `RiskGuardProofs`, `TradeSizingProofs`, `TradingCycleProofs`, `MarketFeedProofs`, `ResearchPipelineProofs` | theorems about the module they are named after, the last one also about `OutcomeBackfill` by itself |
| `ListsProofs` | lemmas on order, filters and sums, cited by the four modules of theorems that need them |
| `MCExecutionEngine`, `MCRiskGuard`, `MCTradingCycle`, `MCTradeSizing`, `MCMarketFeed`, `MCResearchPipeline` | signals, tables, scenarios and symmetry for TLC |
| `MCExecutionModes` | the engine in live and in paper mode over the same files |

The modules of a cycle meet in what one hands to the next. `MarketFeed` ends with the
inputs of a valuation; `TradingCycle` begins with quotes and ends with candidates that
may be traded; `TradeSizing` begins with valuations and ends with orders, its action
`Guard` keeping some of the trades in their order, whichever the guards let through; `RiskGuard` begins with trades
(`Proposals`) and runs each as an intent, an outcome and a report, an error or silence;
`ExecutionEngine` has the steps between an intent and its report. The journal entries of
`RiskGuard` are those that `ExecutionEngine` writes, in the order its `pc` allows. Composing
them into one state space would multiply it without adding a question: each boundary is
a value, passed once per cycle. The research side is different: two processes share
its files, so `ResearchPipeline` does put its parts into one.

### ExecutionEngine

`pc` says where a call is; each value stands for a point of the code at which
something outside the call can happen:

| `pc` | the code has just | next |
|---|---|---|
| `down` | - | `Start` (`main.rs:254`) |
| `idle` | returned to the cycle | `ExecuteSignal`, `Stop` |
| `logged` | journaled the intent | `SavePreSubmit` |
| `saved` | saved the pre-submit state | `PlaceOrder`, `PlaceFailed`, `PlaceLost`, `PlaceDuplicate`, or `PaperFill` |
| `placed` | been acknowledged | `FirstReport`, `QueryError` |
| `poll` | seen an open report | `PollReport`, `QueryError` |
| `cancel`, `recheck` | run out of polls of an IOC order | `CancelOrder`, `RecheckReport` |
| `settle` | a final report in hand | `SettleReport` |
| `reported` | journaled the report | `SaveReport` |
| `fallback` | ended the first leg of a hybrid signal | `ExecuteFallback`, `FallbackRefused` |
| `reconcile`, `rcancel`, `rrecheck` | startup reconciliation | `Reconcile...` |

`mem` is the `RuntimeState` the running call loaded, `disk` the file, `journal` the
trade journal (the events somebody reads: intents, reports, errors), `exch` the
exchange's orders. Every step may be followed by any fill, cancel or tick, by a crash
where crashes are enabled, and, where the code uses `?` on a write, by `IoError`.
`Faults` chooses which faults a run allows, so a property that needs a dependable
exchange says so by its configuration.

Quantities are half contracts (the client rounds to whole ones on submission), prices
cents. The price that is sent is the limit after `normalize_price_cents`: clamped to the
market's range and moved to the nearest tick, which may be up (`NormalizePriceCents`,
`SentPrices`). `Grids` are the ranges and ticks a market may have; with `market_error`
the client could not fetch the market and sends the limit as it is. A report carries the
price of the order as sent, and an order is tracked under the client order id of the
report, which is empty where the exchange leaves it out (`EchoesCids`, `client.rs:314`).
The failure of a placement, and of the first query after it, is journaled as
`order_error` (`LogOrderError`); that of a later query is not. The engine's other checks of a signal read only the signal and the
configuration and happen before any state is touched; `Signals` are signals that
passed them. Only buy orders are modelled: nothing in the pipeline produces a sell.

Bounds, all named in the module: `Cids` (orders ever begun), `MaxTime`
(ticks), and `IdsLeft` (a hybrid signal needs an id for its second leg).

### OrderLedger

Each id is fresh, intended, placed, reported; at most one is active; only the active
one moves; leaving the active state is final. `ExecutionLedger` maps the engine to it:
the stage comes from the journal and the exchange, the active id from `pc` and `call`.
A crash, a lost reply and an error are all `Abandon`.

### RiskGuard

| Action | Code |
|---|---|
| `BeginCycle` | the replay of the journal and the four guards over all the allocator's trades at once (`main.rs:1258`) |
| `SkipTrade` | the mapper or the engine's validation refuses a trade (`main.rs:1375`) |
| `BeginTrade`, `BeginSecondLeg` | the intent of a leg (`engine.rs:129`) |
| `Settle`, `SettleRejected` | the order reaches the exchange and its report is journaled (`engine.rs:217`) |
| `SubmitError` | `submit_with_retries` fails: an `order_error` (`engine.rs:193`) |
| `EndSilently` | a poll fails, an I/O error or a crash: the journal has an intent only |
| `SkipSecondLeg` | the fallback leg is refused before its intent |
| `Rested` | the exchange goes on with an order that rests |

`load_ticker_risk_state_from_journal` is a loop over lines with a map per market; what
it leaves there is stated directly over the journal (`OpenNotional`, `RecentFill`,
`RecentInvalid`, `HasOpenKey`). Each keeps the loop's conditions: a report counts only
if an intent with its id came before it, a fill only if the status is `Filled`, and an
outcome's key is what the last such report made of it. A market without an entry in
the map passes every guard, the cap included (`Known`).

The journal is that of a live bot. A forced bootstrap candidate bypasses the guards
(`main.rs:1258`), but only paper capture makes one (`main.rs:936`), and paper capture
sends no order to the exchange: the bypass is not in the model.

Amounts are notionals in units of the smallest trade. `NoPriceFactor` is how much more
than its notional a NO fill can weigh, because a report carries the YES price. What is
filled on a market is counted unit by unit (`FilledUnits`), which makes `OpenNotional` a
cardinality where the code keeps a running sum.

### TradingCycle

`stage` is where `run_cycle` is: `screen` and `value` are the two valuation passes of
`value_markets_impl`, which looks a chunk up in the cache (`NextChunk`) and has what is
missing valued; `decide` is after the candidates are chosen.

| Action | Code |
|---|---|
| `CycleWithoutMarkets`, `BeginCycle` | scan, selection, enrichment and the first pass (`main.rs:531`, `main.rs:737`) |
| `NextChunk` | the cache lookup (`valuation.rs:290`) |
| `ValueHeuristically`, `ClaudeAnswers`, `ClaudeRetry`, `ClaudeFallsBack` | `infer_batch` (`valuation.rs:488`), `record_batch_mode`, and the write to the cache |
| `ScreeningFinds`, `ScreeningFindsNone` | the trigger `on_heuristic_candidates` (`main.rs:855`) |
| `ChooseCandidates` | the forecast override, `generate_candidates` and the forced test candidate |
| `NoCandidates`, `FailClosed`, `Trade` | the three ways a cycle goes on (`main.rs:958`, `main.rs:1126`) |

A quote is a mid and an ask; the cache key holds the first and not the second. An edge
is one of `strict`, `relaxed` and `none`: above the threshold, above the relaxed one,
above neither. A valuation remembers its cycle and time, which the code does not: they
are there for the properties. A valuation of a specialist sidecar counts as heuristic
in the code and here. Two paths of `run_cycle` are left out because no state reaches
them: `valuation_failed` (`value_markets_impl` turns every error into a fallback) and
`policy_unavailable_active` (the startup gate at `main.rs:215` refuses active mode
without models).

### TradeSizing

One cycle, from its valuations to its orders. `stage` is where `run_cycle` is.

| Action | Code |
|---|---|
| `ChooseCandidates` | `generate_candidates` and the forced test candidate (`valuation.rs:349`, `main.rs:2058`) |
| `DecideNext`, `PolicyUnavailable` | a decision per market: the grid of limits, the score of each, the vetoes (`policy/decision.rs`) |
| `StartAllocation`, `SkipTakenEvent`, `SkipSmall`, `Allocate`, `AllocationOver` | the allocator's sort, truncation and loop (`model/allocator.rs`) |
| `BootstrapAllocation` | the research bootstrap, which goes around the allocator |
| `Guard` | the risk guards and, in active mode, the scaling by the decision (`main.rs:1258`) |
| `PlaceNext`, `RefuseNext` | the mapper, the engine's sizing and its checks |

Prices, probabilities and fractions are integers in thousandths; a Kelly share is the
code's formula with the division at the end. The forecast of the policy is the one the
candidate was made from, unless the candidate was forced or its market is excluded from
the override (`Forecasts`). Lists that the code sorts are any list in which no element
comes before one that the code's comparison puts ahead of it (`Descending`), so ties
are broken in every way. Under the hybrid policy `PlaceNext` sends the IOC leg of
`execute_signal` and, of any part of it filled, the second leg for the rest
(`HybridOrders`): each leg meets the quantity bounds, the cap and the bankroll by itself,
so the first may pass where the whole would not. Under IOC and GTC there is one order
(`WholeOrder`). `setting.hybrid` says which, for a behaviour. What the execution model predicts is any of `Estimates`: the
arithmetic of the buckets could give any of them. A name resolves to an alias, to
itself, or to whatever a search over open markets may find, nothing included.

### MarketFeed

| Action | Code |
|---|---|
| `FetchPage`, `FetchFails`, `DiscoverSeries`, `EndScan` | the two tiers of the scan, paged, with a budget per series (`market_scanner.rs:220`) |
| `Subscribe`, `HearDelta`, `StopListening`, `SocketFails` | the websocket window (`ws_delta.rs`), its deltas applied at the end |
| `SelectMarkets` | the filters, the cap per event and the round-robin over verticals, twice: for valuation and for enrichment (`RoundRobin` gives each market its turn in its vertical, and orders by turn, then vertical) |
| `UseCached`, `EnrichMarket`, `FetchNoaaFails`, `EndEnrichment` | `enrich_batch`, market after market, with its two caches |
| `EndFeed` | the record of the scan, which may break off, and the hand-over |

A quote carries the time it was seen, an enriched market the time its price was seen
and the time it was used. Those times, like the `at` of a valuation, are history for
the properties. What a feed says is left out; that it says nothing is not. A filter and a
sort pick positions of a list (`At`, `Sorted`); the deltas of a window are applied all at
once (`Applied`), each field taking its last message, as the code's loop over them does.

### OutcomeBackfill

A backfill reads the candidates and the file once, asks for each ticker in order
(`FetchOutcome`, `FetchFails`), skips those the retry limit leaves out, and appends at the
end (`AppendOutcomes`). A kill loses what was not appended, or leaves a prefix of it
(`BackfillDies`). The file is kept per ticker as its two readers see it: the datasets take
the last record, the skip asks whether any record settles the ticker. Market answers
follow what the parser tells apart, including an empty result before and after
settlement, and a canceled market that carries a value.

### OrderRecord and ResearchPipeline

`OrderRecord` has the engine's call in coarser steps than `ExecutionEngine`, because here
only the lines it writes matter: which line each step writes, under which mode, and
that any line may be lost. An error of the journal or the state file inside a call ends
it as a crash does, so far as the record shows; a rejected order is a canceled one with
nothing filled. The paper exchange is modelled as its code is: a fill decided at
placement, latency, one partial report, and a cancel that forgets the fill.

`ResearchPipeline` adds what reads those lines: the build (`StartBuild`, `WritePart`,
`WriteJsonlDataset`: everything is read first, then each file is truncated and written
row by row), training (`StartTraining`, `WriteArtifact` with the order of its writes), and
the start of the bot with its gate (`StartBot`). The bot's tasks and the jobs of
`rebuild_models.sh` interleave; either may be killed anywhere. All orders are for YES on
the first ticker. A line about a report has the time of the report, which after a failing
query is older than the line (`Reported`, `order_recorder.rs:93`). The execution training
reads the rows of its supplemental files (`Supplement`) along with the dataset's, or alone
while there is no dataset (`LoadedRows`). Rows are put in order of time with ties left open (`InTime`), since the
files of a directory are read in whatever order it lists them.

## The runs

| Run | Question | Bounds |
|---|---|---|
| `execution_safety` | do file, journal and exchange agree across crashes and a midnight, and does the recorded exposure stay bounded? | 3 orders, yes and no, a market with 30-cent steps, 3 ticks, 2-tick days, 1 retry, 1 poll |
| `execution_tracking` | is a reported resting order ever lost by answers that fail? | 3 orders, 2 polls, 2 ticks |
| `execution_modes` | with a dependable exchange, does IOC end and hybrid not overfill? Does the bound on exposure hold when some orders are filled on paper? | 4 orders, 2 polls, odd quantities, asks that the limit crosses or not, in live and in paper mode |
| `execution_contract` | does the engine implement `OrderLedger` under every fault, and do calls end? | 2 orders, 2 polls, an exchange that takes an id twice |
| `guard_safety` | do the cap, the cooldowns and the open-order guard hold across cycles? | 1 market, 3 orders, 2 ticks, a cap of one trade |
| `cycle_safety` | does a live cycle keep its own heuristics, expired entries and other mids out of its trades? | 2 markets, 2 mids, 2 cycles, 1 retry, 3 ticks |
| `cycle_cached` | does a live cycle never trade a heuristic valuation? It does | violated |
| `sizing_safety` | do the caps, the price and one trade per event survive the policy, the allocator, the mapper and the engine in turn, with whole and with hybrid orders? | 3 markets, 2 events, 5 valuations, up to 3 at once, 2 books, 3 estimates, an IOC leg that fills not at all or for the most part |
| `feed_safety` | how old are prices and quotes, who gets a place, and is a batch ever valued in part? | 5 markets in 3 series, 2 trading cycles or 1 capture cycle, 4 ticks, 2 messages |
| `backfill_liveness` | does every traded market get its outcome in the end? | 2 tickers, 1 retry a run, 2 kills |
| `research_pipeline` | are labels, splits, sources, fills and models what they claim to be? | 4 scenarios, see below |
| `active_gate` | does evidence open the gate for active mode? It does not | violated |

Two or three orders are enough for what can go wrong between orders: the engine works
on one at a time, an earlier one may rest, be tracked or be unknown while a later one
is placed, and a hybrid signal is two. One midnight separates an old from a new day.
One retry and one or two polls exercise both ends of each loop. The files have the same names
in live and in paper mode (`main.rs:1642`), so a restart in the other mode goes on with them:
`execution_modes` lets the mode change at any step, which includes that. In steps of 30 cents a
limit of 50 goes out as 60, and one of 40 on NO as 30, reported at a YES price of 70: the
price moves both ways. Most markets take any cent, which the other runs have. The guards treat
markets independently, so one market shows all they do; three orders are a signal of
two legs and a later one. A valuation matters in the cycle that made it and in a later
one, so two cycles are enough; the trigger, the mode and a cache that outlives several
cycles are those of `scripts/trade.sh` (60-second cycles, an expiry of 600 seconds); two
markets in batches of one make a pass in which Claude answers for one and fails for the
other. The model of a valuation pass has no fault to switch: a Claude call may always
answer, be retried or fall back.

`sizing_safety`: two of the markets share an event, one market has two valuations that
favour opposite outcomes, a book is wide and one lacks a bid; a search of the mapper may
end at a market of either event. The caps are such
that the cycle's binds before two trades are through, and the engine's binds for some.

`feed_safety`: a weather market, two markets of one coin, a market that names two
verticals and a sports market, more of them than places. Both expiries are two ticks,
so a price can be reused at both levels within the run; the second cycle finds what the
first left in the caches. Only one market is named by messages, twice: a later
message for it is what an earlier one borrows from.

`research_pipeline` takes one of four scenarios per behaviour, as all of them at once
would be too many states: `Labels` (two backfills at once while two markets
settle), `Datasets` (quotes, builds, a training and a kill while a market settles),
`Fills` (one order under each way of starting the bot, with a line lost and a process
killed), `Gate` (an order of an earlier run, quotes, outcomes and both models, and an
attempt to start in active mode; `active_gate` has this one alone, with the order filled and
its quote gone up). One build runs at a time. Half of the rows train and a
quarter validate, instead of 70 and 15 percent, so that files of two rows have a split
to get wrong. The run does not check for deadlock: a bound reached is a stop.

### What the code does not do

Some statements of the repository's text go further than its code. Two have a run; the
others can be read off a model in a few steps.

* `cycle_cached`: Claude fails in the second pass, the cycle aborts as it must
  (`main.rs:1126`), but the fallback's valuations are in the cache. In the next cycle
  every market is a hit, nothing is recorded in the summary, and the same heuristic
  valuation is traded live.
* `scripts/trade.sh:80` calls the exposure limit a "hard cap on total live exposure". An
  IOC order fills in part and is canceled; its report is `Canceled`, for which
  `finalize_state_from_report` (`engine.rs:447`) adds nothing to the exposure whatever
  `filled_qty` says. The next order is admitted against an exposure of zero. What holds
  is a bound on what is recorded.
* `engine.rs:661` says prior-day positions have all resolved. A GTC order placed before
  midnight still rests when the first load of the new day clears the tracking.
* A GTC order is reported open, its key enters `open_order_keys` (`main.rs:1960`), and
  only a later report for the same outcome would remove it. The key itself prevents
  that report, and the startup reconciliation writes `reconcile_order`, which the replay
  does not read. The outcome is refused "due to existing open order" (`main.rs:1299`)
  for good.
* `valuation.rs:373` says the actual ask and bid are used. The cache key has no quote
  (`valuation.rs:692`): a hit brings the ask of the cycle that made it.
* `active_gate`: the repository's `README.md:107` and `520-524` describe a gate for active
  mode that opens with enough live-real rows and a mean `markout_5m_bps` of zero or more;
  two tests open it (`main.rs:2377`, `main.rs:2471`), with a file they write themselves.
  The gate reads `markout_5m_bps` (`main.rs:399`); the builder writes
  `label_markout_bps_5m` (`builder.rs:82`, `builder.rs:317`). TLC finds a start that is
  refused with models that fit and a file whose only row is live-real, filled, and up
  (`GateOpensOnEvidence`). With a minimum above zero the gate never opens; paper capture
  goes around it.
* `compute_position_size` (`engine.rs:313`) caps a size at `max_market_notional` at the
  observed price; the check after it uses the limit, a cent higher. Under IOC and GTC a
  capped order is refused, not shrunk. The hybrid policy splits the size before the check
  (`engine.rs:91`), so there the same stake goes out in two legs. No order reaches the cap
  (`OrdersBelowCap`); a signal may.
* `README.md:223` of the repository speaks of "one trade per event root". The mutex of the
  allocator knows the candidates' tickers. The mapper then resolves each to a market by
  itself (`kalshi_mapper.rs:32`), and a search may end in another event, or two searches in
  one market. Nothing looks at the event of the market ordered, so `OneOrderPerEvent`
  is about orders whose market is of their name's event; without that condition TLC finds
  two orders on one event.
* Two backfills at once can put a record without outcome behind a settling one; the
  ticker then counts as settled, and its label is lost, though never wrong
  (`NullIsRefetched` excepts this case, `LearnsTrueOutcomes` does not).
* `guard_safety` leaves the fault `cancel_lost` out. With it TLC finds
  `ReportedOrdersBlock` violated: the first leg of a hybrid signal still rests, the
  second leg's report removes the key of the outcome, and a new trade begins there.
* The startup reconciliation (`engine.rs:274`) drops an order that filled while the bot was
  down from the tracking, and adds its fill to nothing: the exposure in the file is then
  below what was filled. `ExposureNeverOverstated` is the side that holds.
* With `query_error` or `cancel_lost`, `IocNeverRests` and `HybridNeverOverfills` are
  violated: the cancel is ignored if it fails, and the report after it falls back to the one
  before (`engine.rs:514`), from which the second leg is sized.
* A cancel of the paper exchange forgets what the order had filled (`paper_sim.rs:100`), so
  its rows may understate fills; `FillsNotOverstated` is the side that holds.
* A market that never gets a result, or one whose settlement value is neither 0 nor 1
  and whose result names no side (`resolver.rs:354`), uses the retry limit up in every run and starves those after it.

## Fairness

`execution_contract` assumes weak fairness of the engine's own steps and of its start.
It stands for requests being answered or failing. The HTTP client is built without a
timeout (`execution/client.rs:49`), so the code does not ensure it; what the run shows
is that the engine's own loops are bounded. Fills, ticks, crashes and new signals are
not fair.

`backfill_liveness` assumes that the trading loop comes back to its backfill (`main` loops
for ever, `main.rs:542`) and finishes it, that the exchange gives every market a result
in the end, and that it does not refuse the request for a ticker for ever: strong fairness
of that request, for the backfill between two of its visits is not at that ticker. With a retry
limit the second assumption is needed: a market that never gets a result would use the
limit up in every run, before the ones that follow it (`resolver.rs:87`).

## What is proved

For every value of the constants that satisfies the assumptions named. All of the
invariants that the passing runs check are theorems.

| Module | Theorem | States | Assumes, beside the module's assumption |
|---|---|---|---|
| `ExecutionEngineProofs` | `TypeCorrect` | the types of the engine | - |
| | `ExposureBounded` | recorded exposure stays within the limit and the overshoot | `OvershootAssumption` |
| `ExecutionLedgerProofs` | `LedgerImplemented` | every step of the engine is a step of `OrderLedger` or none | - |
| | `IntentFirst` | an order on the exchange is on record | - |
| | `TrackedSound` | what is tracked was placed and found open | - |
| | `ExposureTrue` | recorded exposure is never more than what was filled | - |
| | `DayAccumulates` | within a day the file forgets nothing | no `state_lost` |
| | `RateLimited` | no more orders in a window than the kill switch allows | no `state_lost` |
| | `RestingTracked` | a reported order that rests is tracked | no `crash`, `state_lost`, `io_error`; an exchange that takes an id once |
| | `IocEnds` | an IOC order ends with its call | no fault but `place_failed` |
| | `HybridFits` | two legs never fill more than their signal | `Answered`: no request or cancel goes unanswered |
| `RiskGuardProofs` | `GuardTypeCorrect` | the types of the guards | - |
| | `CooldownsHold` | no trade begins within a cooldown | - |
| | `NotionalStaysCapped` | recorded fills stay within the cap and one cycle's trades | - |
| | `RestingOrdersBlock` | a reported order that rests bars its outcome | no `cancel_lost` |
| `TradeSizingProofs` | `SizingTypeCorrect` | the ranges of prices, fractions and orders | - |
| | `StakeStaysCapped` | a cycle stakes no more than the allocator's and the engine's shares allow | - |
| | `OneMarketPerEvent` | with the mutex, one order per event, among orders within their name's event | - |
| | `LimitNearFair` | a limit is less than a cent above the fair price | - |
| | `CapNeverPlaced` | no order, whole or a leg, reaches the market's cap | - |
| `TradingCycleProofs` | `CycleTypeCorrect` | the types of a cycle, one valuation per cache key | - |
| | `HeuristicsNotTraded` | a live cycle trades none of its own heuristic valuations | - |
| | `TradesCurrent` | trades rest on the mid of the cycle, not expired when it began | - |
| `MarketFeedProofs` | `FeedTypeCorrect` | the types of the feed | - |
| | `SignalAge` | a price is no older than two expiries | - |
| | `QuotaHolds` | only allowlisted series take a scan past its quota | - |
| | `Lookahead` | a recorded quote is never from after its date, but for what a window lends | - |
| | `VerticalsGetPlaces` | every vertical with a market left gets a place | - |
| | `WholeBatch` | a batch is valued whole, as this cycle enriched it, or not at all | - |
| `ResearchPipelineProofs` | `BackfillTypeCorrect`, `PipelineTypeCorrect` | the types of the backfill alone, and of the whole | - |
| | `NullRecordsRefetched`, `PipelineRefetchesNull` | a last record without outcome is asked for again, alone and inside the whole | - |
| | `LabelsAreOutcomes` | a forecast learns how markets ended | - |
| | `SplitsInOrder` | rows that train are not the later ones | - |
| | `LiveRowsAreReal` | a live row with a fill is of an order at the exchange | - |
| | `FillsAreTotals` | a row gives no more as filled than was | - |
| | `ModelsAreArchived` | a model that runs has its file in the archive | - |

TLC evaluates every assumption in the runs of its module. `OvershootAssumption` says only
that `Overshoot` is large enough for the signals and the markets' price grids: the count is
rounded up, the price is moved to the grid, if need be upwards, and a NO order is valued
at its YES price. Each of these happens after the kill switch looked. `CycleAssumption` takes the set of
markets to be finite, `GuardAssumption` asks for a largest notional. Where a theorem
leaves faults out, the run that checks the property leaves them out as well; a theorem
without a condition on `Faults` holds under all of them together, also where its run
has only some.

### The engine

*Exposure.* The bound on `disk.exposure` is not inductive. A report is added to an
exposure that was checked several steps earlier, for an order that then spent those
steps on the exchange. `ExposureInv` carries the check through the call: while a call
runs, `mem.exposure` plus the call's full notional is within the limit
(`CheckedInFull`); the order on the exchange has the count of the call and one of the prices it may be
sent at (`PlacedAsCalled`); a fill is within the count (`FillsWithinCount`); so any report is
within the call's notional plus the overshoot (`ReportWithinCall`). TLC checked
`ExposureInv` on the instances of the runs before it was proved.

*History.* Everything else about the engine rests on `HistoryInv`: an id is intended
once, only intended ids are placed or reported, the call under way is intended and not
reported yet, `oid` is the order of the call, and what is tracked was found open. To
prove the later invariants without going through some thirty actions each time, the
steps are first sorted into six kinds by what they do to the two states and the journal
(`Begins`, `Continues`, `Returns`, `Saves`, `Settles`, `Loses`).

*Memory and file.* Two saves, and a crash between them, are covered by one invariant:
memory is never behind the file (`MemoryAhead`), so a save within a day only adds. That
gives `DayAccumulates`, and with `RecordedInv` (an intent that was sent is in the file of
its day, one about to be sent is in memory) `IntentFirst`. `RateInv` counts, for each
order sent, those sent in the window before it on the same day: all of them are among the
recent orders that the kill switch counted.

*Orders that rest.* `TrackInv` follows an order from its report to the file: the state
that will be in the file next tracks it, memory while a report waits to be saved and the
file otherwise; a report that is kept says "open" of an order that rests; the startup
loop keeps or still has to ask about each. `IocInv` says that an IOC order rests only
where its call is still to poll or cancel it.

*What was filled.* `ExposureTrue` compares a number in a file with a sum over the
exchange. `Worth` values the orders of a day that the journal reports, and `CountedInv`
bounds both states by its total. When a report is settled, one entry of the list that was
zero becomes what the order has filled (`ListsProofs` has the sum of a list that
changes in one place); a fill, or a step to another day, can only raise it.

*Two legs.* `LegsInv` needs that the first leg is dead when the second is sized. It is,
because a hybrid's first leg is IOC, from its final report on it is `Frozen`, and
what it filled and the quantity of the second are within the signal even after the
client rounds both to whole contracts. The rounding is why fills are even in half
contracts (`FillsEven`), without which the last step fails by one.

*Refinement.* `Stage` and `Active` are the mapping of `ExecutionLedger`. A step that
adds no intent, order or report changes no stage (`StageKept`); the others are `Intend`,
`Place` and `Settle` of the ledger (`BeginLedger`, `PlaceLedger`, `SettleLedger`), and what
ends a call otherwise is `Abandon` or a stutter.

### The guards and the sizes

*Guards.* The guards look once, when a cycle begins, and orders go out one after
another. `CoolInv` and `BlockInv` say that what was seen stays true of every trade still
in the queue: the journal's times are ordered, and a cycle's own orders are for other
markets or outcomes than what waits. `CapInv` has the sum: what waits fits under the cap,
and what is left of the trade under way fits even at the price at which a NO fill is
reported. Each step is an admission, the beginning or the end of a call, or a quiet one.

*Sizes.* `BudgetInv` says that the fractions given so far and what is left of the
allocator's share are together no more than the share, and later that what is staked and
what waits is within it. `MutexInv` separates the events of the trades given, those
already ordered and those the allocator has noted, each by the candidate's name. `OrdersSound` follows from the
arithmetic of the clamps and of the split alone: each leg meets the check at the limit, which is a
cent above the price of its size (`Sound`). `CapNeverPlaced` excepts a price of zero, which
the code sizes at the cent it also bids, and prices so near to one that no cent can be added.

### The cycle and the feed

*Trading cycle.* `CycleInv` says how a heuristic valuation is accounted for wherever it
sits. One made in this cycle has left its mark in the summary, in the pass
(`HeuristicsRecorded`) and in the cache (`CacheSound`), so the fail-closed rule sees it. The
one exception is a cycle that goes on with its screening pass: it skips the rule, and
`UnaskedDull` says that nothing it valued can become a candidate, because
`CandidatesOf` found none (`NoCandidateAllDull`, where the count of candidates needs the
sets to be finite). `Current` carries the age of a valuation from the lookup, where the
expiry is checked, to the trade.

*Prices.* `AgeInv` dates what is in the price cache, in the enrichment cache and in the
enriched markets; a price enters the second at most one expiry old and leaves it
at most another expiry later.

*Scan.* `ScanInv` says where the markets of a scan come from: tier 1 adds markets of
allowlisted series only; in tier 2 what is seen and the pages that are in fit the quota
together, because each page is cut to what is left.

*Quotes.* `HeardAges` puts a scan in order: what is seen was quoted before any
message; what a message says is no later than itself; and what the deltas make of a
snapshot is within one window after any of them, because the socket has a deadline.

*Batches.* `BatchInv` says that nothing is handed on before the cycle ends, that a cycle is
`valued` only after every market to be enriched was, and that the selection kept to the
limit of the valuation. No market is enriched twice, so what the hand-over finds under a
ticker is what this cycle enriched (`FoundEnrichment`).

*Places.* `VerticalsGetPlaces` is a counting argument. In `RoundRobin` a market's turn is
the number of markets of its vertical before it; markets of one vertical have different
turns, so turns and verticals order a list strictly (`TurnsOrder`), every market has a
rank, and the first of a vertical is outranked only by first ones of other verticals.
There are fewer of those than places. The lemmas on `Sorted` (a strict order of a finite
set ranks it without gaps) carry this through both selections.

### The backfill

`BackfillInv` says that, while backfills have not overlapped, what a running
one read of the file is still true of it (`ResolvedIsCurrent`), and that it holds no new
record of a ticker the file already settles (`NewUnresolved`); an append then keeps
the last record of a settled ticker a settling one.

### The pipeline

`PipelineInv` has a part for each stage between an answer or a fill and the bot. The
parts are about single lines, records and rows, and each says of what is kept there what
a later stage will rely on; so the proof never has to look back.

*Labels.* A record, in the file or in the memory of a backfill, that calls a market
resolved and gives it an outcome gives it the one the exchange settled it with
(`LabelsInv`); an answer with an outcome never changes again (`AnswersFinal`), so that
this holds of the rows of a build, of the files, of the rows a training has read, of the
stored model and of the bot's, however long ago each was made.

*Fills.* `OrderSound` says of every line of an order that it reports no more than the
order has filled by now, and shows the venue if it reports a fill; and that an order that
is not at the exchange has filled nothing before it is sent. An order keeps its venue and
its fills only grow (`OrdersGrow`). What a row takes from the lines (the last with a
status, any with a fill, any with the name of a venue) then holds of the order, and
any line may be missing.

*Files.* `FileSound` is true of a list of rows and of any part of it, so a file cut off
by a kill, the live-real rows and the rows that train all inherit it. That a row that
trains is not the later one needs of the sort only that it is by time, not what it does
with equal times.

*Models.* A training writes in the order of `ArtifactSteps`; once the first write is done
the version is in the archive (`ModelsInv`), and nothing names it before.

### Induction

The library's induction theorems have an operator for a parameter, which the installed
provers cannot instantiate. `ListsProofs` goes around this where it can: a set of
numbers that holds zero and every successor is all of them, which follows from the least
number of its complement. So the running total of a list, a function of the number of
elements added, is proved to exist and to be unique, and with it all that is said above
of sums.

### Only model-checked

* Liveness (`CallsEnd`, `EveryTradedMarketResolved`): it needs fairness, which is stated
  with `ENABLED`, and none of the installed provers reasons about that.

## What is left

| Module | What it is to add |
|---|---|
| two engines over one state file | `trade.sh` and `collect.sh` lock different files, so nothing keeps their engines apart; the model has one |

## What is not modelled, and why

* The arithmetic of the models (`models/execution.rs`, `models/forecast.rs`), feature vectors
  (`features/`) and position sizes in floating point: `TradeSizing` takes any estimate
  and has thousandths. What rows they learn from and when they load is in `ResearchPipeline`.
* What an external feed or a sidecar says: a number that reaches a valuation. Whether it
  answers, and how long its answer lives, is in `MarketFeed`.
* How text is scored against market titles (`markets/kalshi_mapper.rs`): the
  outcome of the search is a choice.
* In the datasets: the bootstrap and organic files, the execution context and the
  realized profit. Nothing reads them but people.
* Reports, cycle artifacts, the replay of a journal into statistics: printing.
* Request signing, JSON and the refusal of markets that are not binary (a placement that fails
  like any other): conversions no property tells apart.
* Selling: nothing in the pipeline produces a sell.
* The adaptive thresholds of the valuation: an edge is strict, relaxed or none, and
  which of them is a choice.
* The scripts: they set the environment. `scripts/trade.sh` exports
  `BOT_VALUATION_CACHE_TTL_SECS`, which no Rust source reads; the cache uses the
  expiry of `model/valuation.rs:66`.
* `scan_failed` in `TradingCycle` has no counterpart in `MarketFeed`: `scan_snapshot` turns
  every error into fewer markets.
