----------------------------- MODULE TradeSizing -----------------------------
(***************************************************************************)
(* From valuations to sized orders, within one cycle: the candidates       *)
(* (src/model/valuation.rs), the policy's decision about each              *)
(* (src/policy/decision.rs), their ranking (run_cycle in src/main.rs), the *)
(* allocator (src/model/allocator.rs), the market mapper                   *)
(* (src/markets/kalshi_mapper.rs) and the engine's own sizing and checks   *)
(* (src/execution/engine.rs).                                              *)
(*                                                                         *)
(* Prices, probabilities and fractions are in thousandths, rounded down:   *)
(* a cent is ten of them.  What the execution model estimates is           *)
(* arbitrary.  TradingCycle has how valuations are made, RiskGuard what    *)
(* the guards refuse, ExecutionEngine what becomes of an order.            *)
(***************************************************************************)
EXTENDS Integers, Sequences, FiniteSets, SequencesExt, FiniteSetsExt, Lists

CONSTANTS
  Tickers, Events,
  EventOf,            \* event_key_from_ticker
  Valuations,         \* what a cycle may have come to think of a market
  Books,              \* the quotes a market may have when the policy looks
  Estimates,          \* what the execution model may predict of an action
  PolicyModes,        \* BOT_POLICY_MODE
  MinEdge, Cost,      \* the lowest threshold of a candidate; fees and slippage
  MinPnl, VetoThreshold, MaxActions,                     \* PolicyConfig
  MaxTrades, MaxFraction, MaxTotal, MinFraction, EnforceMutex, \* AllocationConfig
  MaxBankrollFraction, MaxMarketNotional, MinSignalEdge, \* EngineConfig
  MinQuantity, MaxQuantity, \* and its order quantities, in contracts for a bankroll of a thousand
  HybridIocFraction,        \* ... the part of a hybrid signal that its IOC leg asks for
  FillParts,          \* how much of an IOC leg may fill, in thousandths
  ForceTestCandidate, \* BOT_FORCE_TEST_CANDIDATE
  PaperCapture,       \* paper mode with BOT_RUN_RESEARCH_PAPER_CAPTURE_ONLY
  Excluded,           \* the markets of BOT_FORECAST_SERIES_EXCLUSIONS
  Allowlisted,        \* the markets of BOT_EXECUTION_SERIES_ALLOWLIST
  Aliases,            \* KALSHI_MARKET_ALIASES: a ticker for some names
  TickerLike,         \* names that look like tickers
  BestEffort,         \* a paper mode that goes on with an unresolved name
  MaxCandidates,      \* bound of the model: valuations of a cycle
  Nil

One  == 1000
Tick == 10

Clamp(x, lo, hi) == IF x < lo THEN lo ELSE IF x > hi THEN hi ELSE x
Lesser(a, b)     == IF a < b THEN a ELSE b
Greater(a, b)    == IF a < b THEN b ELSE a

Inside   == Tick..(One - Tick)
Markouts == (0 - One)..One
Outcomes == {"yes", "no"}
Book     == [bid : 0..One \cup {Nil}, ask : 0..One \cup {Nil}]

Valuation == [ticker : Tickers, book : Book, mid : 0..One, fair : 0..One, conf : 0..One]
Estimate  == [fill : 1..One, price : 1..One, markout : Markouts]
Candidate == [ticker : Tickers, outcome : Outcomes, fair : Inside, observed : 0..One,
              edge : Int, conf : 0..One]
Decision  == [trade : BOOLEAN, limit : 0..One, size : 0..One, pnl : Int, fill : 1..One,
              fair : Inside, markout : Markouts]

\* PolicyConfig::from_env, the allocator's and the engine's: what is clamped where.
ASSUME SizingAssumption ==
  /\ EventOf \in [Tickers -> Events]
  /\ Valuations \subseteq Valuation /\ Books \subseteq Book /\ Estimates \subseteq Estimate
  /\ PolicyModes \subseteq {"Legacy", "Shadow", "Active"}
  /\ MinEdge \in 0..One /\ Cost \in Nat
  /\ MinPnl \in Int /\ VetoThreshold \in Int /\ MaxActions \in Nat \ {0}
  /\ MaxTrades \in Nat /\ MaxFraction \in 0..One /\ MaxTotal \in 0..One
  /\ MinFraction \in 0..One /\ EnforceMutex \in BOOLEAN
  /\ MaxBankrollFraction \in 0..One /\ MaxMarketNotional \in Nat /\ MinSignalEdge \in 0..One
  /\ MinQuantity \in Nat /\ MaxQuantity \in Nat /\ HybridIocFraction \in 0..One
  /\ FillParts \subseteq 0..One
  /\ ForceTestCandidate \in BOOLEAN /\ PaperCapture \in BOOLEAN /\ BestEffort \in BOOLEAN
  /\ Excluded \subseteq Tickers /\ Allowlisted \subseteq Tickers /\ TickerLike \subseteq Tickers
  /\ DOMAIN Aliases \subseteq Tickers /\ Aliases \in [DOMAIN Aliases -> Tickers]
  /\ MaxCandidates \in Nat /\ Nil \notin Int /\ Nil \notin Tickers

VARIABLES
  setting,    \* the policy mode, whether both models were loaded, and whether
              \* the engine's execution policy is hybrid
  stage,      \* where the cycle is
  candidates,
  forced,     \* used_forced_bootstrap_candidate
  decisions,  \* policy_decisions_by_key
  queue,      \* the allocator's candidates still to come
  left,       \* remaining_cycle_fraction
  seen,       \* seen_event_keys
  trades,     \* AllocatedTrades still to be executed
  orders      \* the signals this cycle has placed orders for

vars == <<setting, stage, candidates, forced, decisions, queue, left, seen, trades, orders>>

Active == setting.policy = "Active"

------------------------------------------------------------------------------
\* A mutant: how far the two prices lie apart, whichever is the greater.
KellyOfDistance(fair, observed) ==
  LET p == Clamp(fair, Tick, One - Tick)
      d == IF p < observed THEN observed - p ELSE p - observed
  IN (d * One) \div Greater(One - observed, Tick)

\* approximate_kelly_fraction, of the allocator and of the engine: p - q / b for
\* the odds b = (One - observed) / observed.
Kelly(fair, observed) ==
  LET p    == Clamp(fair, Tick, One - Tick)
      gain == Greater(One - observed, Tick)
      cost == Greater(observed, Tick)
  IN Greater(0, (p * gain - (One - p) * cost) \div gain)

\* generate_candidates_with_threshold: a market near certainty has no candidate.
Converged(v) ==
  \/ v.book.bid # Nil /\ v.book.bid >= 900
  \/ v.book.ask # Nil /\ v.book.ask <= 100
  \/ v.mid >= 900 \/ v.mid <= 100

\* The better of buying YES at its ask and NO at what the YES bid leaves.
SideOf(v, outcome, fair, ask) ==
  [ticker |-> v.ticker, outcome |-> outcome, fair |-> Clamp(fair, Tick, One - Tick),
   observed |-> Clamp(ask, Tick, One - Tick), edge |-> fair - ask - Cost, conf |-> v.conf]

CandidateOf(v) ==
  LET yesAsk == IF v.book.ask = Nil THEN v.mid ELSE v.book.ask
      noAsk  == One - (IF v.book.bid = Nil THEN v.mid ELSE v.book.bid)
  IN IF v.fair - yesAsk >= (One - v.fair) - noAsk
     THEN SideOf(v, "yes", v.fair, yesAsk) ELSE SideOf(v, "no", One - v.fair, noAsk)

\* build_forced_test_candidate, from the first valuation: its mid and three cents.
ForcedCandidate(v) ==
  LET yes      == Clamp(v.mid, Tick, One - Tick)
      outcome  == IF yes <= 950 THEN "yes" ELSE "no"
      observed == IF yes <= 950 THEN yes ELSE Clamp(One - yes, Tick, One - Tick)
      fair     == Clamp(observed + 3 * Tick, Tick, One - Tick)
  IN [ticker |-> v.ticker, outcome |-> outcome, fair |-> fair, observed |-> observed,
      edge |-> Greater(fair - observed, Tick), conf |-> 700]

\* The ways to list the elements of S in descending order of their score.
Descending(S, score) ==
  {s \in UNION {Bijection(1..n, S) : n \in 0..MaxCandidates} :
     \A i, j \in DOMAIN s : i < j => score[s[i]] >= score[s[j]]}

Views == UNION {kSubset(n, Valuations) : n \in 1..Lesser(MaxCandidates, Cardinality(Valuations))}

NoDecisions == [k \in {} |-> Nil]

\* run_cycle returns: its locals are gone.
EndCycle ==
  /\ stage' = "idle" /\ candidates' = <<>> /\ forced' = FALSE /\ decisions' = NoDecisions
  /\ queue' = <<>> /\ left' = MaxTotal /\ seen' = {} /\ trades' = <<>> /\ orders' = <<>>
  /\ UNCHANGED setting

\* generate_candidates, and what run_cycle does when there are none.
ChooseCandidates ==
  /\ stage = "idle"
  /\ \E vs \in Views :
       LET found == {CandidateOf(v) : v \in {w \in vs : ~Converged(w)}}
           good  == {c \in found : c.edge >= MinEdge}
       IN \/ /\ good # {} /\ candidates' \in Descending(good, [c \in good |-> c.edge])
             /\ forced' = FALSE
          \/ /\ good = {} /\ ForceTestCandidate
             /\ candidates' \in {<<ForcedCandidate(v)>> : v \in vs}
             /\ forced' = PaperCapture
  /\ stage' = "decide"
  /\ UNCHANGED <<setting, decisions, queue, left, seen, trades, orders>>

------------------------------------------------------------------------------
\* spread_cents: none without two quotes, none for a crossed book.
Spread(b) == IF b.bid = Nil \/ b.ask = Nil \/ b.ask < b.bid THEN Nil ELSE b.ask - b.bid

\* build_action_grid: the limits tried.  The second is the YES ask, for NO too.
ActionGrid(c, b) ==
  LET s    == Spread(b)
      wide == <<c.observed,
                IF b.ask = Nil THEN c.observed ELSE b.ask,
                Clamp(c.observed - (IF s = Nil THEN Tick ELSE s \div 2), Tick, One - Tick),
                Clamp(c.observed + (IF s = Nil THEN Tick ELSE s \div 4), Tick, One - Tick)>>
  IN SubSeq(wide, 1, Lesser(MaxActions, Len(wide)))

\* expected_realized_pnl, as a fraction of the price.
Pnl(fair, e) ==
  (e.fill * (((fair - e.price) * One + e.markout * e.price) \div Greater(e.price, Tick))) \div One

\* score_action: of an action at a limit, for a forecast f and an estimate e.
Score(f, limit, e) ==
  LET pnl   == Pnl(f.fair, e)
      trade == e.markout >= VetoThreshold /\ pnl >= MinPnl
  IN [trade |-> trade, limit |-> limit, pnl |-> pnl, fill |-> e.fill, fair |-> f.fair,
      markout |-> e.markout,
      size |-> IF trade THEN Clamp((e.fill * f.conf) \div One, 100, One) ELSE 0]

\* decide_shadow_policy: the first of the actions with the highest value, a vetoed
\* one among them.
Decide(c, f, b, es) ==
  LET grid == ActionGrid(c, b)
      d    == [i \in DOMAIN grid |-> Score(f, grid[i], es[i])]
      best == {i \in DOMAIN grid : \A j \in DOMAIN grid : d[i].pnl >= d[j].pnl}
  IN d[Min(best)]

\* A candidate was made from its market's forecast, unless it was forced, or the
\* market is excluded from the forecast's override of valuations (it is not from
\* the policy): then the forecast may be any.
Forecasts(c) ==
  {[fair |-> c.fair, conf |-> c.conf]} \cup
    {[fair |-> Clamp(IF c.outcome = "yes" THEN v.fair ELSE One - v.fair, Tick, One - Tick),
      conf |-> v.conf] :
       v \in {w \in Valuations : w.ticker = c.ticker /\ (ForceTestCandidate \/ c.ticker \in Excluded)}}

DecisionsOn(c) ==
  {Decide(c, f, b, es) : f \in Forecasts(c), b \in Books,
                         es \in [1..Lesser(MaxActions, 4) -> Estimates]}

Key(c) == <<c.ticker, c.outcome>>

\* A decision is taken for the first candidate of each market.
Undecided ==
  {i \in DOMAIN candidates :
     /\ Key(candidates[i]) \notin DOMAIN decisions
     /\ \A j \in 1..(i - 1) : candidates[j].ticker # candidates[i].ticker}

DecideNext ==
  /\ stage = "decide" /\ setting.models /\ Undecided # {}
  /\ LET c == candidates[Min(Undecided)]
     IN \E d \in DecisionsOn(c) :
          decisions' = [k \in DOMAIN decisions \cup {Key(c)} |->
                          IF k = Key(c) THEN d ELSE decisions[k]]
  /\ UNCHANGED <<setting, stage, candidates, forced, queue, left, seen, trades, orders>>

\* Active without both models: the cycle ends.
PolicyUnavailable ==
  /\ stage = "decide" /\ ~setting.models /\ Active
  /\ EndCycle

Decided == IF setting.models THEN Undecided = {} ELSE ~Active

------------------------------------------------------------------------------
\* In active mode the tradable candidates, priced and judged by their decisions.
Ranked ==
  IF Active
  THEN {[c EXCEPT !.observed = decisions[Key(c)].limit,
                  !.edge = Greater(decisions[Key(c)].pnl, 0),
                  !.conf = decisions[Key(c)].fill,
                  !.fair = decisions[Key(c)].fair] :
          c \in {k \in ToSet(candidates) :
                   Key(k) \in DOMAIN decisions /\ decisions[Key(k)].trade}}
  ELSE ToSet(candidates)

Allowed == {c \in Ranked : Allowlisted = {} \/ c.ticker \in Allowlisted}

Trade(c, fraction) == [candidate |-> c, fraction |-> fraction]

\* The allocator sorts what it is given and takes the first max_trades of it.
StartAllocation ==
  /\ stage = "decide" /\ Decided /\ ~forced
  /\ \E s \in Descending(Allowed, [c \in Allowed |-> c.edge * c.conf]) :
       queue' = SubSeq(s, 1, Lesser(MaxTrades, Len(s)))
  /\ stage' = "allocate"
  /\ UNCHANGED <<setting, candidates, forced, decisions, left, seen, trades, orders>>

\* The bootstrap candidate passes the allocator by: one percent of the bankroll.
BootstrapAllocation ==
  /\ stage = "decide" /\ Decided /\ forced
  /\ trades' \in IF Allowed = {} THEN {<<>>}
                ELSE {<<Trade(c, Greater(MinFraction, Tick))>> : c \in Allowed}
  /\ stage' = "guard"
  /\ UNCHANGED <<setting, candidates, forced, decisions, queue, left, seen, orders>>

Allocating == stage = "allocate" /\ queue # <<>> /\ left > 0

\* A mutant: a market is taken, its event is not.
MarketTaken(c) == EnforceMutex /\ \E i \in DOMAIN trades : trades[i].candidate.ticker = c.ticker

EventTaken(c) == EnforceMutex /\ EventOf[c.ticker] \in seen

\* A mutant: what is left of the cycle's budget is not looked at.
ShareOfTrade(c) == Lesser(Kelly(c.fair, c.observed), MaxFraction)

\* What the candidate gets, before and after its confidence scales it down.
Share(c)  == Lesser(Lesser(Kelly(c.fair, c.observed), MaxFraction), left)
Scaled(c) == (Share(c) * Clamp(c.conf, 200, One)) \div One

SkipTakenEvent ==
  /\ Allocating /\ EventTaken(Head(queue))
  /\ queue' = Tail(queue)
  /\ UNCHANGED <<setting, stage, candidates, forced, decisions, left, seen, trades, orders>>

\* The event is taken even by a candidate that is then too small.
See(c) == seen' = IF EnforceMutex THEN seen \cup {EventOf[c.ticker]} ELSE seen

SkipSmall ==
  /\ Allocating /\ ~EventTaken(Head(queue))
  /\ Share(Head(queue)) < MinFraction \/ Scaled(Head(queue)) < MinFraction
  /\ queue' = Tail(queue) /\ See(Head(queue))
  /\ UNCHANGED <<setting, stage, candidates, forced, decisions, left, trades, orders>>

\* A mutant: the budget of the cycle is not used up.
SpendNothing(c) == left' = left

Spend(c) == left' = left - Scaled(c)

Allocate ==
  /\ Allocating /\ ~EventTaken(Head(queue))
  /\ Share(Head(queue)) >= MinFraction /\ Scaled(Head(queue)) >= MinFraction
  /\ trades' = Append(trades, Trade(Head(queue), Scaled(Head(queue))))
  /\ Spend(Head(queue))
  /\ queue' = Tail(queue) /\ See(Head(queue))
  /\ UNCHANGED <<setting, stage, candidates, forced, decisions, orders>>

AllocationOver ==
  /\ stage = "allocate" /\ ~Allocating
  /\ stage' = "guard" /\ queue' = <<>>
  /\ UNCHANGED <<setting, candidates, forced, decisions, left, seen, trades, orders>>

\* In active mode a trade shrinks by its decision's size_multiplier, and may
\* become too small.
Shrunk(a) ==
  IF Active THEN [a EXCEPT !.fraction = (a.fraction * decisions[Key(a.candidate)].size) \div One]
  ELSE a

Fits(a) == ~Active \/ (a.fraction > 0 /\ a.fraction >= MinFraction)

\* The ways to list I in order: there is one.
Ordered(I) == {f \in [1..Cardinality(I) -> I] : \A i, j \in DOMAIN f : i < j => f[i] < f[j]}

\* The risk guards keep some of the trades; those that shrank too far are dropped.
Guard ==
  /\ stage = "guard"
  /\ \E kept \in SUBSET DOMAIN trades :
       \E f \in Ordered({i \in kept : Fits(Shrunk(trades[i]))}) :
         trades' = [j \in DOMAIN f |-> Shrunk(trades[f[j]])]
  /\ stage' = "execute"
  /\ UNCHANGED <<setting, candidates, forced, decisions, queue, left, seen, orders>>

------------------------------------------------------------------------------
\* choose_market_ticker: the only exact match or, if there is none, the only
\* partial one.
ChooseMarket(exact, fuzzy) ==
  CASE Cardinality(exact) = 1 -> exact
    [] exact = {} /\ Cardinality(fuzzy) = 1 -> fuzzy
    [] OTHER -> {Nil}

\* resolve_market_ticker: an alias, something like a ticker, or else the market
\* whose title is meant among those that are listed as open.
Resolutions(name) ==
  IF name \in DOMAIN Aliases THEN {Aliases[name]}
  ELSE IF name \in TickerLike THEN {name}
  ELSE {m \in Tickers \cup {Nil} :
          \E exact, listed \in SUBSET Tickers : m \in ChooseMarket(exact, listed \ exact)}

\* A mutant: an order is priced at what was observed.
LimitAtObserved(c) == Clamp(c.observed, Tick, One - Tick)

\* compute_limit_price: a buyer pays up to a cent more.
Limit(c) == Clamp(c.observed + Tick, Tick, One - Tick)

\* compute_position_size, in millionths of the bankroll: the allocated notional is
\* the engine's bankroll, and Kelly's fraction of that is taken again.
Stake(a) ==
  Lesser(a.fraction * Lesser(Kelly(a.candidate.fair, a.candidate.observed), MaxBankrollFraction),
         MaxMarketNotional * One)

\* What a part of the stake is worth at the limit is at most n thousandths of
\* the bankroll.
WorthAtMost(a, part, n) ==
  part * Limit(a.candidate) <= n * One * Greater(a.candidate.observed, Tick)

\* The stake of so many contracts.
Costing(a, quantity) == quantity * Greater(a.candidate.observed, Tick)

\* validate_quantity_bounds, build_order and pre_trade_checks, of one order.
OrderPasses(a, part) ==
  /\ part \in Costing(a, MinQuantity)..Costing(a, MaxQuantity)
  /\ WorthAtMost(a, part, MaxMarketNotional)
  /\ WorthAtMost(a, part, a.fraction)

\* What execute_signal sends for a stake: the parts of the stake its orders ask
\* for, and how much of it they can fill together.  The hybrid policy sends an
\* IOC order for a part, and another for what that left unfilled, if it passes.
WholeOrder(a) == {[parts |-> {Stake(a)}, stake |-> Stake(a)]}

IocPart(a) ==
  Lesser(Greater((Stake(a) * HybridIocFraction) \div One, Costing(a, MinQuantity)), Stake(a))

IocFills(a) == {(IocPart(a) * share) \div One : share \in FillParts}

HybridOrders(a) ==
  {[parts |-> {IocPart(a)}, stake |-> fill] : fill \in IocFills(a)}
    \cup {[parts |-> {IocPart(a), Stake(a) - fill}, stake |-> Stake(a)] :
            fill \in {f \in IocFills(a) : OrderPasses(a, Stake(a) - f)}}

\* validate_signal, compute_position_size, and the checks of the first order.
Placeable(a) ==
  /\ a.candidate.edge >= MinSignalEdge
  /\ Stake(a) > 0
  /\ Stake(a) \in Costing(a, MinQuantity)..Costing(a, MaxQuantity)
  /\ OrderPasses(a, IF setting.hybrid THEN IocPart(a) ELSE Stake(a))

PlaceNext ==
  /\ stage = "execute" /\ trades # <<>>
  /\ Placeable(Head(trades))
  /\ LET a == Head(trades)
     IN \E m \in Resolutions(a.candidate.ticker),
           sent \in IF setting.hybrid THEN HybridOrders(a) ELSE WholeOrder(a) :
          /\ m # Nil \/ BestEffort
          /\ orders' = Append(orders,
               [market |-> IF m = Nil THEN a.candidate.ticker ELSE m,
                candidate |-> a.candidate, limit |-> Limit(a.candidate),
                parts |-> sent.parts, stake |-> sent.stake])
  /\ trades' = Tail(trades)
  /\ UNCHANGED <<setting, stage, candidates, forced, decisions, queue, left, seen>>

\* The name is not resolved, a check refuses the trade, or the kill switch does.
RefuseNext ==
  /\ stage = "execute" /\ trades # <<>>
  /\ trades' = Tail(trades)
  /\ UNCHANGED <<setting, stage, candidates, forced, decisions, queue, left, seen, orders>>

CycleOver ==
  /\ stage = "execute" /\ trades = <<>>
  /\ EndCycle

Init ==
  /\ setting \in [policy : PolicyModes, models : BOOLEAN, hybrid : BOOLEAN]
  /\ stage = "idle" /\ candidates = <<>> /\ forced = FALSE /\ decisions = NoDecisions
  /\ queue = <<>> /\ left = MaxTotal /\ seen = {} /\ trades = <<>> /\ orders = <<>>

Next ==
  \/ ChooseCandidates
  \/ DecideNext \/ PolicyUnavailable
  \/ StartAllocation \/ BootstrapAllocation
  \/ SkipTakenEvent \/ SkipSmall \/ Allocate \/ AllocationOver
  \/ Guard \/ PlaceNext \/ RefuseNext \/ CycleOver

Spec == Init /\ [][Next]_vars

------------------------------------------------------------------------------
TradeType == [candidate : Candidate, fraction : 0..One]

\* The variables hold values of their types: every clamp of the code keeps
\* prices and fractions in their ranges, whatever the models estimate.
TypeOK ==
  /\ setting \in [policy : PolicyModes, models : BOOLEAN, hybrid : BOOLEAN]
  /\ stage \in {"idle", "decide", "allocate", "guard", "execute"}
  /\ candidates \in Seq(Candidate) /\ queue \in Seq(Candidate)
  /\ forced \in BOOLEAN /\ left \in 0..One /\ seen \subseteq Events
  /\ DOMAIN decisions \subseteq Tickers \X Outcomes
  /\ \A k \in DOMAIN decisions : decisions[k] \in Decision
  /\ trades \in Seq(TradeType)
  /\ orders \in Seq([market : Tickers, candidate : Candidate, limit : Inside,
                      parts : SUBSET Nat, stake : Nat])

Stakes(placed) == [i \in DOMAIN placed |-> placed[i].stake]

\* In every mode, for any choice of the policy, a cycle stakes no more than the
\* allocator's share for a cycle (or the bootstrap trade's) and of that no more
\* than the engine's share for a trade.
CycleStakeCapped ==
  Total(Stakes(orders)) <= Greater(MaxTotal, IF forced THEN Greater(MinFraction, Tick) ELSE 0)
                    * MaxBankrollFraction

\* The mapper took the candidate's name for a market of the name's own event.
OwnEvent(o) == EventOf[o.market] = EventOf[o.candidate.ticker]

\* A cycle never orders on two markets of an event, although Claude may value a
\* market twice, the two valuations may favour both outcomes, and the policy
\* reprices and ranks them anew.  The mutex knows the candidates' names and not
\* the markets that the mapper finds for them: it is kept among the orders whose
\* market is of their name's event, and by them alone.
OneOrderPerEvent ==
  EnforceMutex =>
    \A i, j \in DOMAIN orders :
      /\ OwnEvent(orders[i]) /\ OwnEvent(orders[j])
      /\ EventOf[orders[i].market] = EventOf[orders[j].market]
      => i = j

\* An order's limit stays less than a cent above what its side is thought to be
\* worth, although the policy may choose the YES ask for a NO order and the
\* bootstrap trade passes the allocator by: a price above it has no Kelly share.
NeverOverpays == \A i \in DOMAIN orders : orders[i].limit - orders[i].candidate.fair < Tick

\* No order asks for a whole stake that reaches max_market_notional: its worth at
\* the limit, a cent above the price it was sized with, is over the cap.  The cap
\* of compute_position_size does not shrink an order to what may be placed: the
\* order is refused, and only the hybrid policy places such a stake, in two parts
\* of which neither reaches the cap.  (The policy may take a quoted ask of zero for
\* its limit: the engine sizes that at a cent, too.)
OrdersBelowCap ==
  \A i \in DOMAIN orders :
    orders[i].candidate.observed \in 1..(One - Tick - 1) =>
      \A part \in orders[i].parts : part < MaxMarketNotional * One
=============================================================================
