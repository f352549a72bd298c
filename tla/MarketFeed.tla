------------------------------ MODULE MarketFeed ------------------------------
(***************************************************************************)
(* Where a cycle's inputs come from: the market scan in two tiers and the  *)
(* websocket deltas on top of it (src/data/market_scanner.rs, ws_delta.rs),*)
(* the selection and the enrichment of markets with their two caches       *)
(* (src/data/market_enrichment.rs), and the record of the scan that the    *)
(* datasets are built from (src/research/market_recorder.rs), as run_cycle *)
(* and the capture cycle of src/main.rs put them together.                 *)
(*                                                                         *)
(* A quote carries the time it was seen, a price signal the time its price *)
(* was: the properties are about how old things are, and which markets are *)
(* looked at.  What the feeds say is left out.  The exchange lists markets *)
(* in a fixed order and gives a cursor while it has more.                  *)
(***************************************************************************)
EXTENDS Integers, Sequences, FiniteSets, SequencesExt, Lists

CONSTANTS
  Tickers, Series, Events,
  Listing,         \* the open markets of a series, in the exchange's order
  EventOf, Volume, CloseAt,
  Books,           \* the quotes a market may be fetched with
  Messages,        \* what the websocket's messages may say of a market
  Mentions,        \* the verticals whose keywords are in a ticker and its title
  SymbolOf,        \* coin or finance symbol; Nil: none, or no threshold to compare to
  Sidecars, Feeds, \* the verticals for which one is configured
  Allowlist, Blocked, Categories, CategoriesOf,
  Recency,         \* the series, the latest updated first
  MaxMarkets, PerFetch, MaxTier2, PageSize, Window,                 \* ScannerConfig
  MinVolume, MaxSpread, AllowNoSpread, MinClose, MaxPerEvent, Balanced,
  ValuationLimit, EnrichmentLimit,
  Ttl, PriceTtl,   \* of the enrichment cache and of the price cache
  Modes,           \* "trade": run_cycle; "capture": the research capture cycle
  MaxCycles,       \* bound of the model: how many cycles there are, by mode
  MaxTime, MaxMessages,            \* bounds of the model
  Nil

Verticals == {"Weather", "Fed", "Esports", "Finance", "Sports", "Politics", "Crypto", "Other"}

\* ScannerConfig::default's clamps; 0 for max_per_event means no cap.
ASSUME FeedAssumption ==
  /\ Listing \in [Series -> Seq(Tickers)] /\ EventOf \in [Tickers -> Events]
  /\ Books \in [Tickers -> SUBSET [bid : 0..100 \cup {Nil}, ask : 0..100 \cup {Nil}]]
  /\ Messages \in [Tickers -> SUBSET [bid : 0..100 \cup {Nil}, ask : 0..100 \cup {Nil}, traded : Nat]]
  /\ Volume \in [Tickers -> Nat] /\ CloseAt \in [Tickers -> Nat \cup {Nil}]
  /\ Mentions \in [Tickers -> SUBSET Verticals] /\ Sidecars \subseteq {"Weather", "Fed", "Crypto"}
  /\ Feeds \subseteq {"Sports", "Esports", "Crypto"}
  /\ Allowlist \in Seq(Series) /\ Recency \in Seq(Series) /\ Blocked \subseteq Series
  /\ CategoriesOf \in [Series -> SUBSET Categories]
  /\ MaxMarkets \in Nat \ {0} /\ PerFetch \in Nat \ {0} /\ PageSize \in Nat \ {0}
  /\ MaxTier2 \in Nat /\ Window \in Nat \ {0} /\ MinVolume \in Nat /\ MaxSpread \in Nat \ {0}
  /\ AllowNoSpread \in BOOLEAN /\ MinClose \in Nat /\ MaxPerEvent \in Nat
  /\ Balanced \in BOOLEAN /\ ValuationLimit \in Nat \ {0} /\ EnrichmentLimit \in Nat
  /\ Ttl \in Nat \ {0} /\ PriceTtl \in Nat \ {0} /\ Modes \subseteq {"trade", "capture"}
  /\ MaxCycles \in [Modes -> Nat] /\ MaxTime \in Nat

VARIABLES
  now, mode, cycle,
  step,            \* where the cycle is
  todo,            \* series still to be queried
  tier, queries,   \* of the scan; queries made in tier 2
  out,             \* the pages of the series being fetched
  seen,            \* the snapshot
  deadline,        \* of the listening
  deltas, final,   \* what was heard, and the snapshot with it applied
  selected, toEnrich, enriched,
  cache, prices,   \* outlive a cycle: the enricher's two caches
  inputs,          \* what is handed to the valuation
  records, broken, \* market_state.jsonl: lines of the cycle; did a write fail?
  fate             \* how the last cycle ended

caches == <<cache, prices>>
scan   == <<todo, tier, queries, out, seen>>
heard  == <<deadline, deltas, final>>
chosen == <<selected, toEnrich>>
ending == <<inputs, records, broken, fate>>
vars   == <<now, mode, cycle, step, scan, heard, chosen, enriched, caches, ending>>

Lesser(a, b) == IF a < b THEN a ELSE b
Take(s, n)   == SubSeq(s, 1, Lesser(n, Len(s)))
Empty        == [t \in {} |-> Nil]

With(f, k, v) == [x \in DOMAIN f \cup {k} |-> IF x = k THEN v ELSE f[x]]

Init ==
  /\ now = 0 /\ mode \in Modes /\ cycle = 0 /\ step = "idle"
  /\ todo = <<>> /\ tier = 1 /\ queries = 0 /\ out = <<>> /\ seen = Empty
  /\ deadline = 0 /\ deltas = <<>> /\ final = Empty
  /\ selected = <<>> /\ toEnrich = <<>> /\ enriched = <<>>
  /\ cache = Empty /\ prices = Empty
  /\ inputs = <<>> /\ records = <<>> /\ broken = FALSE /\ fate = "none"

StartCycle ==
  /\ step = "idle" /\ cycle < MaxCycles[mode]
  /\ cycle' = cycle + 1 /\ step' = "scan"
  /\ todo' = Allowlist /\ tier' = 1 /\ queries' = 0 /\ out' = <<>> /\ seen' = Empty
  /\ deadline' = 0 /\ deltas' = <<>> /\ final' = Empty
  /\ selected' = <<>> /\ toEnrich' = <<>> /\ enriched' = <<>>
  /\ inputs' = <<>> /\ records' = <<>> /\ broken' = FALSE /\ fate' = "none"
  /\ UNCHANGED <<now, mode, caches>>

\* Mutant: the window bounds every wait for a message instead of the listening.
ListeningOn == step = "listen"

Listening == step = "listen" /\ now < deadline

\* Any request may take its time; the listening stops at its deadline.
Tick ==
  /\ step \in {"idle", "scan", "connect", "listen", "enrich"}
  /\ now < MaxTime /\ (step = "listen" => Listening)
  /\ step = "idle" => cycle < MaxCycles[mode]
  /\ now' = now + 1
  /\ UNCHANGED <<mode, cycle, step, scan, heard, chosen, enriched, caches, ending>>

-----------------------------------------------------------------------------
(* The scan.  A series that fails anywhere gives no market; tier 2 only     *)
(* fills what tier 1 has left of the quota.                                 *)

Full == Cardinality(DOMAIN seen) >= MaxMarkets

Querying ==
  /\ step = "scan" /\ todo # <<>>
  /\ tier = 2 => ~ Full /\ queries < MaxTier2

\* Mutant: every series of tier 2 gets the whole budget of a series.
WholeBudget == PerFetch

Budget ==
  IF tier = 1 THEN PerFetch ELSE Lesser(MaxMarkets - Cardinality(DOMAIN seen), PerFetch)

\* Mutant: a missing price is taken for a price.
SeenAnyway(px) == [px |-> px, at |-> now]

Seen(px) == IF px = Nil THEN Nil ELSE [px |-> px, at |-> now]

ToScannedMarket(t, book) ==
  [ticker |-> t, bid |-> Seen(book.bid), ask |-> Seen(book.ask), vol |-> Volume[t]]

\* entry(..).or_insert: a market that is there stays as it is.
Found(markets) ==
  [t \in DOMAIN seen \cup {m.ticker : m \in ToSet(markets)} |->
     IF t \in DOMAIN seen THEN seen[t] ELSE CHOOSE m \in ToSet(markets) : m.ticker = t]

SeriesDone(markets) ==
  /\ seen' = Found(markets) /\ out' = <<>> /\ todo' = Tail(todo)
  /\ queries' = IF tier = 2 THEN queries + 1 ELSE queries

FetchPage ==
  /\ Querying
  /\ LET listed == Listing[Head(todo)]
         page   == SubSeq(listed, Len(out) + 1,
                          Lesser(Len(out) + Lesser(Budget - Len(out), PageSize), Len(listed)))
     IN \E book \in [ToSet(page) -> UNION {Books[t] : t \in Tickers}] :
          /\ \A t \in ToSet(page) : book[t] \in Books[t]
          /\ LET all == out \o [i \in 1..Len(page) |-> ToScannedMarket(page[i], book[page[i]])]
             IN IF Len(all) < Budget /\ Len(all) < Len(listed)
                THEN out' = all /\ UNCHANGED <<todo, queries, seen>>
                ELSE SeriesDone(all)
  /\ UNCHANGED <<now, mode, cycle, step, tier, heard, chosen, enriched, caches, ending>>

FetchFails ==
  /\ Querying
  /\ SeriesDone(<<>>)
  /\ UNCHANGED <<now, mode, cycle, step, tier, heard, chosen, enriched, caches, ending>>

\* The categories that answer in time; allowlisted series are not asked again.
Discovered(answering) ==
  At(Recency, {i \in DOMAIN Recency : /\ CategoriesOf[Recency[i]] \cap answering # {}
                                      /\ Recency[i] \notin Blocked \cup ToSet(Allowlist)})

DiscoverSeries ==
  /\ step = "scan" /\ tier = 1 /\ todo = <<>> /\ ~ Full /\ Categories # {}
  /\ \E answering \in SUBSET Categories : todo' = Discovered(answering)
  /\ tier' = 2
  /\ UNCHANGED <<now, mode, cycle, step, queries, out, seen, heard, chosen, enriched, caches, ending>>

EndScan ==
  /\ step = "scan" /\ ~ Querying
  /\ tier = 1 => Full \/ Categories = {}
  /\ final' = seen
  /\ step' = IF seen = Empty THEN "select" ELSE "connect"
  /\ todo' = <<>> /\ tier' = 1 /\ queries' = 0
  /\ UNCHANGED <<now, mode, cycle, out, seen, deadline, deltas, chosen, enriched, caches, ending>>

-----------------------------------------------------------------------------
(* The deltas.  Whatever fails, the cycle goes on with the snapshot alone.  *)

Subscribe ==
  /\ step = "connect"
  /\ step' = "listen" /\ deadline' = now + Window
  /\ UNCHANGED <<now, mode, cycle, scan, deltas, final, chosen, enriched, caches, ending>>


\* A ticker message has quotes, any of which may be missing; a trade has a count.
HearDelta ==
  /\ Listening /\ Len(deltas) < MaxMessages
  /\ \E t \in DOMAIN seen : \E said \in Messages[t] :
       deltas' = Append(deltas, [ticker |-> t, at |-> now, bid |-> Seen(said.bid),
                                 ask |-> Seen(said.ask), traded |-> said.traded])
  /\ UNCHANGED <<now, mode, cycle, step, scan, deadline, final, chosen, enriched, caches, ending>>

\* Of each side the last delta counts that says something of it; trades add up.
Applied(t) ==
  LET about == {i \in DOMAIN deltas : deltas[i].ticker = t}
      bids  == {i \in about : deltas[i].bid # Nil}
      asks  == {i \in about : deltas[i].ask # Nil}
  IN [ticker |-> t,
      bid |-> IF bids = {} THEN seen[t].bid ELSE deltas[Max(bids)].bid,
      ask |-> IF asks = {} THEN seen[t].ask ELSE deltas[Max(asks)].ask,
      vol |-> seen[t].vol +
              Total([i \in DOMAIN deltas |-> IF i \in about THEN deltas[i].traded ELSE 0])]

StopListening ==
  /\ step = "listen"
  /\ final' = [t \in DOMAIN seen |-> Applied(t)]
  /\ step' = "select" /\ deadline' = 0
  /\ UNCHANGED <<now, mode, cycle, scan, deltas, chosen, enriched, caches, ending>>

SocketFails ==
  /\ step = "connect" \/ Listening
  /\ deltas' = <<>> /\ step' = "select" /\ deadline' = 0
  /\ UNCHANGED <<now, mode, cycle, scan, final, chosen, enriched, caches, ending>>

-----------------------------------------------------------------------------
(* Which markets are valued, and which of these are enriched.               *)

Spread(m) ==
  IF m.bid # Nil /\ m.ask # Nil /\ m.ask.px >= m.bid.px THEN m.ask.px - m.bid.px ELSE Nil

Passes(t) ==
  /\ final[t].vol >= MinVolume
  /\ IF Spread(final[t]) = Nil THEN AllowNoSpread ELSE Spread(final[t]) <= MaxSpread
  /\ CloseAt[t] # Nil => CloseAt[t] - now >= MinClose

Passing == {t \in DOMAIN final : Passes(t)}

\* The scan is a hash map: markets of one volume come in any order.
ByVolume(S) ==
  {s \in SetToSeqs(S) : \A i, j \in DOMAIN s : i < j => final[s[i]].vol >= final[s[j]].vol}

CappedPerEvent(s) ==
  At(s, {i \in DOMAIN s : MaxPerEvent = 0 \/
           Cardinality({j \in 1..(i - 1) : EventOf[s[j]] = EventOf[s[i]]}) < MaxPerEvent})

\* Keywords are looked for in this order; the first vertical that has one takes it.
Precedence == <<"Weather", "Esports", "Finance", "Fed", "Politics", "Sports", "Crypto">>

VerticalOf ==
  [t \in Tickers |->
     LET hits == {i \in DOMAIN Precedence : Precedence[i] \in Mentions[t]}
     IN IF hits = {} THEN "Other" ELSE Precedence[Min(hits)]]

Vertical(t) == VerticalOf[t]

Buckets == <<"Weather", "Fed", "Esports", "Finance", "Sports", "Politics", "Crypto", "Other">>

Bucket(t) == CHOOSE i \in DOMAIN Buckets : Buckets[i] = Vertical(t)

\* One market of every bucket in turn, each bucket in the order it is given in.
Turn(s, i) == Cardinality({j \in 1..(i - 1) : Vertical(s[j]) = Vertical(s[i])})

TakesTurns(s) ==
  {p \in (DOMAIN s) \X (DOMAIN s) :
     \/ Turn(s, p[1]) < Turn(s, p[2])
     \/ Turn(s, p[1]) = Turn(s, p[2]) /\ Bucket(s[p[1]]) < Bucket(s[p[2]])}

RoundRobin(s, limit) ==
  LET order == Sorted(DOMAIN s, TakesTurns(s))
  IN Take([k \in 1..Len(s) |-> s[order[k]]], limit)

SelectForValuation(s) ==
  IF Balanced THEN RoundRobin(CappedPerEvent(s), ValuationLimit)
  ELSE Take(CappedPerEvent(s), ValuationLimit)

\* Mutant: the markets of the highest volume are enriched.
EnrichByVolume(s) ==
  Take(SortSeq(s, LAMBDA t, u : final[t].vol > final[u].vol), EnrichmentLimit)

ToEnrich(s) == RoundRobin(s, EnrichmentLimit)

SelectMarkets ==
  /\ step = "select"
  /\ \E s \in ByVolume(Passing) :
       /\ selected' = SelectForValuation(s)
       /\ toEnrich' = ToEnrich(SelectForValuation(s))
       /\ IF s = <<>> /\ mode = "trade"
          THEN step' = "record" /\ fate' = "no_markets"
          ELSE step' = "enrich" /\ UNCHANGED fate
  /\ UNCHANGED <<now, mode, cycle, scan, heard, enriched, caches, inputs, records, broken>>

-----------------------------------------------------------------------------
(* The enrichment, market after market.  NOAA's is the only failure that    *)
(* ends the batch; every other feed that fails leaves a signal out, and the *)
(* market without it is cached like any other.                              *)

Current == toEnrich[Len(enriched) + 1]

Enriching == step = "enrich" /\ Len(enriched) < Len(toEnrich)

Fresh(entries, k) == k \in DOMAIN entries /\ now < entries[k].expires


UseCached ==
  /\ Enriching /\ Fresh(cache, Current)
  /\ enriched' = Append(enriched, With(cache[Current].data, "got", now))
  /\ UNCHANGED <<now, mode, cycle, step, scan, heard, chosen, caches, ending>>

\* Mutant: NOAA's failure ends the batch, but the cycle goes on with what it has.
ValuedWithoutRest ==
  /\ Enriching /\ ~ Fresh(cache, Current) /\ Vertical(Current) = "Weather"
  /\ step' = "record" /\ fate' = "valued"
  /\ UNCHANGED <<now, mode, cycle, scan, heard, chosen, enriched, caches, inputs, records, broken>>

FetchNoaaFails ==
  /\ Enriching /\ ~ Fresh(cache, Current) /\ Vertical(Current) = "Weather"
  /\ step' = "record" /\ fate' = "enrichment_failed"
  /\ UNCHANGED <<now, mode, cycle, scan, heard, chosen, enriched, caches, inputs, records, broken>>

Priced(t) == Vertical(t) \in {"Finance", "Crypto"} /\ SymbolOf[t] # Nil

\* Something comes of a request or nothing does.  A sidecar has three seconds, and
\* what it says of stale sources is dropped; the feeds have no timeout.
Noaa(t)    == IF Vertical(t) = "Weather" THEN BOOLEAN ELSE {FALSE}
Sidecar(t) == IF Vertical(t) \in Sidecars THEN BOOLEAN ELSE {FALSE}
Feed(t)    == IF Vertical(t) \in Feeds THEN BOOLEAN ELSE {FALSE}

Signals(t) == {n \/ s \/ f : n \in Noaa(t), s \in Sidecar(t), f \in Feed(t)}

\* Prices are shared by the markets of a symbol, across both verticals.
Price(s) ==
  IF Fresh(prices, s) THEN {prices[s].seen} ELSE {now, Nil}

\* Mutant: using a price makes it last longer.
RememberOnUse(s, price) ==
  IF price = Nil THEN prices
  ELSE With(prices, s, [seen |-> price, expires |-> now + PriceTtl])

Remember(s, price) ==
  IF Fresh(prices, s) \/ price = Nil THEN prices
  ELSE With(prices, s, [seen |-> price, expires |-> now + PriceTtl])

PutCached(t, data) ==
  With([u \in {v \in DOMAIN cache : cache[v].expires > now} |-> cache[u]],
       t, [data |-> data, expires |-> now + Ttl])

EnrichMarket ==
  /\ Enriching /\ ~ Fresh(cache, Current)
  /\ \E signal \in Signals(Current),
        price \in IF Priced(Current) THEN Price(SymbolOf[Current]) ELSE {Nil} :
       LET data == [ticker |-> Current, vertical |-> Vertical(Current), signal |-> signal,
                    price |-> price]
       IN /\ cache' = PutCached(Current, data)
          /\ enriched' = Append(enriched, With(data, "got", now))
          /\ prices' = IF Priced(Current) THEN Remember(SymbolOf[Current], price) ELSE prices
  /\ UNCHANGED <<now, mode, cycle, step, scan, heard, chosen, ending>>

EndEnrichment ==
  /\ step = "enrich" /\ Len(enriched) = Len(toEnrich)
  /\ step' = "record" /\ fate' = "valued"
  /\ UNCHANGED <<now, mode, cycle, scan, heard, chosen, enriched, caches, inputs, records, broken>>

-----------------------------------------------------------------------------
(* The record of the scan.                                                  *)

\* A line of the snapshot is dated when it is written, a delta's when it came;
\* what the delta leaves out is taken from the market after all deltas.
SnapshotEvent(t) ==
  [source |-> "snapshot", ticker |-> t, ts |-> now, bid |-> seen[t].bid, ask |-> seen[t].ask]

DeltaEvent(d) ==
  [source |-> "ws_delta", ticker |-> d.ticker, ts |-> d.at,
   bid |-> IF d.bid # Nil THEN d.bid ELSE final[d.ticker].bid,
   ask |-> IF d.ask # Nil THEN d.ask ELSE final[d.ticker].ask]

ScanEvents ==
  [i \in 1..Cardinality(DOMAIN seen) |-> SnapshotEvent(SetToSeq(DOMAIN seen)[i])] \o
  [i \in 1..Len(deltas) |-> DeltaEvent(deltas[i])]

\* The lines are appended one by one: a failing write keeps those before it.
RecordScanTrace(written) ==
  /\ records' = Take(ScanEvents, written)
  /\ broken' = (written < Len(ScanEvents))

\* The capture cycle gives up on a failed enrichment before it records anything.
Recorded == mode = "trade" \/ fate # "enrichment_failed"

EnrichmentOf(t) ==
  LET found == {i \in DOMAIN enriched : enriched[i].ticker = t}
  IN IF found = {} THEN Nil ELSE enriched[Min(found)]

\* A failing write is logged, and the cycle goes on.
EndFeed ==
  /\ step = "record"
  /\ IF Recorded
     THEN \E written \in {Len(ScanEvents) \div 2, Len(ScanEvents)} : RecordScanTrace(written)
     ELSE UNCHANGED <<records, broken>>
  /\ inputs' = IF fate = "valued" /\ mode = "trade"
               THEN [i \in 1..Lesser(ValuationLimit, Len(selected)) |->
                       [ticker |-> selected[i], enrichment |-> EnrichmentOf(selected[i])]]
               ELSE <<>>
  /\ step' = "idle"
  /\ UNCHANGED <<now, mode, cycle, scan, heard, chosen, enriched, caches, fate>>

\* The loop waits for its next interval; this model stops after MaxCycles[mode].
Stopped == step = "idle" /\ cycle = MaxCycles[mode] /\ UNCHANGED vars

Next ==
  \/ StartCycle \/ Tick \/ Stopped
  \/ FetchPage \/ FetchFails \/ DiscoverSeries \/ EndScan
  \/ Subscribe \/ HearDelta \/ StopListening \/ SocketFails
  \/ SelectMarkets
  \/ UseCached \/ FetchNoaaFails \/ EnrichMarket \/ EndEnrichment
  \/ EndFeed

Spec == Init /\ [][Next]_vars

-----------------------------------------------------------------------------
Quote == [px : 0..100, at : 0..MaxTime] \cup {Nil}

\* Every variable has its type; in particular the tickers that deltas name, that
\* are selected and that are enriched are among those that were scanned.
TypeOK ==
  /\ now \in 0..MaxTime /\ mode \in Modes /\ cycle \in 0..MaxCycles[mode]
  /\ step \in {"idle", "scan", "connect", "listen", "select", "enrich", "record"}
  /\ tier \in {1, 2} /\ queries \in 0..MaxTier2 /\ ToSet(todo) \subseteq Series
  /\ \A t \in DOMAIN seen : seen[t] \in [ticker : {t}, bid : Quote, ask : Quote, vol : Nat]
  /\ DOMAIN final \in {DOMAIN seen, {}}
  /\ \A d \in ToSet(deltas) : d.ticker \in DOMAIN seen
  /\ ToSet(selected) \subseteq DOMAIN final /\ ToSet(toEnrich) \subseteq ToSet(selected)
  /\ Len(enriched) <= Len(toEnrich)
  /\ \A i \in DOMAIN enriched : enriched[i].ticker = toEnrich[i]
  /\ DOMAIN cache \subseteq Tickers /\ \A s \in DOMAIN prices : prices[s].seen \in 0..MaxTime
  /\ fate \in {"none", "no_markets", "enrichment_failed", "valued"}

\* What a valuation is given as the current price is never older than the two caches
\* allow together, although the price cache alone is meant to bound it: no chain of
\* reuses, across markets of one symbol and across cycles, makes it older.
SignalAgeBounded ==
  \A i \in DOMAIN enriched :
    enriched[i].price # Nil => enriched[i].got - enriched[i].price <= (Ttl - 1) + (PriceTtl - 1)

\* A request that fails in the middle of the batch costs the cycle or a signal, never
\* part of the batch: if anything is handed to the valuation, every market that was to
\* be enriched is, with what this very cycle enriched it with.
WholeBatchValued ==
  inputs # <<>> =>
    \A t \in ToSet(toEnrich) :
      \E i \in DOMAIN inputs, j \in DOMAIN enriched :
        /\ inputs[i].ticker = t /\ enriched[j].ticker = t
        /\ inputs[i].enrichment = enriched[j]

\* A line never holds a quote from after its date, but for the quotes that a delta's
\* line borrows from later deltas: these are from within the same listening window.
LookaheadBounded ==
  \A r \in ToSet(records) : \A q \in {r.bid, r.ask} \ {Nil} :
    q.at <= IF r.source = "snapshot" THEN r.ts ELSE r.ts + Window

\* Markets that no filter drops, nor the cap per event.
Certain ==
  {t \in DOMAIN final :
     /\ final[t].vol >= MinVolume
     /\ Spread(final[t]) # Nil /\ Spread(final[t]) <= MaxSpread
     /\ CloseAt[t] = Nil
     /\ MaxPerEvent = 0 \/ Cardinality({u \in DOMAIN final : EventOf[u] = EventOf[t]}) <= MaxPerEvent}

\* With balancing, every vertical that has a market left after the filters and the cap
\* per event has one enriched, as long as there are as many places as verticals.
VerticalsServed ==
  Balanced /\ step \in {"enrich", "record"} /\ fate # "no_markets" =>
    LET present == {Vertical(t) : t \in ToSet(selected) \cup Certain}
    IN Cardinality(present) <= Lesser(ValuationLimit, EnrichmentLimit) =>
         present \subseteq {Vertical(t) : t \in ToSet(toEnrich)}

\* Tier 2 never takes the scan past its quota; only tier 1 can, by what the
\* allowlisted series hold.
ScanBudget ==
  LET allowlisted == UNION {ToSet(Listing[s]) : s \in ToSet(Allowlist)}
  IN Cardinality(DOMAIN seen \ allowlisted) > 0 => Cardinality(DOMAIN seen) <= MaxMarkets
==============================================================================
