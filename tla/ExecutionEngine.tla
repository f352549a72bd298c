--------------------------- MODULE ExecutionEngine ---------------------------
(***************************************************************************)
(* The execution engine of the bot (src/execution/engine.rs) together with *)
(* the exchange it trades on, the runtime-state file and the trade journal *)
(* it writes, the wall clock, and the crashes it has to survive.           *)
(*                                                                         *)
(* One call of execute_signal places one order (policy "ioc" or "gtc") or  *)
(* an IOC order followed by a GTC order for what the first left unfilled   *)
(* ("hybrid").  A step of this module is the code between two points where *)
(* something outside the call can happen: an HTTP request, a write of the  *)
(* journal or of the state file.  Between any two steps the exchange may   *)
(* fill or cancel orders, time may pass, and the process may die.          *)
(*                                                                         *)
(* Units.  A quantity counts half contracts: the engine computes real      *)
(* quantities and the client rounds them to whole contracts only when it   *)
(* submits, so halves are the coarsest grain that tells the two apart.     *)
(* Prices are cents, so notionals are half cents.                          *)
(*                                                                         *)
(* The checks of a signal that read nothing but the signal and the         *)
(* configuration (edge, staleness, size) refuse it before any state is     *)
(* touched; Signals are the signals that pass them.                        *)
(***************************************************************************)
EXTENDS Integers, Sequences, FiniteSets

CONSTANTS
  Cids,               \* client order ids: uuids, each generated once
  Signals,            \* the signals offered to the engine
  Mode,               \* "Live" or "Paper"
  Policy,             \* EngineConfig::execution_policy
  Faults,             \* which faults of the environment may happen
  MaxOpenExposure,    \* EngineConfig::max_open_exposure_notional
  MaxOrderNotional,   \* the lesser of EngineConfig::max_market_notional, bankroll
  MaxDailyLoss,       \* EngineConfig::max_daily_loss
  MaxOrdersPerMinute, \* EngineConfig::max_orders_per_minute
  MinOrderQuantity,   \* EngineConfig::min_order_quantity
  HybridIocPct,       \* EngineConfig::hybrid_ioc_fraction, in percent
  MaxRetries,         \* EngineConfig::max_retries
  PollAttempts,       \* EngineConfig::reconcile_poll_attempts
  FeePerContract,     \* what the exchange charges for a filled contract
  DedupsCids,         \* does the exchange refuse a client order id it knows?
  EchoesCids,         \* do its answers name the client order id?
  Grids,              \* the price grids of the markets traded
  RateWindow,         \* the 60 seconds of the rate limit, in ticks
  DayLength,          \* ticks in a day
  MaxTime,            \* bound of the model: the clock stops here
  Overshoot,          \* how far a report may exceed the checked notional
  Nil

AllFaults ==
  { "crash",        \* the process dies between two steps
    "state_lost",   \* ... and the state file comes back empty or unreadable
    "place_failed", \* a placement fails before the exchange sees it
    "place_lost",   \* the exchange accepts a placement, the reply is lost
    "query_error",  \* get_order fails
    "market_error", \* the price grid of the market cannot be fetched
    "cancel_lost",  \* a cancel fails or never arrives
    "archived",     \* the exchange answers 404 for an order that is over
    "io_error" }    \* writing the journal or the state file fails

Price   == 0..100
Outcome == {"yes", "no"}
Signal  == [ask : Price, qty : Nat \ {0}, outcome : Outcome]

(***************************************************************************)
(* Order pricing and sizing.                                               *)
(***************************************************************************)

\* compute_limit_price for a buy: one cent through the ask, clamped.
Limit(s) == IF s.ask + 1 > 99 THEN 99 ELSE s.ask + 1

\* The client submits round(quantity) contracts: half a contract rounds up.
Rounded(q) == 2 * ((q + 1) \div 2)

\* MarketConstraints, its defaults applied: the prices a market takes.
Grid == [min : 1..99, max : 1..99, tick : Nat \ {0}]

\* normalize_price_cents: into the market's range, to the nearest tick, and
\* into the range again.
Clamp(p, g) == IF p < g.min THEN g.min ELSE IF p > g.max THEN g.max ELSE p
NormalizePriceCents(p, g) ==
  Clamp(((Clamp(p, g) + g.tick \div 2) \div g.tick) * g.tick, g)

\* apply_market_constraints: the price the client sends, of the side bought.
\* If the market cannot be fetched it is the limit price itself.
SentPrices(s) == {NormalizePriceCents(Limit(s), g) : g \in Grids}
                   \cup (IF "market_error" \in Faults THEN {Limit(s)} ELSE {})

\* The price a report carries is always the order's YES price.
YesPrices(s) == IF s.outcome = "yes" THEN SentPrices(s)
                                     ELSE {100 - p : p \in SentPrices(s)}

Lesser(a, b)  == IF a < b THEN a ELSE b
Greater(a, b) == IF a > b THEN a ELSE b

\* The IOC leg of the hybrid policy.
HybridIocQty(total) ==
  Lesser(Greater((total * HybridIocPct) \div 100, MinOrderQuantity), total)

ASSUME ConstantsAssumption ==
  /\ Signals \subseteq Signal
  /\ Mode \in {"Live", "Paper"}
  /\ Policy \in {"ioc", "gtc", "hybrid"}
  /\ Faults \subseteq AllFaults
  /\ MaxOpenExposure \in Nat /\ MaxOrderNotional \in Nat
  /\ MaxDailyLoss \in Nat /\ MaxOrdersPerMinute \in Nat
  /\ MinOrderQuantity \in Nat \ {0} /\ HybridIocPct \in 0..100
  /\ MaxRetries \in Nat /\ PollAttempts \in Nat /\ FeePerContract \in Nat
  /\ DedupsCids \in BOOLEAN /\ EchoesCids \in BOOLEAN
  /\ Grids \subseteq Grid /\ Grids # {} /\ \A g \in Grids : g.min <= g.max
  /\ RateWindow \in Nat /\ DayLength \in Nat \ {0} /\ MaxTime \in Nat
  /\ Overshoot \in Nat
  /\ Nil \notin Cids

\* A report can exceed the notional the kill switch was asked about: the
\* count is rounded up, the price is moved to the market's grid, and a NO
\* order is valued at its YES price.
ASSUME OvershootAssumption ==
  \A s \in Signals : \A q \in 1..s.qty, p \in YesPrices(s) :
    Rounded(q) * p <= q * Limit(s) + Overshoot

------------------------------------------------------------------------------
VARIABLES
  pc,      \* where the engine is: see Phases
  now,     \* the wall clock
  mem,     \* the RuntimeState the current call works on
  disk,    \* the RuntimeState in the state file
  journal, \* the trade journal
  exch,    \* the exchange: the sequence of orders it accepted; the position
           \* of an order is its order id
  call,    \* the arguments of the current, or else of the last, order
  oid,     \* the order id the exchange acknowledged, 0 before
  rep,     \* the last report received in this call
  tries,   \* placements, then polls, made so far
  todo,    \* startup: tracked orders still to be reconciled
  kept     \* startup: tracked orders that stay tracked

locals == <<oid, rep, tries, todo, kept>>
vars   == <<pc, now, mem, disk, journal, exch, call, locals>>

InOrder  == {"logged", "saved", "placed", "poll", "cancel", "recheck", "settle", "reported"}
InStart  == {"reconcile", "rcancel", "rrecheck"}
Phases   == {"down", "idle", "fallback"} \cup InStart \cup InOrder

OpenStatus == {"New", "PartiallyFilled"}
DoneStatus == {"Filled", "Canceled", "Rejected"}

Day(t) == t \div DayLength
Today  == Day(now)

(***************************************************************************)
(* RuntimeState.                                                           *)
(***************************************************************************)
DefaultForToday ==
  [day |-> Today, loss |-> 0, exposure |-> 0, recent |-> {}, seen |-> {}, open |-> {}]

RollDayIfNeeded(st) == IF st.day # Today THEN DefaultForToday ELSE st

\* load_state: a missing or unreadable file is DefaultForToday on disk.
LoadState == RollDayIfNeeded(disk)

\* recent_order_unix_secs: a timestamp per order, kept apart by the order's id.
WithinWindow(recent) == {r \in recent : now - r.at <= RateWindow}

\* Mutants of check_kill_switches: an order more per window, and an exposure
\* check that forgets the order itself.
OneOrderTooMany(st, notional) ==
  /\ st.loss < MaxDailyLoss
  /\ st.exposure + notional <= MaxOpenExposure
  /\ Cardinality(WithinWindow(st.recent)) <= MaxOrdersPerMinute

ExposureWithoutOrder(st, notional) ==
  /\ st.loss < MaxDailyLoss
  /\ st.exposure <= MaxOpenExposure
  /\ Cardinality(WithinWindow(st.recent)) < MaxOrdersPerMinute

\* check_kill_switches: daily loss, open exposure, order rate.
KillSwitchesAllow(st, notional) ==
  /\ st.loss < MaxDailyLoss
  /\ st.exposure + notional <= MaxOpenExposure
  /\ Cardinality(WithinWindow(st.recent)) < MaxOrdersPerMinute

\* Mutant: the id of an order is not recorded before it is sent.
RecordPreSubmitWithoutId(st, c) ==
  [st EXCEPT !.recent = WithinWindow(@ \cup {[at |-> now, cid |-> c]})]

\* record_pre_submit_state.
RecordPreSubmitState(st, c) ==
  [st EXCEPT !.recent = WithinWindow(@ \cup {[at |-> now, cid |-> c]}),
             !.seen = @ \cup {c}]

\* Mutants of finalize_state_from_report: an order that ends gives its fills
\* back, and an order that was canceled stays tracked.
FinalizeReleasing(st, o, r) ==
  [st EXCEPT !.loss = @ + r.fee,
             !.exposure = IF r.status \in OpenStatus \cup {"Filled"}
                          THEN @ + r.filled * r.price ELSE @ - r.filled * r.price,
             !.open = IF r.status \in OpenStatus
                      THEN @ \cup {[oid |-> o, cid |-> r.cid]}
                      ELSE {x \in @ : x.oid # o}]

FinalizeKeepingCanceled(st, o, r) ==
  [st EXCEPT !.loss = @ + r.fee,
             !.exposure = IF r.status \in OpenStatus \cup {"Filled"}
                          THEN @ + r.filled * r.price ELSE @,
             !.open = IF r.status # "Filled"
                      THEN @ \cup {[oid |-> o, cid |-> r.cid]}
                      ELSE {x \in @ : x.oid # o}]

\* finalize_state_from_report: only a report that is not Canceled or
\* Rejected moves exposure, and it moves it by what the report says is filled.
\* An order is tracked under the client order id of the report.
FinalizeStateFromReport(st, o, r) ==
  [st EXCEPT
     !.loss = @ + r.fee,
     !.exposure = IF r.status \in OpenStatus \cup {"Filled"}
                  THEN @ + r.filled * r.price ELSE @,
     !.open = IF r.status \in OpenStatus
              THEN IF \E x \in @ : x.oid = o THEN @ ELSE @ \cup {[oid |-> o, cid |-> r.cid]}
              ELSE {x \in @ : x.oid # o}]

------------------------------------------------------------------------------
(***************************************************************************)
(* The journal: the events some reader of it acts on (order_intent,        *)
(* order_report, order_error), with the fields those readers use.  The     *)
(* other events are log lines; that writing them may fail is in IoError.   *)
(* cid is the order an entry is about: an intent holds its client order    *)
(* id; a report holds its order id, and its client order id if echoed.     *)
(***************************************************************************)
Entry(ev, c, s, status, filled) ==
  [event |-> ev, cid |-> c, sig |-> s, at |-> now, status |-> status, filled |-> filled]

Log(e) == journal' = Append(journal, e)

\* A failed submission is journaled, if it can be; it names no order.
LogOrderError ==
  \/ Log(Entry("order_error", Nil, call.sig, "None", 0))
  \/ "io_error" \in Faults /\ UNCHANGED journal

IntentsOf(j) == {i \in DOMAIN j : j[i].event = "order_intent"}
ReportsOf(j) == {i \in DOMAIN j : j[i].event = "order_report"}
Intended     == {journal[i].cid : i \in IntentsOf(journal)}

(***************************************************************************)
(* The exchange, seen through KalshiClient.                                *)
(***************************************************************************)
\* The client order id of a report: empty if the exchange leaves it out.
EchoedCid(o) == IF EchoesCids THEN exch[o].cid ELSE Nil

\* Mutant: the order's size is read as its fill.
ReportOfWholeOrder(o) ==
  LET x == exch[o]
  IN  [cid |-> EchoedCid(o),
       status |-> IF x.status # "Resting" THEN x.status
                  ELSE IF x.filled = 0 THEN "New" ELSE "PartiallyFilled",
       filled |-> x.count, price |-> x.price, fee |-> 0]

\* What get_order answers.
ReportOf(o) ==
  LET x == exch[o]
  IN  [cid    |-> EchoedCid(o),
       status |-> IF x.status # "Resting" THEN x.status
                  ELSE IF x.filled = 0 THEN "New" ELSE "PartiallyFilled",
       filled |-> x.filled,
       price  |-> x.price,
       fee    |-> (x.filled \div 2) * FeePerContract]

Resting(o) == exch[o].status = "Resting"

NewOrder(status, price) ==
  [cid |-> call.cid, count |-> Rounded(call.qty), filled |-> 0, status |-> status,
   tif |-> call.tif, price |-> price]

\* The exchange accepts the order of the current call, with one of these
\* statuses, at a price the client may send.
Accepts(statuses) ==
  \E status \in statuses, price \in YesPrices(call.sig) :
    exch' = Append(exch, NewOrder(status, price))

ExchangeFill(o) ==
  /\ Resting(o)
  /\ exch[o].filled + 2 <= exch[o].count
  /\ LET n == exch[o].filled + 2
     IN  exch' = [exch EXCEPT ![o].filled = n,
                              ![o].status = IF n = exch[o].count THEN "Filled" ELSE @]
  /\ UNCHANGED <<pc, now, mem, disk, journal, call, locals>>

\* The exchange ends an order: the rest of an IOC order, a market that closes.
ExchangeCancel(o) ==
  /\ Resting(o)
  /\ exch' = [exch EXCEPT ![o].status = "Canceled"]
  /\ UNCHANGED <<pc, now, mem, disk, journal, call, locals>>

Canceling(o) == IF Resting(o) THEN [exch EXCEPT ![o].status = "Canceled"] ELSE exch

------------------------------------------------------------------------------
(***************************************************************************)
(* How a call ends.  The engine keeps nothing in memory between calls, so  *)
(* mem then mirrors the file.                                              *)
(***************************************************************************)
ClearLocals ==
  /\ oid' = 0 /\ rep' = Nil /\ tries' = 0 /\ todo' = {} /\ kept' = {}

\* An error that ends the call: nothing more is saved.  In the second leg of
\* a hybrid signal execute_signal swallows it and returns the first report.
ReturnError ==
  /\ pc' = "idle"
  /\ mem' = disk
  /\ ClearLocals
  /\ UNCHANGED <<now, disk, exch, call>>

(***************************************************************************)
(* execute_single_order, up to the journaled intent: load the state, check *)
(* the kill switches, record the order in the state, journal the intent.   *)
(***************************************************************************)
PrepareOrder(c, s, q, total, tif, leg, base) ==
  LET st == LoadState
  IN  /\ q >= MinOrderQuantity
      /\ q * Limit(s) <= MaxOrderNotional
      /\ KillSwitchesAllow(st, q * Limit(s))
      /\ c \notin Intended \cup st.seen
      /\ mem' = RecordPreSubmitState(st, c)
      /\ Log(Entry("order_intent", c, s, "None", 0))
      /\ call' = [sig |-> s, qty |-> q, total |-> total, tif |-> tif, leg |-> leg,
                  cid |-> c, base |-> base]
      /\ pc' = "logged"
      /\ ClearLocals
      /\ UNCHANGED <<now, disk, exch>>

\* Bound of the model: a hybrid signal needs an id left for its second leg.
IdsLeft(c) == Policy = "hybrid" => Cids \ (Intended \cup {c}) # {}

\* execute_signal.  A refused signal changes nothing.
ExecuteSignal(s, c) ==
  /\ pc = "idle"
  /\ IdsLeft(c)
  /\ PrepareOrder(c, s,
                  IF Policy = "hybrid" THEN HybridIocQty(s.qty) ELSE s.qty, s.qty,
                  IF Policy = "gtc" THEN "gtc" ELSE "ioc", 1, Len(exch))

\* Mutant: the second leg asks for everything again.
FallbackWholeQty == call.total

\* The GTC leg of a hybrid signal, for what the IOC leg left unfilled.
FallbackQty == call.total - rep.filled

ExecuteFallback(c) ==
  /\ pc = "fallback"
  /\ PrepareOrder(c, call.sig, FallbackQty, call.total, "gtc", 2, call.base)

\* ... or its size or a kill switch refuses that leg.
FallbackRefused ==
  /\ pc = "fallback"
  /\ \/ FallbackQty * Limit(call.sig) > MaxOrderNotional
     \/ ~KillSwitchesAllow(LoadState, FallbackQty * Limit(call.sig))
  /\ ReturnError
  /\ UNCHANGED journal

\* The state is saved before the order leaves the process.
SavePreSubmit ==
  /\ pc = "logged"
  /\ disk' = mem
  /\ pc' = "saved"
  /\ UNCHANGED <<now, mem, journal, exch, call, locals>>

\* A paper order fills at the ask when its limit crosses it, or not at all.
PaperFill ==
  /\ pc = "saved" /\ Mode = "Paper"
  /\ LET fills == Limit(call.sig) >= call.sig.ask
     IN  rep' = [cid    |-> call.cid,
                 status |-> IF fills THEN "Filled" ELSE "Canceled",
                 filled |-> IF fills THEN call.qty ELSE 0,
                 price  |-> IF fills THEN call.sig.ask ELSE Limit(call.sig),
                 fee    |-> 0]
  /\ pc' = "settle"
  /\ UNCHANGED <<now, mem, disk, journal, exch, call, oid, tries, todo, kept>>

(***************************************************************************)
(* submit_with_retries.  Every attempt carries the same client order id.   *)
(***************************************************************************)
Submits  == pc = "saved" /\ Mode = "Live"
Known(c) == \E o \in DOMAIN exch : exch[o].cid = c
Refused  == DedupsCids /\ Known(call.cid)

\* The exchange accepts the order and its reply arrives.
PlaceOrder ==
  /\ Submits /\ ~Refused
  /\ Accepts({"Resting", "Rejected"})
  /\ oid' = Len(exch) + 1
  /\ pc' = "placed"
  /\ UNCHANGED <<now, mem, disk, journal, call, rep, tries, todo, kept>>

\* After a failed attempt: a retryable error is retried until MaxRetries
\* retries are spent; any other error is journaled, if it can be, and returned.
RetryOrReturn(retryable) ==
  \/ /\ retryable /\ tries < MaxRetries
     /\ tries' = tries + 1
     /\ UNCHANGED <<pc, now, mem, disk, journal, call, oid, rep, todo, kept>>
  \/ /\ ~(retryable /\ tries < MaxRetries)
     /\ LogOrderError
     /\ pc' = "idle"
     /\ mem' = disk
     /\ ClearLocals
     /\ UNCHANGED <<now, disk, call>>

\* The attempt fails before the exchange takes the order: transport error,
\* HTTP 429 or 5xx (retryable), or an error of the client or the exchange.
PlaceFailed ==
  /\ "place_failed" \in Faults /\ Submits
  /\ \E retryable \in BOOLEAN : RetryOrReturn(retryable)
  /\ UNCHANGED exch

\* The exchange takes the order and the reply is lost: on the connection
\* (retryable), or while its body is read or parsed (not retryable).
PlaceLost ==
  /\ "place_lost" \in Faults /\ Submits /\ ~Refused
  /\ Accepts({"Resting"})
  /\ \E retryable \in BOOLEAN : RetryOrReturn(retryable)

\* The exchange refuses a client order id it already has.
PlaceDuplicate ==
  /\ Submits /\ Refused
  /\ RetryOrReturn(FALSE)
  /\ UNCHANGED exch

(***************************************************************************)
(* reconcile_post_submit.                                                  *)
(***************************************************************************)
\* Mutant: an IOC order that still rests after the polls is not canceled.
AfterPollsNoCancel(n) == IF n < PollAttempts THEN "poll" ELSE "settle"

AfterPolls(n) == IF n < PollAttempts THEN "poll"
                 ELSE IF call.tif = "ioc" THEN "cancel" ELSE "settle"

QueryFails(o) == \/ "query_error" \in Faults
                 \/ "archived" \in Faults /\ ~Resting(o)

Received(r, n) ==
  /\ rep' = r
  /\ tries' = n
  /\ pc' = IF r.status \in DoneStatus THEN "settle" ELSE AfterPolls(n)
  /\ UNCHANGED <<now, mem, disk, journal, exch, call, oid, todo, kept>>

\* The query submit_with_retries makes once the order is acknowledged.
FirstReport == pc = "placed" /\ Received(ReportOf(oid), 0)

PollReport == pc = "poll" /\ Received(ReportOf(oid), tries + 1)

\* Mutant: a poll that fails starts the polling over.
QueryErrorStartsOver ==
  /\ pc \in {"placed", "poll"} /\ QueryFails(oid)
  /\ \/ pc = "placed" /\ ReturnError /\ LogOrderError
     \/ /\ pc = "poll" /\ pc' = "placed" /\ tries' = 0
        /\ UNCHANGED <<now, mem, disk, journal, exch, call, oid, rep, todo, kept>>

\* Either query failing ends the call, whatever the order is doing; the first
\* one is part of the submission and fails it.
QueryError ==
  /\ pc \in {"placed", "poll"} /\ QueryFails(oid)
  /\ ReturnError
  /\ \/ pc = "placed" /\ LogOrderError
     \/ pc = "poll" /\ UNCHANGED journal

\* The result of a cancel is ignored, here and in the startup reconciliation.
CancelOrder ==
  /\ pc \in {"cancel", "rcancel"}
  /\ \/ exch' = Canceling(oid)
     \/ "cancel_lost" \in Faults /\ UNCHANGED exch
  /\ pc' = IF pc = "cancel" THEN "recheck" ELSE "rrecheck"
  /\ UNCHANGED <<now, mem, disk, journal, call, locals>>

\* The report after the cancel, or the one before it when the query fails.
RecheckedReports == {ReportOf(oid)} \cup (IF QueryFails(oid) THEN {rep} ELSE {})

RecheckReport ==
  /\ pc = "recheck"
  /\ rep' \in RecheckedReports
  /\ pc' = "settle"
  /\ UNCHANGED <<now, mem, disk, journal, exch, call, oid, tries, todo, kept>>

\* The final report moves the state in memory, then the journal ...
SettleReport ==
  /\ pc = "settle"
  /\ mem' = FinalizeStateFromReport(mem, oid, rep)
  /\ Log(Entry("order_report", call.cid, call.sig, rep.status, rep.filled))
  /\ pc' = "reported"
  /\ UNCHANGED <<now, disk, exch, call, locals>>

\* ... then the file.
NeedsFallback ==
  /\ Policy = "hybrid" /\ call.leg = 1
  /\ FallbackQty >= MinOrderQuantity
  /\ rep.status # "Rejected"

\* Mutant: a canceled order is submitted again under its id.
SaveReportAndResubmit ==
  /\ pc = "reported"
  /\ disk' = mem
  /\ IF rep.status = "Canceled" THEN pc' = "saved" /\ UNCHANGED locals
                               ELSE pc' = "idle" /\ ClearLocals
  /\ UNCHANGED <<now, mem, journal, exch, call>>

SaveReport ==
  /\ pc = "reported"
  /\ disk' = mem
  /\ IF NeedsFallback THEN pc' = "fallback" /\ UNCHANGED locals
                      ELSE pc' = "idle" /\ ClearLocals
  /\ UNCHANGED <<now, mem, journal, exch, call>>

\* A write of the journal or of the state file fails: the call ends there.
IoError ==
  /\ "io_error" \in Faults
  /\ pc \in {"logged", "settle", "reported", "reconcile", "fallback"} \/ (pc \in {"poll", "cancel"} /\ tries = 0)
  /\ ReturnError
  /\ UNCHANGED journal

------------------------------------------------------------------------------
(***************************************************************************)
(* Process life: start, reconcile_open_orders, exit, crash.                *)
(***************************************************************************)
NeedsReconcile == Mode = "Live" /\ LoadState.open # {}

Start ==
  /\ pc = "down"
  /\ IF NeedsReconcile
     THEN pc' = "reconcile" /\ mem' = LoadState /\ todo' = LoadState.open
     ELSE pc' = "idle" /\ mem' = disk /\ todo' = {}
  /\ oid' = 0 /\ rep' = Nil /\ tries' = 0 /\ kept' = {}
  /\ UNCHANGED <<now, disk, journal, exch, call>>

Tracked(x) == x \in todo /\ pc = "reconcile"

\* Mutant: a partially filled order is taken for finished.
DecideNewOnly(x, r) ==
  /\ todo' = todo \ {x}
  /\ kept' = IF r.status = "New" THEN kept \cup {x} ELSE kept
  /\ pc' = "reconcile"

\* What becomes of a tracked order once its report is final for this start.
Decide(x, r) ==
  /\ todo' = todo \ {x}
  /\ kept' = IF r.status \in OpenStatus THEN kept \cup {x} ELSE kept
  /\ pc' = "reconcile"

\* A tracked order is queried; policy "ioc" cancels one that is still open.
ReconcileQuery(x) ==
  /\ Tracked(x)
  /\ LET r == ReportOf(x.oid)
     IN  IF r.status \in OpenStatus /\ Policy = "ioc"
         THEN pc' = "rcancel" /\ oid' = x.oid /\ rep' = r /\ UNCHANGED <<todo, kept>>
         ELSE Decide(x, r) /\ UNCHANGED <<oid, rep>>
  /\ UNCHANGED <<now, mem, disk, journal, exch, call, tries>>

ReconcileRecheck(x) ==
  /\ pc = "rrecheck" /\ x \in todo /\ x.oid = oid
  /\ \E r \in RecheckedReports : Decide(x, r)
  /\ oid' = 0 /\ rep' = Nil
  /\ UNCHANGED <<now, mem, disk, journal, exch, call, tries>>

\* A 404 drops the order.
ReconcilePrune(x) ==
  /\ Tracked(x)
  /\ "archived" \in Faults /\ ~Resting(x.oid)
  /\ todo' = todo \ {x}
  /\ UNCHANGED <<pc, now, mem, disk, journal, exch, call, oid, rep, tries, kept>>

\* Any other error abandons the reconciliation; the engine starts trading.
ReconcileError ==
  /\ pc = "reconcile" /\ todo # {} /\ "query_error" \in Faults
  /\ ReturnError
  /\ UNCHANGED journal

\* Mutant: the reconciled state is built from a default one.
ReconcileSaveDefault ==
  /\ pc = "reconcile" /\ todo = {}
  /\ disk' = [DefaultForToday EXCEPT !.open = kept]
  /\ mem' = disk'
  /\ pc' = "idle"
  /\ ClearLocals
  /\ UNCHANGED <<now, journal, exch, call>>

ReconcileSave ==
  /\ pc = "reconcile" /\ todo = {}
  /\ disk' = [mem EXCEPT !.open = kept]
  /\ mem' = disk'
  /\ pc' = "idle"
  /\ ClearLocals
  /\ UNCHANGED <<now, journal, exch, call>>

\* The process ends between two calls: run-once mode, or an operator.
Stop ==
  /\ pc = "idle"
  /\ pc' = "down"
  /\ UNCHANGED <<now, mem, disk, journal, exch, call, locals>>

\* The process dies anywhere.  An empty or unreadable file loads as a default.
Crash ==
  /\ "crash" \in Faults /\ pc # "down"
  /\ pc' = "down"
  /\ \/ disk' = disk
     \/ "state_lost" \in Faults /\ disk' = DefaultForToday
  /\ mem' = disk'
  /\ ClearLocals
  /\ UNCHANGED <<now, journal, exch, call>>

Tick ==
  /\ now < MaxTime
  /\ now' = now + 1
  /\ UNCHANGED <<pc, mem, disk, journal, exch, call, locals>>

------------------------------------------------------------------------------
Init ==
  /\ pc = "down" /\ now = 0
  /\ disk = DefaultForToday /\ mem = disk
  /\ journal = <<>> /\ exch = <<>> /\ call = Nil
  /\ oid = 0 /\ rep = Nil /\ tries = 0 /\ todo = {} /\ kept = {}

\* The steps the engine takes by itself once a call or a start is under way.
EngineStep ==
  \/ FallbackRefused \/ SavePreSubmit \/ PaperFill
  \/ PlaceOrder \/ PlaceFailed \/ PlaceLost \/ PlaceDuplicate
  \/ FirstReport \/ PollReport \/ QueryError \/ CancelOrder \/ RecheckReport
  \/ SettleReport \/ SaveReport \/ IoError
  \/ \E c \in Cids : ExecuteFallback(c)
  \/ \E x \in todo : ReconcileQuery(x) \/ ReconcileRecheck(x) \/ ReconcilePrune(x)
  \/ ReconcileError \/ ReconcileSave

Environment ==
  \/ \E o \in DOMAIN exch : ExchangeFill(o) \/ ExchangeCancel(o)
  \/ Tick

Next ==
  \/ EngineStep
  \/ \E s \in Signals, c \in Cids : ExecuteSignal(s, c)
  \/ Start \/ Stop \/ Crash
  \/ Environment

Spec == Init /\ [][Next]_vars

\* Every request is answered or fails: the code sets no timeout of its own,
\* so this is an assumption on the network, not something the engine ensures.
FairSpec == Spec /\ WF_vars(EngineStep) /\ WF_vars(Start)

------------------------------------------------------------------------------
(***************************************************************************)
(* Types.                                                                  *)
(***************************************************************************)
OrderStatus == OpenStatus \cup DoneStatus
TrackedOrder == [oid : Nat, cid : Cids \cup {Nil}]

RuntimeState ==
  [day : Nat, loss : Nat, exposure : Nat,
   recent : SUBSET [at : Nat, cid : Cids], seen : SUBSET Cids, open : SUBSET TrackedOrder]

JournalEntry ==
  [event : {"order_intent", "order_report", "order_error"}, cid : Cids \cup {Nil},
   sig : Signals, at : Nat, status : OrderStatus \cup {"None"}, filled : Nat]

ExchangeOrder ==
  [cid : Cids, count : Nat, filled : Nat, status : {"Resting"} \cup DoneStatus,
   tif : {"ioc", "gtc"}, price : Nat]

Call ==
  [sig : Signals, qty : Nat, total : Nat, tif : {"ioc", "gtc"}, leg : {1, 2},
   cid : Cids, base : Nat]

Report ==
  [cid : Cids \cup {Nil}, status : OrderStatus, filled : Nat, price : Nat, fee : Nat]

\* The variables hold values of the types the code gives them, and the
\* arguments, the order id and the report of a call are there when it uses them.
TypeOK ==
  /\ pc \in Phases /\ now \in Nat
  /\ mem \in RuntimeState /\ disk \in RuntimeState
  /\ journal \in Seq(JournalEntry) /\ exch \in Seq(ExchangeOrder)
  /\ call \in Call \cup {Nil} /\ rep \in Report \cup {Nil}
  /\ oid \in Nat /\ tries \in Nat
  /\ todo \in SUBSET TrackedOrder /\ kept \in SUBSET TrackedOrder
  /\ pc \in InOrder \cup {"fallback"} => call \in Call
  /\ pc \in {"settle", "reported", "fallback", "cancel", "recheck", "rcancel", "rrecheck"}
       => rep \in Report
  /\ pc \in {"placed", "poll", "cancel", "recheck", "rcancel", "rrecheck"}
       => oid \in DOMAIN exch
  /\ pc = "settle" => oid \in DOMAIN exch \/ rep.status \in DoneStatus
  /\ \A x \in disk.open \cup mem.open \cup todo \cup kept : x.oid \in DOMAIN exch

------------------------------------------------------------------------------
(***************************************************************************)
(* Safety.                                                                 *)
(***************************************************************************)

\* The exposure the kill switch reads never passes its limit by more than the
\* overshoot of one order, whatever fails and whenever the process dies: every
\* order is checked at its full size against the state it will be added to.
RecordedExposureBounded == disk.exposure <= MaxOpenExposure + Overshoot

\* An order reaches the exchange only after its intent is in the journal and,
\* unless the file was lost since, its id is in the saved state of its day: a
\* restart can always tell that the order may exist.
IntentBeforePlacement ==
  \A o \in DOMAIN exch :
    /\ exch[o].cid \in Intended
    /\ "state_lost" \notin Faults =>
         \A i \in IntentsOf(journal) :
           journal[i].cid = exch[o].cid /\ Day(journal[i].at) = disk.day
             => exch[o].cid \in disk.seen

\* A tracked order is an order of the exchange, tracked once, under the id it
\* was placed with or under none if the exchange echoes none, and the journal
\* holds the report that found it open.
TrackedOrdersSound ==
  \A x \in disk.open :
    /\ x.cid = EchoedCid(x.oid)
    /\ \A y \in disk.open : y.oid = x.oid => y = x
    /\ \E i \in ReportsOf(journal) :
         journal[i].cid = exch[x.oid].cid /\ journal[i].status \in OpenStatus

\* What the day has accumulated is never forgotten before the day is over:
\* recorded exposure and loss only grow, and an order id stays seen.
DayOnlyAccumulates ==
  [][disk'.day = disk.day =>
       /\ disk'.exposure >= disk.exposure
       /\ disk'.loss >= disk.loss
       /\ disk.seen \subseteq disk'.seen]_vars

\* Between calls, an order that rests on the exchange is tracked in the file,
\* unless its call failed before its report or the day has changed since: no
\* answer to a poll, a cancel or a startup query makes the engine lose it.
RestingOrdersTracked ==
  pc \in {"idle", "down"} =>
    \A o \in DOMAIN exch : Resting(o) =>
      \/ \E x \in disk.open : x.oid = o
      \/ ~\E i \in ReportsOf(journal) : journal[i].cid = exch[o].cid
      \/ \E i \in IntentsOf(journal) :
           journal[i].cid = exch[o].cid /\ Day(journal[i].at) # disk.day

\* Where cancels arrive and queries are answered, an IOC order never outlives
\* its call, although the exchange may leave it resting while it is polled.
IocNeverRests ==
  pc \in {"idle", "fallback"} =>
    ~\E o \in DOMAIN exch : Resting(o) /\ exch[o].tif = "ioc"

(***************************************************************************)
(* Liveness: retries and polls are bounded, so a call or a startup          *)
(* reconciliation comes to an end if every request it makes does.           *)
(***************************************************************************)
CallsEnd == pc \in Phases \ {"idle", "down"} ~> pc \in {"idle", "down"}
==============================================================================
