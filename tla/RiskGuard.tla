------------------------------ MODULE RiskGuard ------------------------------
(***************************************************************************)
(* The risk guards of the trading cycle (src/main.rs).  At the end of a    *)
(* cycle the allocator's trades pass the guards, which know nothing but    *)
(* what they replay from the trade journal; the survivors are executed one *)
(* after the other, and the engine journals what it learned about each.    *)
(*                                                                         *)
(* An order is here what the journal and the exchange see of it: an intent *)
(* and then a report, an error or silence, while the exchange fills it or  *)
(* lets it rest.  ExecutionEngine has the steps between.  Amounts are      *)
(* notionals in units of the smallest trade.                               *)
(***************************************************************************)
EXTENDS Integers, Sequences, FiniteSets, FiniteSetsExt

CONSTANTS
  Tickers,             \* markets
  Cids,                \* client order ids, each used once
  Notionals,           \* what the allocator may give a trade
  Policy,              \* EngineConfig::execution_policy
  MaxNotionalPerTicker,
  ReentryCooldown,     \* seconds, in ticks
  InvalidParamCooldown,
  NoPriceFactor,       \* a NO fill is reported at its YES price: worth this much
  Faults,              \* see AllFaults
  MaxTime,             \* bound of the model: the clock stops here
  Nil

AllFaults ==
  { "silent",        \* an order is placed and its call ends without a report
    "cancel_lost",   \* an IOC order still rests when its call reports it
    "anonymous" }    \* the exchange's report carries no client order id

Outcomes == {"yes", "no"}
Trade    == [ticker : Tickers, outcome : Outcomes, notional : Nat \ {0}]

ASSUME GuardAssumption ==
  /\ Notionals \subseteq Nat \ {0} /\ \E n \in Notionals : \A m \in Notionals : m <= n
  /\ Policy \in {"ioc", "gtc", "hybrid"}
  /\ MaxNotionalPerTicker \in Nat /\ ReentryCooldown \in Nat
  /\ InvalidParamCooldown \in Nat /\ NoPriceFactor \in Nat \ {0}
  /\ Faults \subseteq AllFaults /\ MaxTime \in Nat
  /\ Nil \notin Cids

VARIABLES
  now,
  journal,  \* the trade journal, as far as the guards read it
  orders,   \* the exchange: a record for each id it accepted
  queue,    \* the trades of the current cycle still to be executed
  call      \* the trade being executed, with its leg and id; or Nil

vars == <<now, journal, orders, queue, call>>

OpenStatus == {"New", "PartiallyFilled"}
DoneStatus == {"Filled", "Canceled", "Rejected"}

(***************************************************************************)
(* load_ticker_risk_state_from_journal.  The replay goes through the       *)
(* journal in order; what it leaves for a market is stated here directly.  *)
(***************************************************************************)
Events(ev) == {i \in DOMAIN journal : journal[i].event = ev}

\* The reports that have an intent before them, for market t.
ReportsOn(t) ==
  {i \in Events("order_report") :
     \E j \in Events("order_intent") :
       j < i /\ journal[j].cid = journal[i].cid /\ journal[j].ticker = t}

FillsOn(t) == {i \in ReportsOn(t) : journal[i].status = "Filled" /\ journal[i].value > 0}

\* open_notional_estimate: nothing ever lowers it.  It is the sum of the
\* fills' values, stated as the number of the units they are made of.
FilledUnits(t)  == UNION {{i} \X (1..journal[i].value) : i \in FillsOn(t)}
OpenNotional(t) == Cardinality(FilledUnits(t))

\* last_fill_ts and last_invalid_parameters_ts: how long ago, for the latest.
RecentFill(t)    == \E i \in FillsOn(t) : now - journal[i].at < ReentryCooldown
InvalidsOn(t)    == {i \in Events("order_error") : journal[i].ticker = t /\ journal[i].invalid}
RecentInvalid(t) == InvalidsOn(t) # {} /\ now - journal[Max(InvalidsOn(t))].at < InvalidParamCooldown

\* open_order_keys: an outcome is in it if its last report found an open order.
KeyReports(t, k) == {i \in ReportsOn(t) : journal[i].outcome = k}
HasOpenKey(t, k) ==
  KeyReports(t, k) # {} /\ journal[Max(KeyReports(t, k))].status \in OpenStatus

\* A market the journal says nothing about passes every guard.
Known(t) == ReportsOn(t) # {} \/ InvalidsOn(t) # {}

\* Mutants of the guard: the proposed trade is left out of the cap; the
\* cooldowns are forgotten; open orders are not looked at.
AdmitsWithoutTrade(a) ==
  Known(a.ticker) =>
    /\ OpenNotional(a.ticker) <= MaxNotionalPerTicker
    /\ ~RecentFill(a.ticker) /\ ~RecentInvalid(a.ticker) /\ ~HasOpenKey(a.ticker, a.outcome)

AdmitsWithoutCooldowns(a) ==
  Known(a.ticker) =>
    /\ OpenNotional(a.ticker) + a.notional <= MaxNotionalPerTicker
    /\ ~HasOpenKey(a.ticker, a.outcome)

AdmitsDuplicates(a) ==
  Known(a.ticker) =>
    /\ OpenNotional(a.ticker) + a.notional <= MaxNotionalPerTicker
    /\ ~RecentFill(a.ticker) /\ ~RecentInvalid(a.ticker)

\* The guards of run_cycle.
Admits(a) ==
  Known(a.ticker) =>
    /\ OpenNotional(a.ticker) + a.notional <= MaxNotionalPerTicker
    /\ ~RecentFill(a.ticker)
    /\ ~RecentInvalid(a.ticker)
    /\ ~HasOpenKey(a.ticker, a.outcome)

------------------------------------------------------------------------------
Entry(ev, status, value, invalid) ==
  [event |-> ev, cid |-> call.cid, ticker |-> call.ticker, outcome |-> call.outcome,
   leg |-> call.leg, status |-> status, value |-> value, invalid |-> invalid, at |-> now]

Admitted(A) == {i \in DOMAIN A : Admits(A[i])}

\* The ways to list I in order: there is one.
Ordered(I) == {f \in [1..Cardinality(I) -> I] : \A i, j \in DOMAIN f : i < j => f[i] < f[j]}

\* A cycle begins to execute: the allocator's trades pass the guards together.
\* They are one per market: Claude may name a market twice, but the allocator
\* takes one candidate of an event (BOT_ENFORCE_EVENT_MUTEX).
\* The journal is that of a live bot: only paper capture lets a forced candidate
\* bypass the guards, and it sends no order.
BeginCycle(A) ==
  /\ queue = <<>> /\ call = Nil
  /\ A # <<>>
  /\ \A i, j \in DOMAIN A : A[i].ticker = A[j].ticker => i = j
  /\ \E f \in Ordered(Admitted(A)) : queue' = [i \in DOMAIN f |-> A[f[i]]]
  /\ UNCHANGED <<now, journal, orders, call>>

\* The mapper or the engine refuses the next trade before its intent.
SkipTrade ==
  /\ queue # <<>> /\ call = Nil
  /\ queue' = Tail(queue)
  /\ UNCHANGED <<now, journal, orders, call>>

LegSize(total, leg) == IF Policy = "hybrid" /\ leg = 1 THEN (total + 1) \div 2 ELSE total

Used == {journal[i].cid : i \in Events("order_intent")}

\* A mutant: the intent is not journaled.
IntendUnwritten(a, c, n, leg) ==
  /\ c \notin Used
  /\ call' = [ticker |-> a.ticker, outcome |-> a.outcome, cid |-> c, leg |-> leg,
              left |-> n, size |-> LegSize(n, leg),
              ioc |-> Policy = "ioc" \/ (Policy = "hybrid" /\ leg = 1)]
  /\ journal' = journal

\* The intent of a leg: n is what is left of the trade.
Intend(a, c, n, leg) ==
  /\ c \notin Used
  /\ call' = [ticker |-> a.ticker, outcome |-> a.outcome, cid |-> c, leg |-> leg,
              left |-> n, size |-> LegSize(n, leg),
              ioc |-> Policy = "ioc" \/ (Policy = "hybrid" /\ leg = 1)]
  /\ journal' = Append(journal,
       [event |-> "order_intent", cid |-> c, ticker |-> a.ticker, outcome |-> a.outcome,
        leg |-> leg, status |-> "None", value |-> 0, invalid |-> FALSE, at |-> now])

BeginTrade(c) ==
  /\ queue # <<>> /\ call = Nil
  /\ Intend(Head(queue), c, Head(queue).notional, 1)
  /\ queue' = Tail(queue)
  /\ UNCHANGED <<now, orders>>

\* The second leg of a hybrid signal, or the end of the call.
AfterReport(status, filled) ==
  IF Policy = "hybrid" /\ call.leg = 1 /\ status # "Rejected" /\ call.left > filled
  THEN call' = [call EXCEPT !.leg = 2, !.left = @ - filled, !.cid = Nil]
  ELSE call' = Nil

BetweenLegs == call # Nil /\ call.cid = Nil

BeginSecondLeg(c) ==
  /\ BetweenLegs
  /\ Intend(call, c, call.left, 2)
  /\ UNCHANGED <<now, orders, queue>>

\* The second leg is refused before its intent.
SkipSecondLeg ==
  /\ BetweenLegs
  /\ call' = Nil
  /\ UNCHANGED <<now, journal, orders, queue>>

Submitting == call # Nil /\ call.cid # Nil

\* What the exchange makes of an order by the time its call is over.
Accept(filled, rests) ==
  orders' = [c \in DOMAIN orders \cup {call.cid} |->
               IF c \in DOMAIN orders THEN orders[c]
               ELSE [ticker |-> call.ticker, outcome |-> call.outcome,
                     size |-> call.size, filled |-> filled, rests |-> rests]]

StatusOf(filled, rests) ==
  IF rests THEN IF filled = 0 THEN "New" ELSE "PartiallyFilled"
  ELSE IF filled = call.size THEN "Filled" ELSE "Canceled"

ReportValue(filled) == IF call.outcome = "no" THEN filled * NoPriceFactor ELSE filled

\* The call ends with a report.  A GTC order may be reported resting; an IOC
\* order was canceled by then, unless the cancel was lost.
Settle ==
  /\ Submitting
  /\ \E filled \in 0..call.size, rests \in BOOLEAN :
       /\ rests => filled < call.size /\ (call.ioc => "cancel_lost" \in Faults)
       /\ Accept(filled, rests)
       /\ AfterReport(StatusOf(filled, rests), filled)
       /\ \E c \in {call.cid} \cup (IF "anonymous" \in Faults THEN {Nil} ELSE {}) :
            journal' = Append(journal, [Entry("order_report", StatusOf(filled, rests),
                                              ReportValue(filled), FALSE) EXCEPT !.cid = c])
  /\ UNCHANGED <<now, queue>>

\* The exchange rejects the order.
SettleRejected ==
  /\ Submitting
  /\ Accept(0, FALSE)
  /\ AfterReport("Rejected", 0)
  /\ journal' = Append(journal, Entry("order_report", "Rejected", 0, FALSE))
  /\ UNCHANGED <<now, queue>>

\* The order reached the exchange or it did not, and nobody reports it.
Unreported ==
  \/ UNCHANGED orders
  \/ /\ "silent" \in Faults
     /\ \E filled \in 0..call.size, rests \in BOOLEAN :
          (rests => filled < call.size) /\ Accept(filled, rests)

\* The submission fails, in the placement or in the query after it; the error is
\* journaled and may name the parameters.
SubmitError ==
  /\ Submitting
  /\ Unreported
  /\ \E invalid \in BOOLEAN :
       journal' = Append(journal, [Entry("order_error", "None", 0, invalid) EXCEPT !.cid = Nil])
  /\ call' = Nil
  /\ UNCHANGED <<now, queue>>

\* A poll fails, or the process dies and its queue with it: nothing is journaled.
EndSilently ==
  /\ "silent" \in Faults /\ Submitting
  /\ Unreported
  /\ call' = Nil
  /\ queue' \in {queue, <<>>}
  /\ UNCHANGED <<now, journal>>

\* A resting order fills further, or is over.  Nobody journals it: the startup
\* reconciliation writes no order_report.
Rested(c) ==
  /\ orders[c].rests
  /\ \E filled \in orders[c].filled..orders[c].size, rests \in BOOLEAN :
       /\ rests => filled < orders[c].size
       /\ orders' = [orders EXCEPT ![c].filled = filled, ![c].rests = rests]
  /\ UNCHANGED <<now, journal, queue, call>>

Tick ==
  /\ now < MaxTime
  /\ now' = now + 1
  /\ UNCHANGED <<journal, orders, queue, call>>

Trades == [ticker : Tickers, outcome : Outcomes, notional : Notionals]

Init ==
  /\ now = 0 /\ journal = <<>> /\ queue = <<>> /\ call = Nil
  /\ orders = [c \in {} |-> Nil]

\* Bound of the model: a cycle has at most two trades.
Proposals == {<<a>> : a \in Trades} \cup {<<a, b>> : a, b \in Trades}

Cycle == \E A \in Proposals : BeginCycle(A)

Next ==
  \/ Cycle \/ SkipTrade \/ SkipSecondLeg
  \/ \E c \in Cids : BeginTrade(c) \/ BeginSecondLeg(c)
  \/ Settle \/ SettleRejected \/ SubmitError \/ EndSilently
  \/ \E c \in DOMAIN orders : Rested(c)
  \/ Tick

Spec == Init /\ [][Next]_vars

------------------------------------------------------------------------------
Call ==
  [ticker : Tickers, outcome : Outcomes, cid : Cids \cup {Nil}, leg : {1, 2},
   left : Nat, size : Nat, ioc : BOOLEAN]

JournalEntry ==
  [event : {"order_intent", "order_report", "order_error"}, cid : Cids \cup {Nil},
   ticker : Tickers, outcome : Outcomes, leg : {1, 2},
   status : OpenStatus \cup DoneStatus \cup {"None"}, value : Nat, invalid : BOOLEAN,
   at : Nat]

Order == [ticker : Tickers, outcome : Outcomes, size : Nat, filled : Nat, rests : BOOLEAN]

\* The variables hold values of their types; an order on the exchange was
\* intended, and never fills past its size.
TypeOK ==
  /\ now \in Nat
  /\ journal \in Seq(JournalEntry)
  /\ queue \in Seq(Trade)
  /\ call \in Call \cup {Nil}
  /\ DOMAIN orders \subseteq Used
  /\ \A c \in DOMAIN orders : orders[c] \in Order /\ orders[c].filled <= orders[c].size

LargestTrade == Max(Notionals)
Larger(a, b) == IF a < b THEN b ELSE a

\* Through any sequence of cycles and of legs, the fills the journal records
\* for a market stay within the cap, but for the price at which a NO fill is
\* reported.  The first trade on a market passes unchecked, so the cap is never
\* below the largest trade.
RecordedNotionalCapped ==
  \A t \in Tickers :
    OpenNotional(t) <= Larger(MaxNotionalPerTicker, LargestTrade)
                         + (NoPriceFactor - 1) * LargestTrade

\* No trade begins on a market within a cooldown of a fill or of a rejected
\* parameter there, although the guards look at it once for the whole cycle and
\* the trade may begin much later.
CooldownsRespected ==
  \A i \in Events("order_intent") : journal[i].leg = 1 =>
    /\ \A r \in FillsOn(journal[i].ticker) :
         r < i => journal[i].at - journal[r].at >= ReentryCooldown
    /\ \A e \in InvalidsOn(journal[i].ticker) :
         e < i => journal[i].at - journal[e].at >= InvalidParamCooldown

\* No trade begins for an outcome while an order rests there whose report was
\* journaled, however many legs, calls and cycles came between: the open-order
\* guard is as good as the reports it reads.
ReportedOrdersBlock ==
  \A i \in Events("order_report"), j \in Events("order_intent") :
    /\ i < j /\ journal[j].leg = 1
    /\ journal[i].ticker = journal[j].ticker /\ journal[i].outcome = journal[j].outcome
    /\ journal[i].cid \in DOMAIN orders
    => ~orders[journal[i].cid].rests
==============================================================================
