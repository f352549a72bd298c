--------------------------- MODULE ExecutionLedger ---------------------------
(***************************************************************************)
(* Properties of the execution engine that add up or line up its history:  *)
(* the orders of the exchange against the journal and the state file, and  *)
(* the engine as an implementation of OrderLedger.                         *)
(***************************************************************************)
EXTENDS ExecutionEngine, Lists

IntentOf(c) == journal[CHOOSE i \in IntentsOf(journal) : journal[i].cid = c]

\* What the orders in O have filled, at the price their reports carry.
FilledNotional(O) ==
  Total([o \in DOMAIN exch |-> IF o \in O THEN exch[o].filled * exch[o].price ELSE 0])

OrdersOfDay(d) == {o \in DOMAIN exch : Day(IntentOf(exch[o].cid).at) = d}

\* The recorded exposure never counts a fill twice, nor one that did not
\* happen: it is at most what the orders of the day have filled.
ExposureNeverOverstated ==
  Mode = "Live" => disk.exposure <= FilledNotional(OrdersOfDay(disk.day))

\* Orders sent within a window of the rate limit, the one with id c the last.
SentInWindow(c) ==
  {d \in {exch[o].cid : o \in DOMAIN exch} :
     /\ Day(IntentOf(d).at) = Day(IntentOf(c).at)
     /\ IntentOf(d).at \in (IntentOf(c).at - RateWindow)..IntentOf(c).at}

\* No more orders than the limit reach the exchange in any window inside a
\* day, through crashes and failed calls: the time of an order is saved before
\* the order is sent.
PlacementRateLimited ==
  \A o \in DOMAIN exch : Cardinality(SentInWindow(exch[o].cid)) <= MaxOrdersPerMinute

\* What the orders of the current, or else of the last, signal have filled.
LegsFilled == Total([o \in DOMAIN exch |-> IF o > call.base THEN exch[o].filled ELSE 0])

\* Where cancels arrive and queries are answered, the two legs of a hybrid
\* signal together never fill more than the signal asked for: the second is
\* sized from a report that can no longer change.
HybridNeverOverfills == call # Nil => LegsFilled <= Rounded(call.total)

(***************************************************************************)
(* Refinement.                                                             *)
(***************************************************************************)
StageOf(c) ==
  IF \E i \in ReportsOf(journal) : journal[i].cid = c THEN "reported"
  ELSE IF Known(c) THEN "placed"
  ELSE IF c \in Intended THEN "intended" ELSE "fresh"

Ledger == INSTANCE OrderLedger WITH
            Simulated <- (Mode = "Paper"),
            stage  <- [c \in Cids |-> StageOf(c)],
            active <- IF pc \in InOrder \ {"reported"} THEN call.cid ELSE Nil

\* The engine keeps the promise of OrderLedger: one order at a time, an id is
\* never reused, and once its call has ended an order is never sent again.
ImplementsOrderLedger == Ledger!Spec
==============================================================================
