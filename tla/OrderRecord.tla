----------------------------- MODULE OrderRecord -----------------------------
(***************************************************************************)
(* The research record of orders (research/order_recorder.rs), the paper   *)
(* exchange (execution/paper_sim.rs) and the part of the engine that calls *)
(* the two.  The record is append-only and shared by every mode the bot    *)
(* runs in; which orders were real is told apart later, from the lines.    *)
(*                                                                         *)
(* Quantities: an order is for Whole units, a fill is 0 .. Whole.          *)
(***************************************************************************)
EXTENDS Naturals, Sequences, FiniteSets

CONSTANTS
  Cids,          \* client order ids
  Settings,      \* how the bot may be started: see Environments
  PollAttempts,  \* reconcile_poll_attempts
  MaxFaults,     \* bound: lines that are not written
  MaxTime,       \* bound: the clock
  None

Whole == 2

Statuses == {"New", "PartiallyFilled", "Filled", "Canceled"}
Answer   == [status : Statuses, filled : 0 .. Whole]
Report   == [status : Statuses, filled : 0 .. Whole, updated_at : 0 .. MaxTime]

\* What happens to an order, and where its call is.
Order ==
  [venue : {"paper", "sim", "real"}, tif : {"Ioc", "Gtc"},
   at : {"intent", "polling", "over", "done"}, fills : 0 .. Whole, ready : BOOLEAN,
   canceled : BOOLEAN, polls : 0 .. 1, left : 0 .. PollAttempts, report : Report \cup {None}]

\* The environment variables that choose how orders are executed.
Environments ==
  [capture : BOOLEAN, mode : {"live", "paper", None}, backend : {"kalshi", "paper_sim"}]

ASSUME OrderAssumption ==
  /\ PollAttempts \in Nat /\ MaxFaults \in Nat /\ MaxTime \in Nat
  /\ IsFiniteSet(Cids) /\ Settings \subseteq Environments /\ None \notin Order

VARIABLES
  clock,
  settings,  \* the environment variables of the running bot, None while it is down
  orders,    \* what happens to each order, None before its intent
  life,      \* the order_lifecycle lines of each order
  lost       \* bound: lines that could not be written so far

orderVars == <<clock, settings, orders, life, lost>>

-----------------------------------------------------------------------------
(* BOT_EXECUTION_MODE defaults to paper where the engine reads it, and to  *)
(* live where the recorder reads it.                                       *)

ExecutionMode(s) == IF ~s.capture /\ s.mode = "live" THEN "Live" ELSE "Paper"
DetectExecutionMode(s) == IF s.capture \/ s.mode = "paper" THEN "paper" ELSE "live"

\* Who fills the order: the engine itself, the paper exchange, the exchange.
Venue(s) == CASE ExecutionMode(s) = "Paper" -> "paper"
              [] ExecutionMode(s) = "Live" /\ s.backend = "paper_sim" -> "sim"
              [] OTHER -> "real"

-----------------------------------------------------------------------------
(* Lines of the record.  An order id shows its venue.                      *)

Over(r) == r.status \in {"Filled", "Canceled"}

Line(type, id, mode, status, filled) ==
  [type |-> type, id |-> id, mode |-> mode, status |-> status,
   filled |-> filled, ts |-> clock, origin |-> None]

Unreported(type) == Line(type, None, DetectExecutionMode(settings), None, 0)

InferredMode(v) == IF v \in {"paper", "sim"} THEN "paper" ELSE DetectExecutionMode(settings)

\* Dated by the report: it may be older than the line.
Reported(type, v, r) ==
  [Line(type, v, InferredMode(v), r.status, r.filled) EXCEPT !.ts = r.updated_at]

\* A line that cannot be written is a warning and nothing more.
RecordLine(c, line) ==
  \/ life' = [life EXCEPT ![c] = Append(@, line)] /\ UNCHANGED lost
  \/ lost < MaxFaults /\ lost' = lost + 1 /\ UNCHANGED life

-----------------------------------------------------------------------------
(* The paper exchange.                                                     *)

\* get_order of the paper exchange: the report, and the order after it.
SimReport(o) ==
  CASE o.canceled -> [status |-> "Canceled", filled |-> 0]
    [] ~o.canceled /\ ~o.ready -> [status |-> "New", filled |-> 0]
    [] ~o.canceled /\ o.ready /\ o.fills = 0 -> [status |-> "Canceled", filled |-> 0]
    [] ~o.canceled /\ o.ready /\ o.fills = Whole -> [status |-> "Filled", filled |-> Whole]
    [] OTHER -> [status |-> IF o.polls = 0 THEN "PartiallyFilled" ELSE "Canceled",
                 filled |-> o.fills]

SimPolled(o) == IF o.ready /\ ~o.canceled THEN [o EXCEPT !.polls = 1] ELSE o

(* The exchange.  `fills' is what it has filled of the order.              *)
RealReport(o) ==
  [status |-> CASE o.fills = Whole -> "Filled"
                [] o.fills # Whole /\ o.canceled -> "Canceled"
                [] OTHER -> IF o.fills = 0 THEN "New" ELSE "PartiallyFilled",
   filled |-> o.fills]

ReportNow(reply) ==
  [status |-> reply.status, filled |-> reply.filled, updated_at |-> clock]

GetOrder(o) == ReportNow(IF o.venue = "sim" THEN SimReport(o) ELSE RealReport(o))
Polled(o) == IF o.venue = "sim" THEN SimPolled(o) ELSE o

-----------------------------------------------------------------------------
(* One order at a time, as execute_single_order goes through it.           *)

InFlight == {c \in Cids : orders[c] # None /\ orders[c].at # "done"}
Reached(c, s) == settings # None /\ orders[c] # None /\ orders[c].at = s

PlaceIntent(c) ==
  /\ settings # None /\ InFlight = {} /\ orders[c] = None
  /\ \E tif \in {"Ioc", "Gtc"}, origin \in {None, "bootstrap_synthetic"} :
       /\ orders' = [orders EXCEPT ![c] =
            [venue |-> Venue(settings), tif |-> tif, at |-> "intent", fills |-> 0,
             ready |-> FALSE, canceled |-> FALSE, polls |-> 0,
             left |-> PollAttempts, report |-> None]]
       /\ RecordLine(c, [Unreported("intent") EXCEPT !.origin = origin])
  /\ UNCHANGED <<clock, settings>>

\* Paper mode: filled at the observed price if the limit reaches it.
PaperFills(c) ==
  /\ Reached(c, "intent") /\ orders[c].venue = "paper"
  /\ \E n \in {0, Whole} :
       LET r == ReportNow([status |-> IF n = 0 THEN "Canceled" ELSE "Filled", filled |-> n])
       IN orders' = [orders EXCEPT ![c].fills = n, ![c].report = r, ![c].at = "over"]
  /\ UNCHANGED <<clock, settings, life, lost>>

\* The placement or the first query fails: the order may exist all the same.
SubmitFails(c) ==
  /\ Reached(c, "intent") /\ orders[c].venue = "real"
  /\ orders' = [orders EXCEPT ![c].at = "done"]
  /\ RecordLine(c, Unreported("submit_error"))
  /\ UNCHANGED <<clock, settings>>

\* The paper exchange decides at once what it will fill.
Submit(c) ==
  /\ Reached(c, "intent") /\ orders[c].venue # "paper"
  /\ \E n \in IF orders[c].venue = "sim" THEN 0 .. Whole ELSE {orders[c].fills} :
       LET o == [orders[c] EXCEPT !.fills = n]
           r == GetOrder(o)
       IN orders' = [orders EXCEPT ![c] =
            [Polled(o) EXCEPT !.report = r, !.at = IF Over(r) THEN "over" ELSE "polling"]]
  /\ RecordLine(c, Line("ack", orders[c].venue, DetectExecutionMode(settings), "New", 0))
  /\ UNCHANGED <<clock, settings>>

Poll(c) ==
  /\ Reached(c, "polling") /\ orders[c].left > 0
  /\ LET r == GetOrder(orders[c]) IN
     /\ orders' = [orders EXCEPT ![c] =
          [Polled(orders[c]) EXCEPT !.report = r, !.left = @ - 1,
                                    !.at = IF Over(r) THEN "over" ELSE "polling"]]
     /\ RecordLine(c, Reported("reconcile", orders[c].venue, r))
  /\ UNCHANGED <<clock, settings>>

\* A query that fails ends the call without a terminal line.
PollFails(c) ==
  /\ Reached(c, "polling") /\ orders[c].left > 0 /\ orders[c].venue = "real"
  /\ orders' = [orders EXCEPT ![c].at = "done"]
  /\ UNCHANGED <<clock, settings, life, lost>>

\* The cancel may be lost, the query after it may fail: then the last report counts.
CancelIoc(c) ==
  /\ Reached(c, "polling") /\ orders[c].left = 0 /\ orders[c].tif = "Ioc"
  /\ \E arrives, answered \in BOOLEAN :
       /\ orders[c].venue = "sim" => arrives /\ answered
       /\ LET o == [orders[c] EXCEPT !.canceled = @ \/ arrives]
              r == IF answered THEN GetOrder(o) ELSE o.report
          IN orders' = [orders EXCEPT ![c] = [Polled(o) EXCEPT !.report = r, !.at = "over"]]
  /\ RecordLine(c, Unreported("cancel_requested"))
  /\ UNCHANGED <<clock, settings>>

GtcRests(c) ==
  /\ Reached(c, "polling") /\ orders[c].left = 0 /\ orders[c].tif = "Gtc"
  /\ orders' = [orders EXCEPT ![c].at = "over"]
  /\ UNCHANGED <<clock, settings, life, lost>>

RecordTerminal(c) ==
  /\ Reached(c, "over")
  /\ orders' = [orders EXCEPT ![c].at = "done"]
  /\ RecordLine(c, Reported("terminal", orders[c].venue, orders[c].report))
  /\ UNCHANGED <<clock, settings>>

-----------------------------------------------------------------------------
(* Around the bot.                                                         *)

Placed(c) == orders[c] # None /\ orders[c].at # "intent"

\* The exchange fills an order, or ends it.
ExchangeMoves(c) ==
  /\ orders[c] # None /\ orders[c].venue = "real" /\ orders[c].fills < Whole
  /\ ~orders[c].canceled
  /\ \/ orders' = [orders EXCEPT ![c].fills = @ + 1]
     \/ orders' = [orders EXCEPT ![c].canceled = TRUE]
  /\ UNCHANGED <<clock, settings, life, lost>>

LatencyPasses(c) ==
  /\ Placed(c) /\ orders[c].venue = "sim" /\ ~orders[c].ready
  /\ orders[c].at # "done"
  /\ orders' = [orders EXCEPT ![c].ready = TRUE]
  /\ UNCHANGED <<clock, settings, life, lost>>

Tick ==
  /\ clock < MaxTime
  /\ clock' = clock + 1
  /\ UNCHANGED <<settings, orders, life, lost>>

\* The process ends: an order in flight gets no further line.
OrderCallDies ==
  orders' = [c \in Cids |-> IF c \in InFlight THEN [orders[c] EXCEPT !.at = "done"]
                            ELSE orders[c]]

\* An order the exchange filled at once, and what an earlier run recorded of it.
EarlierOrder ==
  [venue |-> "real", tif |-> "Ioc", at |-> "done", fills |-> Whole, ready |-> FALSE,
   canceled |-> FALSE, polls |-> 0, left |-> PollAttempts,
   report |-> [status |-> "Filled", filled |-> Whole, updated_at |-> 0]]
EarlierLines ==
  <<Line("intent", None, "live", None, 0), Line("ack", "real", "live", "New", 0),
    Line("terminal", "real", "live", "Filled", Whole)>>

OrderInit(before) ==
  /\ clock = 0 /\ lost = 0 /\ settings = None
  /\ orders = [c \in Cids |-> IF c \in before THEN EarlierOrder ELSE None]
  /\ life = [c \in Cids |-> IF c \in before THEN EarlierLines ELSE <<>>]

OrderTypeOK ==
  /\ clock \in 0 .. MaxTime /\ lost \in 0 .. MaxFaults
  /\ settings \in Environments \cup {None}
  /\ orders \in [Cids -> Order \cup {None}]
  /\ \A c \in Cids : orders[c] # None /\ orders[c].at = "over" =>
       orders[c].report.filled <= orders[c].fills
  /\ Cardinality(InFlight) <= 1
=============================================================================
