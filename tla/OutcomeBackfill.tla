--------------------------- MODULE OutcomeBackfill ---------------------------
(***************************************************************************)
(* The outcome backfill (outcomes/resolver.rs): it asks the exchange how   *)
(* the markets ended that were recorded or traded, and appends what it     *)
(* learns to outcomes.jsonl, from which the datasets take their labels.    *)
(* The bot runs it every 18 cycles; rebuild_models.sh runs it in a process *)
(* of its own, and nothing keeps the two apart.                            *)
(*                                                                         *)
(* Tickers are numbers, in the order in which the backfill visits them.    *)
(* Of the file the model keeps, for each ticker, what its two readers can  *)
(* tell: the last record, and whether some record settles the ticker.      *)
(***************************************************************************)
EXTENDS Naturals, FiniteSets, FiniteSetsExt

CONSTANTS
  Count,           \* number of tickers
  Procs,           \* the processes that may run a backfill
  Periodic,        \* the one that runs it again and again, the trading loop
  NullRetryLimit,  \* BOT_OUTCOME_NULL_RETRY_LIMIT; 0 is no limit
  Traded,          \* the tickers that may have a filled order before the run begins
  MaxDeaths,       \* bound: processes killed
  Nil

Tickers == 1 .. Count

ASSUME BackfillAssumption ==
  /\ Count \in Nat \ {0} /\ NullRetryLimit \in Nat /\ MaxDeaths \in Nat
  /\ Traded \subseteq Tickers /\ Periodic \in Procs

VARIABLES
  answer,      \* what the exchange says of each market
  scanned,     \* closed markets with a market_state line in the lookback
  filled,      \* tickers with a filled order in order_lifecycle
  outcomes,    \* outcomes.jsonl, ticker by ticker
  backfill,    \* the backfill each process runs, Nil for none
  overlapped,  \* history: two backfills have run at the same time
  deaths       \* bound: processes killed so far

backfillVars == <<answer, scanned, filled, outcomes, backfill, overlapped, deaths>>

-----------------------------------------------------------------------------
(* The exchange.  A market that trades may already carry an empty result;  *)
(* a settled one gets its result later; a canceled one may carry a value.  *)

Results == {Nil, "blank", "yes", "no"}
Answers == [status : {"active", "settled", "canceled"}, result : Results]

Trading(a) == a.status = "active" /\ a.result \in {Nil, "blank"}
Final(a) == a.status = "canceled" \/ a.result \in {"yes", "no"}

After(a) ==
  {[status |-> "settled", result |-> r] : r \in {"yes", "no"}}
    \cup IF a.status = "active"
         THEN {[status |-> "settled", result |-> "blank"],
               [status |-> "canceled", result |-> "no"]}
         ELSE {}

Settle(t) ==
  /\ ~Final(answer[t])
  /\ \E a \in After(answer[t]) : answer' = [answer EXCEPT ![t] = a]
  /\ UNCHANGED <<scanned, filled, outcomes, backfill, overlapped, deaths>>

-----------------------------------------------------------------------------
(* What a record says, and what the readers of the file make of it.        *)

\* Any result field, even an empty one, makes the market "resolved".
ParseResolutionStatus(a) ==
  CASE a.status = "settled" -> "resolved"
    [] a.status = "canceled" -> "canceled"
    [] a.status = "active" /\ a.result # Nil -> "resolved"
    [] OTHER -> "unresolved"

ParseOutcomeYes(a) == IF a.result \in {"yes", "no"} THEN a.result ELSE Nil

Record(a) == [status |-> ParseResolutionStatus(a), yes |-> ParseOutcomeYes(a)]
Records == [status : {"resolved", "canceled"}, yes : {Nil, "yes", "no"}]

FullySettled(r) == r.yes # Nil \/ r.status = "canceled"

Settled == {t \in Tickers : outcomes[t] # Nil /\ outcomes[t].settled}
AnyRecord == {t \in Tickers : outcomes[t] # Nil}

\* A mutant: a record without outcome settles its ticker.
AppendedAsSettled(o, r) == [last |-> r, settled |-> TRUE]

Appended(o, r) ==
  [last |-> r, settled |-> FullySettled(r) \/ (o # Nil /\ o.settled)]

-----------------------------------------------------------------------------
(* The backfill of one process.                                            *)

\* A mutant: only the recently recorded markets are asked for.
ScannedOnly == scanned

CandidateTickers == scanned \cup filled

\* It reads the three sets once, before its first request.
StartBackfill(p) ==
  /\ backfill[p] = Nil
  /\ backfill' = [backfill EXCEPT ![p] =
       [todo |-> CandidateTickers, resolved |-> Settled, seen |-> AnyRecord,
        at |-> 1, nullRetried |-> 0, new |-> [t \in Tickers |-> Nil]]]
  /\ overlapped' = (overlapped \/ \E q \in Procs \ {p} : backfill[q] # Nil)
  /\ UNCHANGED <<answer, scanned, filled, outcomes, deaths>>

\* The limit counts the tickers that have a record already, and only them.
OverLimit(b, t) ==
  t \in b.seen /\ NullRetryLimit > 0 /\ b.nullRetried >= NullRetryLimit

Due(b) == {t \in b.todo \ b.resolved : t >= b.at /\ ~OverLimit(b, t)}

Fetching(p, t) ==
  /\ backfill[p] # Nil
  /\ Due(backfill[p]) # {}
  /\ t = Min(Due(backfill[p]))

Past(b, t) ==
  [b EXCEPT !.at = t + 1,
            !.nullRetried = IF t \in b.seen THEN @ + 1 ELSE @]

\* A mutant: an open market gets a record too.
FetchOutcomeUnfiltered(p, t) ==
  /\ Fetching(p, t)
  /\ backfill' = [backfill EXCEPT ![p] =
       [Past(@, t) EXCEPT !.new[t] = Record(answer[t])]]
  /\ UNCHANGED <<answer, scanned, filled, outcomes, overlapped, deaths>>

FetchOutcome(p, t) ==
  /\ Fetching(p, t)
  /\ LET r == Record(answer[t]) IN
     backfill' = [backfill EXCEPT ![p] =
       [Past(@, t) EXCEPT !.new[t] = IF r.status = "unresolved" THEN Nil ELSE r]]
  /\ UNCHANGED <<answer, scanned, filled, outcomes, overlapped, deaths>>

FetchFails(p, t) ==
  /\ Fetching(p, t)
  /\ backfill' = [backfill EXCEPT ![p] = Past(@, t)]
  /\ UNCHANGED <<answer, scanned, filled, outcomes, overlapped, deaths>>

Visited(p) == backfill[p] # Nil /\ Due(backfill[p]) = {}

WithRecords(p, ts) ==
  [t \in Tickers |-> IF t \in ts /\ backfill[p].new[t] # Nil
                     THEN Appended(outcomes[t], backfill[p].new[t])
                     ELSE outcomes[t]]

AppendOutcomes(p) ==
  /\ Visited(p)
  /\ outcomes' = WithRecords(p, Tickers)
  /\ backfill' = [backfill EXCEPT ![p] = Nil]
  /\ UNCHANGED <<answer, scanned, filled, overlapped, deaths>>

\* A killed process loses what it had not appended.
BackfillDies(p) ==
  /\ backfill[p] # Nil
  /\ deaths < MaxDeaths
  /\ \E n \in 0 .. Count :
       /\ n > 0 => Visited(p)
       /\ outcomes' = WithRecords(p, 1 .. n)
  /\ backfill' = [backfill EXCEPT ![p] = Nil]
  /\ deaths' = deaths + 1
  /\ UNCHANGED <<answer, scanned, filled, overlapped>>

\* A market_state line of a closed market is recorded, or gets too old.
MarketStateChanges(t) ==
  /\ scanned' \in {scanned \cup {t}, scanned \ {t}}
  /\ scanned' # scanned
  /\ UNCHANGED <<answer, filled, outcomes, backfill, overlapped, deaths>>

-----------------------------------------------------------------------------
BackfillInit(traded) ==
  /\ answer \in [Tickers -> {a \in Answers : Trading(a)}]
  /\ scanned = {}
  /\ filled = traded
  /\ outcomes = [t \in Tickers |-> Nil]
  /\ backfill = [p \in Procs |-> Nil]
  /\ overlapped = FALSE
  /\ deaths = 0

\* One step of the exchange, of the recorded data or of a backfill.
BackfillNext ==
  \/ \E t \in Tickers : Settle(t) \/ MarketStateChanges(t)
  \/ \E p \in Procs : StartBackfill(p) \/ AppendOutcomes(p) \/ BackfillDies(p)
  \/ \E p \in Procs, t \in Tickers : FetchOutcome(p, t) \/ FetchFails(p, t)

BackfillSpec == BackfillInit(Traded) /\ [][BackfillNext]_backfillVars

\* The trading loop comes back to its backfill again and again, the exchange
\* gives every market a result, and it does not refuse a request for ever.
Periodically ==
  /\ WF_backfillVars(StartBackfill(Periodic))
  /\ WF_backfillVars(AppendOutcomes(Periodic))
  /\ \A t \in Tickers : /\ WF_backfillVars(Settle(t))
                         /\ SF_backfillVars(FetchOutcome(Periodic, t))

FairBackfill == BackfillSpec /\ Periodically

BackfillTypeOK ==
  /\ answer \in [Tickers -> Answers]
  /\ scanned \subseteq Tickers /\ filled \subseteq Tickers
  /\ \A t \in Tickers : outcomes[t] = Nil
       \/ outcomes[t] \in [last : Records, settled : BOOLEAN]
  /\ \A p \in Procs : backfill[p] = Nil
       \/ /\ backfill[p].todo \subseteq Tickers
          /\ backfill[p].nullRetried <= Cardinality(Tickers)
          /\ \A t \in Tickers : backfill[p].new[t] \in Records \cup {Nil}
  /\ overlapped \in BOOLEAN /\ deaths \in 0 .. MaxDeaths

\* A ticker whose last record has no outcome is fetched again: the skip
\* looks for any settling record, the label comes from the last, and only
\* two backfills at once can leave a record without outcome behind a
\* settling one.
NullIsRefetched ==
  overlapped \/ \A t \in Settled : FullySettled(outcomes[t].last)

Known(t) == outcomes[t] # Nil /\ FullySettled(outcomes[t].last)

\* Every market with a filled order whose result is final gets its outcome,
\* however old the order is, however many tickers wait before it, whatever
\* was answered first and whichever requests failed.
EveryTradedMarketResolved ==
  \A t \in Tickers :
    (t \in filled /\ Final(answer[t])) ~> (Known(t) \/ overlapped)
=============================================================================
