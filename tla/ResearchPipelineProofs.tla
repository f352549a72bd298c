------------------------ MODULE ResearchPipelineProofs ------------------------
(***************************************************************************)
(* Proofs about the research side, for every value of the constants: the   *)
(* outcome backfill by itself, and then the pipeline that it is a part of. *)
(***************************************************************************)
EXTENDS ResearchPipeline, ListsProofs

(***************************************************************************)
(* The invariant.  A backfill's record in memory has the types below, and  *)
(* it fetches only what was not settled when it began.  As long as no two  *)
(* have run at once, what was settled then is still all that is settled.   *)
(***************************************************************************)
Backfill ==
  [todo : SUBSET Tickers, resolved : SUBSET Tickers, seen : SUBSET Tickers,
   at : Nat, nullRetried : Nat, new : [Tickers -> Records \cup {Nil}]]

FileEntry == [last : Records, settled : BOOLEAN]

Types ==
  /\ answer \in [Tickers -> Answers]
  /\ scanned \subseteq Tickers /\ filled \subseteq Tickers
  /\ outcomes \in [Tickers -> FileEntry \cup {Nil}]
  /\ backfill \in [Procs -> Backfill \cup {Nil}]
  /\ overlapped \in BOOLEAN /\ deaths \in 0 .. MaxDeaths

\* The retries of a backfill are fewer than the tickers it has gone past.
RetriesCounted ==
  \A p \in Procs : backfill[p] # Nil =>
    /\ backfill[p].at \in 1 .. (Count + 1)
    /\ backfill[p].nullRetried < backfill[p].at

NewUnresolved ==
  \A p \in Procs, t \in Tickers :
    backfill[p] # Nil /\ backfill[p].new[t] # Nil => t \notin backfill[p].resolved

OneAtATime ==
  overlapped \/ \A p, q \in Procs : backfill[p] # Nil /\ backfill[q] # Nil => p = q

ResolvedIsCurrent ==
  overlapped \/ \A p \in Procs : backfill[p] # Nil => Settled \subseteq backfill[p].resolved

BackfillInv ==
  /\ Types /\ RetriesCounted /\ NewUnresolved
  /\ OneAtATime /\ ResolvedIsCurrent /\ NullIsRefetched

LEMMA TickersNat == Tickers \subseteq Nat
BY BackfillAssumption DEF Tickers

\* A market that is fetched is one the file did not settle.
LEMMA FetchedIsDue ==
  ASSUME Types, NEW p \in Procs, NEW t \in Tickers, Fetching(p, t)
  PROVE  /\ backfill[p] \in Backfill
         /\ t \notin backfill[p].resolved /\ t >= backfill[p].at
<1>1. backfill[p] \in Backfill
  BY DEF Types, Fetching
<1>2. Due(backfill[p]) \in SUBSET Nat /\ Due(backfill[p]) # {}
  BY <1>1, TickersNat DEF Due, Backfill, Fetching
<1>3. t \in Due(backfill[p])
  BY <1>2, LeastIn DEF Fetching
<1>4. QED BY <1>1, <1>3 DEF Due

\* A backfill that goes past a ticker is a backfill.
LEMMA PastType ==
  ASSUME NEW b \in Backfill, NEW t \in Nat PROVE Past(b, t) \in Backfill
<1> DEFINE n == IF t \in b.seen THEN b.nullRetried + 1 ELSE b.nullRetried
<1>1. n \in Nat /\ t + 1 \in Nat
  BY DEF Backfill
<1>2. Past(b, t) = [b EXCEPT !.at = t + 1, !.nullRetried = n]
  BY DEF Past, Backfill
<1> HIDE DEF n
<1>3. QED BY <1>1, <1>2 DEF Backfill

\* What the exchange says gives a record that can be kept, or none.
LEMMA RecordType ==
  ASSUME NEW a \in Answers
  PROVE  Record(a).status = "unresolved" \/ Record(a) \in Records
BY DEF Answers, Results, Record, Records, ParseResolutionStatus, ParseOutcomeYes

\* The answer of a market that has no final result changes to an answer.
LEMMA AfterType == ASSUME NEW a \in Answers PROVE After(a) \subseteq Answers
BY DEF Answers, Results, After

\* What an append leaves of each ticker.
LEMMA AppendedType ==
  ASSUME NEW o \in FileEntry \cup {Nil}, NEW r \in Records
  PROVE  /\ Appended(o, r) \in FileEntry /\ Appended(o, r).last = r
         /\ Appended(o, r).settled => FullySettled(r) \/ (o # Nil /\ o.settled)
<1>1. FullySettled(r) \in BOOLEAN
  BY DEF FullySettled
<1>2. (FullySettled(r) \/ (o # Nil /\ o.settled)) \in BOOLEAN
  BY <1>1 DEF FileEntry
<1> DEFINE settled == FullySettled(r) \/ (o # Nil /\ o.settled)
<1>3. Appended(o, r) = [last |-> r, settled |-> settled]
  BY DEF Appended
<1>4. settled \in BOOLEAN /\ (settled => FullySettled(r) \/ (o # Nil /\ o.settled))
  BY <1>2
<1> HIDE DEF settled
<1>5. QED BY <1>3, <1>4 DEF FileEntry

\* An append of any of a backfill's records: what it settles has an outcome in
\* its last record, if no other backfill ran beside it.
LEMMA AppendSound ==
  ASSUME BackfillInv, NEW p \in Procs, backfill[p] # Nil, NEW ts \in SUBSET Tickers,
         outcomes' = WithRecords(p, ts), backfill' = [backfill EXCEPT ![p] = Nil],
         UNCHANGED <<answer, scanned, filled, overlapped>>, deaths' \in 0 .. MaxDeaths
  PROVE  BackfillInv'
<1>1. backfill[p] \in Backfill
  BY DEF BackfillInv, Types
<1>2. \A t \in Tickers : backfill[p].new[t] # Nil => backfill[p].new[t] \in Records
  BY <1>1 DEF Backfill
<1>3. \A t \in Tickers : outcomes'[t] \in FileEntry \cup {Nil}
  BY <1>2, AppendedType DEF WithRecords, BackfillInv, Types
<1>4. Types'
  <2>1. outcomes' \in [Tickers -> FileEntry \cup {Nil}]
    BY <1>3 DEF WithRecords
  <2>2. QED BY <2>1 DEF BackfillInv, Types
<1>5. RetriesCounted' /\ NewUnresolved'
  BY DEF BackfillInv, Types, RetriesCounted, NewUnresolved
<1>6. OneAtATime'
  BY DEF BackfillInv, Types, OneAtATime
<1>7. ResolvedIsCurrent'
  <2>1. overlapped \/ \A q \in Procs : backfill'[q] = Nil
    BY DEF BackfillInv, Types, OneAtATime
  <2>2. QED BY <2>1 DEF ResolvedIsCurrent
<1>8. NullIsRefetched'
  <2>1. SUFFICES ASSUME ~overlapped, NEW t \in Settled'
                 PROVE  FullySettled(outcomes'[t].last)
    BY DEF NullIsRefetched, FullySettled
  <2>2. t \in Tickers /\ outcomes'[t] # Nil /\ outcomes'[t].settled
    BY DEF Settled
  <2>3. CASE t \in ts /\ backfill[p].new[t] # Nil
    <3>1. t \notin Settled
      BY <2>1, <2>2, <2>3 DEF BackfillInv, NewUnresolved, ResolvedIsCurrent
    <3>2. outcomes'[t] = Appended(outcomes[t], backfill[p].new[t])
      BY <2>2, <2>3 DEF WithRecords
    <3>3. ~(outcomes[t] # Nil /\ outcomes[t].settled)
      BY <3>1, <2>2 DEF Settled
    <3>4. backfill[p].new[t] \in Records /\ outcomes[t] \in FileEntry \cup {Nil}
      BY <1>2, <2>2, <2>3 DEF BackfillInv, Types
    <3>5. outcomes'[t].last = backfill[p].new[t]
      BY <3>2, <3>4, AppendedType
    <3>6. FullySettled(backfill[p].new[t])
      BY <2>2, <3>2, <3>3, <3>4, AppendedType
    <3>7. QED BY <3>5, <3>6
  <2>4. CASE ~(t \in ts /\ backfill[p].new[t] # Nil)
    <3>1. outcomes'[t] = outcomes[t]
      BY <2>2, <2>4 DEF WithRecords
    <3>2. t \in Settled
      BY <3>1, <2>2 DEF Settled
    <3>3. QED BY <2>1, <3>1, <3>2 DEF BackfillInv, NullIsRefetched
  <2>5. QED BY <2>3, <2>4
<1>9. QED BY <1>4, <1>5, <1>6, <1>7, <1>8 DEF BackfillInv

\* A market that is gone past, whatever was learned about it.
LEMMA FetchSound ==
  ASSUME BackfillInv, NEW p \in Procs, NEW t \in Tickers, Fetching(p, t),
         NEW r \in Records \cup {Nil},
         backfill' = [backfill EXCEPT ![p] =
           [Past(backfill[p], t) EXCEPT !.new = [backfill[p].new EXCEPT ![t] = r]]],
         UNCHANGED <<answer, scanned, filled, outcomes, overlapped, deaths>>
  PROVE  BackfillInv'
<1> DEFINE b == backfill[p]
<1> DEFINE c == [Past(b, t) EXCEPT !.new = [b.new EXCEPT ![t] = r]]
<1>1. b \in Backfill /\ b # Nil /\ t \notin b.resolved /\ t >= b.at
  BY FetchedIsDue DEF BackfillInv, Fetching
<1>2. t \in 1 .. Count /\ Count \in Nat
  BY BackfillAssumption DEF Tickers
<1>3. b.at \in 1 .. (Count + 1) /\ b.nullRetried < b.at /\ b.nullRetried \in Nat
  BY <1>1 DEF BackfillInv, RetriesCounted, Backfill
<1>4. /\ c.todo = b.todo /\ c.resolved = b.resolved /\ c.seen = b.seen /\ c.at = t + 1
      /\ c.nullRetried \in {b.nullRetried, b.nullRetried + 1}
      /\ c.new = [b.new EXCEPT ![t] = r]
  BY <1>1 DEF Past, Backfill
<1>5. c \in Backfill
  <2>1. [b.new EXCEPT ![t] = r] \in [Tickers -> Records \cup {Nil}]
    BY <1>1 DEF Backfill
  <2>2. Past(b, t) \in Backfill
    BY <1>1, <1>2, PastType
  <2> HIDE DEF b
  <2>3. QED BY <2>1, <2>2 DEF Backfill
<1>6. backfill' = [backfill EXCEPT ![p] = c]
  OBVIOUS
<1>7. backfill'[p] = c /\ \A q \in Procs : q # p => backfill'[q] = backfill[q]
  BY <1>6 DEF BackfillInv, Types
<1>8. c.at \in 1 .. (Count + 1) /\ c.nullRetried < c.at
  BY <1>1, <1>2, <1>3, <1>4
<1> HIDE DEF b, c
<1>9. Types'
  BY <1>5, <1>6 DEF BackfillInv, Types
<1>10. RetriesCounted'
  BY <1>7, <1>8 DEF BackfillInv, RetriesCounted
<1>11. NewUnresolved'
  <2>1. SUFFICES ASSUME NEW q \in Procs, NEW u \in Tickers,
                        backfill'[q] # Nil, backfill'[q].new[u] # Nil
                 PROVE  u \notin backfill'[q].resolved
    BY DEF NewUnresolved
  <2>2. CASE q # p
    BY <1>7, <2>1, <2>2 DEF BackfillInv, NewUnresolved
  <2>3. CASE q = p /\ u = t
    BY <1>1, <1>4, <1>7, <2>3
  <2>4. CASE q = p /\ u # t
    <3>1. b.new[u] # Nil
      <4>1. b.new \in [Tickers -> Records \cup {Nil}]
        BY <1>1 DEF Backfill
      <4>2. [b.new EXCEPT ![t] = r][u] = b.new[u]
        BY <4>1, <2>4
      <4>3. QED BY <1>4, <1>7, <2>1, <2>4, <4>2
    <3>2. QED BY <1>1, <1>4, <1>7, <2>4, <3>1 DEF BackfillInv, NewUnresolved, b
  <2>5. QED BY <2>2, <2>3, <2>4
<1>12. OneAtATime'
  BY <1>1, <1>7 DEF BackfillInv, OneAtATime, b
<1>13. ResolvedIsCurrent'
  <2>1. Settled' = Settled
    BY DEF Settled
  <2>2. QED BY <1>1, <1>4, <1>7, <2>1 DEF BackfillInv, ResolvedIsCurrent, b
<1>14. NullIsRefetched'
  BY DEF BackfillInv, NullIsRefetched, Settled
<1>15. QED BY <1>9, <1>10, <1>11, <1>12, <1>13, <1>14 DEF BackfillInv

(***************************************************************************)
(* The steps.                                                              *)
(***************************************************************************)
LEMMA InitInv ==
  ASSUME NEW traded \in SUBSET Tickers, BackfillInit(traded) PROVE BackfillInv
<1>1. Types
  <2>1. answer \in [Tickers -> Answers]
    BY DEF BackfillInit
  <2>2. outcomes \in [Tickers -> FileEntry \cup {Nil}] /\ backfill \in [Procs -> Backfill \cup {Nil}]
    BY DEF BackfillInit
  <2>3. deaths \in 0 .. MaxDeaths
    BY BackfillAssumption DEF BackfillInit
  <2>4. QED BY <2>1, <2>2, <2>3, BackfillAssumption DEF BackfillInit, Types
<1>2. RetriesCounted /\ NewUnresolved /\ OneAtATime /\ ResolvedIsCurrent
  BY DEF BackfillInit, RetriesCounted, NewUnresolved, OneAtATime, ResolvedIsCurrent
<1>3. NullIsRefetched
  BY DEF BackfillInit, NullIsRefetched, Settled
<1>4. QED BY <1>1, <1>2, <1>3 DEF BackfillInv

LEMMA StartSound ==
  ASSUME BackfillInv, NEW p \in Procs, StartBackfill(p) PROVE BackfillInv'
<1> DEFINE c == [todo |-> CandidateTickers, resolved |-> Settled, seen |-> AnyRecord,
                 at |-> 1, nullRetried |-> 0, new |-> [t \in Tickers |-> Nil]]
<1>1. c \in Backfill
  BY DEF BackfillInv, Types, CandidateTickers, Settled, AnyRecord, Backfill
<1>2. backfill' = [backfill EXCEPT ![p] = c]
  BY DEF StartBackfill
<1>3. /\ c.at = 1 /\ c.nullRetried = 0 /\ c.resolved = Settled
      /\ \A t \in Tickers : c.new[t] = Nil
  OBVIOUS
<1> HIDE DEF c
<1>4. backfill'[p] = c /\ \A q \in Procs : q # p => backfill'[q] = backfill[q]
  BY <1>2 DEF BackfillInv, Types
<1>5. Types'
  BY <1>1, <1>2 DEF BackfillInv, Types, StartBackfill
<1>6. RetriesCounted'
  BY <1>3, <1>4, BackfillAssumption DEF BackfillInv, RetriesCounted
<1>7. NewUnresolved'
  BY <1>3, <1>4 DEF BackfillInv, NewUnresolved
<1>8. overlapped' \/ \A q \in Procs : q # p => backfill[q] = Nil
  BY DEF StartBackfill
<1>9. OneAtATime'
  BY <1>4, <1>8 DEF OneAtATime
<1>10. Settled' = Settled
  BY DEF StartBackfill, Settled
<1>11. ResolvedIsCurrent'
  BY <1>3, <1>4, <1>8, <1>10 DEF ResolvedIsCurrent
<1>12. NullIsRefetched'
  BY <1>10 DEF BackfillInv, NullIsRefetched, StartBackfill
<1>13. QED BY <1>5, <1>6, <1>7, <1>9, <1>11, <1>12 DEF BackfillInv

LEMMA NextInv == ASSUME BackfillInv, [BackfillNext]_backfillVars PROVE BackfillInv'
<1>1. CASE UNCHANGED backfillVars
  BY <1>1 DEF BackfillInv, backfillVars, Types, RetriesCounted, NewUnresolved,
              OneAtATime, ResolvedIsCurrent, NullIsRefetched, Settled, FullySettled
<1>2. ASSUME NEW t \in Tickers, Settle(t) PROVE BackfillInv'
  <2>1. answer' \in [Tickers -> Answers]
    BY <1>2, AfterType DEF Settle, BackfillInv, Types
  <2>2. QED BY <1>2, <2>1 DEF Settle, BackfillInv, Types, RetriesCounted, NewUnresolved,
              OneAtATime, ResolvedIsCurrent, NullIsRefetched, Settled, FullySettled
<1>3. ASSUME NEW t \in Tickers, MarketStateChanges(t) PROVE BackfillInv'
  <2>1. scanned' \subseteq Tickers
    BY <1>3 DEF MarketStateChanges, BackfillInv, Types
  <2>2. QED BY <1>3, <2>1 DEF MarketStateChanges, BackfillInv, Types, RetriesCounted,
              NewUnresolved, OneAtATime, ResolvedIsCurrent, NullIsRefetched, Settled,
              FullySettled
<1>4. ASSUME NEW p \in Procs, AppendOutcomes(p) PROVE BackfillInv'
  BY <1>4, AppendSound DEF AppendOutcomes, Visited, BackfillInv, Types
<1>5. ASSUME NEW p \in Procs, BackfillDies(p) PROVE BackfillInv'
  <2>1. PICK n \in 0 .. Count : outcomes' = WithRecords(p, 1 .. n)
    BY <1>5 DEF BackfillDies
  <2>2. (1 .. n) \in SUBSET Tickers
    BY BackfillAssumption DEF Tickers
  <2>3. deaths' \in 0 .. MaxDeaths
    BY <1>5, BackfillAssumption DEF BackfillDies, BackfillInv, Types
  <2>4. QED BY <1>5, <2>1, <2>2, <2>3, AppendSound DEF BackfillDies
<1>6. ASSUME NEW p \in Procs, NEW t \in Tickers, FetchOutcome(p, t) PROVE BackfillInv'
  <2> DEFINE r == IF Record(answer[t]).status = "unresolved" THEN Nil ELSE Record(answer[t])
  <2>1. r \in Records \cup {Nil}
    BY <1>6, RecordType DEF BackfillInv, Types
  <2>2. backfill[p] \in Backfill /\ Fetching(p, t)
    BY <1>6, FetchedIsDue DEF BackfillInv, FetchOutcome
  <2>3. Past(backfill[p], t).new = backfill[p].new
    BY <2>2 DEF Past, Backfill
  <2>4. backfill' = [backfill EXCEPT ![p] =
           [Past(backfill[p], t) EXCEPT !.new = [backfill[p].new EXCEPT ![t] = r]]]
    BY <1>6, <2>2, <2>3 DEF FetchOutcome, BackfillInv, Types, Past, Backfill
  <2> HIDE DEF r
  <2>5. QED BY <1>6, <2>1, <2>2, <2>4, FetchSound DEF FetchOutcome
<1>7. ASSUME NEW p \in Procs, NEW t \in Tickers, FetchFails(p, t) PROVE BackfillInv'
  <2> DEFINE r == backfill[p].new[t]
  <2>1. backfill[p] \in Backfill /\ Fetching(p, t)
    BY <1>7, FetchedIsDue DEF BackfillInv, FetchFails
  <2>2. r \in Records \cup {Nil} /\ [backfill[p].new EXCEPT ![t] = r] = backfill[p].new
    BY <2>1 DEF Backfill
  <2>3. Past(backfill[p], t) =
          [Past(backfill[p], t) EXCEPT !.new = [backfill[p].new EXCEPT ![t] = r]]
    BY <2>1, <2>2 DEF Past, Backfill
  <2>4. backfill' = [backfill EXCEPT ![p] =
           [Past(backfill[p], t) EXCEPT !.new = [backfill[p].new EXCEPT ![t] = r]]]
    BY <1>7, <2>3 DEF FetchFails
  <2> HIDE DEF r
  <2>5. QED BY <1>7, <2>1, <2>2, <2>4, FetchSound DEF FetchFails
<1>8. QED
  BY <1>1, <1>2, <1>3, <1>4, <1>5, <1>6, <1>7, StartSound DEF BackfillNext

(***************************************************************************)
(* The theorems on the backfill alone.                                     *)
(***************************************************************************)

\* The invariant gives the types the runs check.
LEMMA InvTypes == ASSUME BackfillInv PROVE BackfillTypeOK
<1>1. Cardinality(Tickers) = Count
  BY FS_Interval, BackfillAssumption DEF Tickers
<1>2. ASSUME NEW p \in Procs, backfill[p] # Nil
      PROVE  /\ backfill[p].todo \subseteq Tickers
             /\ backfill[p].nullRetried <= Cardinality(Tickers)
             /\ \A t \in Tickers : backfill[p].new[t] \in Records \cup {Nil}
  <2>1. backfill[p] \in Backfill
    BY <1>2 DEF BackfillInv, Types
  <2>2. backfill[p].at \in 1 .. (Count + 1) /\ backfill[p].nullRetried < backfill[p].at
    BY <1>2 DEF BackfillInv, RetriesCounted
  <2>3. backfill[p].nullRetried <= Count
    BY <2>1, <2>2, BackfillAssumption DEF Backfill
  <2>4. QED BY <1>1, <2>1, <2>3 DEF Backfill
<1>3. QED BY <1>2 DEF BackfillInv, Types, BackfillTypeOK, FileEntry

\* The variables of the backfill keep their types, for any number of tickers and
\* processes; the retries of a run never exceed the number of tickers.
THEOREM BackfillTypeCorrect == BackfillSpec => []BackfillTypeOK
<1>1. BackfillInit(Traded) => BackfillInv
  BY InitInv, BackfillAssumption
<1>2. BackfillInv /\ [BackfillNext]_backfillVars => BackfillInv'
  BY NextInv
<1>3. BackfillInv => BackfillTypeOK
  BY InvTypes
<1>4. QED BY <1>1, <1>2, <1>3, PTL DEF BackfillSpec

\* Whatever the exchange answers and wherever a backfill is killed, a ticker whose
\* last record has no outcome is fetched again, unless two backfills ran at once.
THEOREM NullRecordsRefetched == BackfillSpec => []NullIsRefetched
<1>1. BackfillInit(Traded) => BackfillInv
  BY InitInv, BackfillAssumption
<1>2. BackfillInv /\ [BackfillNext]_backfillVars => BackfillInv'
  BY NextInv
<1>3. BackfillInv => NullIsRefetched
  BY DEF BackfillInv
<1>4. QED BY <1>1, <1>2, <1>3, PTL DEF BackfillSpec

(***************************************************************************)
(* The record of orders.  One order is in flight at most; a line says no   *)
(* more than the order has filled, and one that shows a fill shows where   *)
(* it was filled; before an order is sent only the exchange can fill it.   *)
(***************************************************************************)
OrderLine ==
  [type : {"intent", "submit_error", "ack", "reconcile", "cancel_requested", "terminal"},
   id : {None, "paper", "sim", "real"}, mode : {"paper", "live"},
   status : Statuses \cup {None}, filled : 0 .. Whole, ts : Nat,
   origin : {None, "bootstrap_synthetic"}]

LineTrue(l, o) == l.filled <= o.fills /\ (l.filled > 0 => l.id = o.venue)

OrderSound(c) ==
  IF orders[c] = None THEN life[c] = <<>>
  ELSE /\ orders[c].at = "intent" /\ orders[c].venue # "real" => orders[c].fills = 0
       /\ orders[c].at \in {"polling", "over"} =>
            orders[c].report \in Report /\ orders[c].report.filled <= orders[c].fills
       /\ \A i \in DOMAIN life[c] : LineTrue(life[c][i], orders[c])

OrderInv ==
  /\ clock \in 0 .. MaxTime /\ lost \in 0 .. MaxFaults
  /\ settings \in Environments \cup {None}
  /\ orders \in [Cids -> Order \cup {None}] /\ life \in [Cids -> Seq(OrderLine)]
  /\ \A c, d \in InFlight : c = d
  /\ \A c \in Cids : OrderSound(c)

(***************************************************************************)
(* The labels.  A record that gives a resolved market an outcome gives it  *)
(* the one the exchange has settled it with, in the file and in the memory *)
(* of a backfill.                                                          *)
(***************************************************************************)
TrueIn(answers, t, status, yes) ==
  status = "resolved" /\ yes # Nil =>
    yes \in {"yes", "no"} /\ answers[t] = [status |-> "settled", result |-> yes]

TrueLabel(t, status, yes) == TrueIn(answer, t, status, yes)

LabelsInv ==
  /\ \A t \in Tickers : answer[t].status = "active" => answer[t].result \in {Nil, "blank"}
  /\ \A p \in Procs, t \in Tickers : backfill[p] # Nil /\ backfill[p].new[t] # Nil =>
       TrueLabel(t, backfill[p].new[t].status, backfill[p].new[t].yes)
  /\ \A t \in Tickers : outcomes[t] # Nil =>
       TrueLabel(t, outcomes[t].last.status, outcomes[t].last.yes)

(***************************************************************************)
(* The datasets, in the memory of a build and in the files.                *)
(***************************************************************************)
Fields ==
  {"client_order_id", "feature_ts", "execution_source_class", "label_filled_within_30s",
   "label_filled_within_5m", "label_terminal_filled_qty", "label_markout_bps_5m"}

FillsTrue(r, placed) ==
  /\ DOMAIN r = Fields
  /\ r.client_order_id \in Cids /\ placed[r.client_order_id] \in Order
  /\ r.label_terminal_filled_qty \in 0 .. placed[r.client_order_id].fills
  /\ r.execution_source_class = "live_real"
       /\ (r.label_filled_within_5m \/ r.label_terminal_filled_qty > 0)
     => placed[r.client_order_id].venue = "real"

RowTrue(f, r, answers, placed) ==
  IF f = "forecast"
  THEN r.ticker \in Tickers
         /\ TrueIn(answers, r.ticker, r.label_resolution_status, r.label_outcome_yes)
  ELSE FillsTrue(r, placed)

SplitByTime(rows) ==
  \A i, j \in DOMAIN rows :
    rows[i].split = "train" /\ rows[j].split # "train"
      => rows[i].row.feature_ts <= rows[j].row.feature_ts

SoundIn(f, rows, answers, placed) ==
  /\ rows \in Seq({rows[i] : i \in DOMAIN rows})
  /\ SplitByTime(rows) /\ \A i \in DOMAIN rows : RowTrue(f, rows[i].row, answers, placed)

FileSound(f, rows) == SoundIn(f, rows, answer, orders)

BuildShape == [by : Procs, left : {build.left}, rows : {build.rows}]

FilesInv ==
  /\ build # None =>
       /\ build \in BuildShape /\ build.left \in Seq(FileNames)
       /\ \A f \in FileNames : FileSound(f, build.rows[f])
  /\ \A f \in FileNames : data[f] # None =>
       data[f].broken \in BOOLEAN /\ FileSound(f, data[f].rows)
  /\ DOMAIN data = FileNames

(***************************************************************************)
(* The models: what a forecast learned from, and that a version is whole   *)
(* in the archive before anything else names it.                           *)
(***************************************************************************)
LearnsIn(rows, answers) ==
  \A i \in DOMAIN rows :
    LET r == rows[i].row
    IN /\ r.ticker \in Tickers /\ r.label_outcome_yes \in {"yes", "no"}
       /\ answers[r.ticker] = [status |-> "settled", result |-> r.label_outcome_yes]

LearnsTrue(rows) == LearnsIn(rows, answer)

Steps ==
  {ArtifactSteps, <<"truncate", "latest", "manifest">>, <<"latest", "manifest">>,
   <<"manifest">>, <<>>}

TrainShape == [kind : Kinds, artifact : {train.artifact}, left : Steps]
BotShape ==
  [capture : {bot.capture}, policy : {"shadow", "active", "refused"},
   forecast : {bot.forecast}, execution : {bot.execution}]

ModelsInv ==
  /\ trained \in Nat /\ trained <= bounds.trains
  /\ archive \cup manifest \subseteq 1 .. trained
  /\ train # None =>
       /\ train \in TrainShape /\ train.artifact.version \in 1 .. trained
       /\ train.left # ArtifactSteps => train.artifact.version \in archive
       /\ train.kind = "forecast" => LearnsTrue(train.artifact.rows)
  /\ DOMAIN latest = Kinds /\ bot \in BotShape
  /\ \A k \in Kinds : /\ latest[k] # None => latest[k].version \in archive
                      /\ bot[k] # None => bot[k].version \in archive
  /\ latest["forecast"] # None => LearnsTrue(latest["forecast"].rows)
  /\ bot.forecast # None => LearnsTrue(bot.forecast.rows)

\* The scenario of a behaviour, the quotes and the tasks.
ScenarioInv ==
  /\ bounds \in Scenarios
  /\ IsFiniteSet(lines) /\ Cardinality(lines) <= bounds.lines
  /\ \A l \in lines : l.ticker \in Tickers
  /\ task \in [Procs -> {"idle", "backfill", "build", "forecast", "execution"}]

PipelineInv ==
  BackfillInv /\ OrderInv /\ LabelsInv /\ FilesInv /\ ModelsInv /\ ScenarioInv

\* An order keeps its venue, and what it has filled.
OrdersGrow ==
  \A c \in Cids : orders[c] # None =>
    /\ orders'[c] \in Order /\ orders'[c].venue = orders[c].venue
    /\ orders[c].fills <= orders'[c].fills

OrderStep == OrderInv' /\ OrdersGrow

\* What a line of an order and an order are made of.
LEMMA OrderType ==
  ASSUME OrderInv, NEW c \in Cids, orders[c] # None
  PROVE  /\ orders[c] \in Order /\ OrderSound(c)
         /\ orders[c].fills \in 0 .. Whole
BY DEF OrderInv, Order

\* An order that moves on and fills no less, with a true line at its end or none.
LEMMA OrderMoves ==
  ASSUME OrderInv, NEW c \in Cids, orders[c] # None, NEW p \in Order,
         p.venue = orders[c].venue, orders[c].fills <= p.fills,
         p.at # "done" => c \in InFlight,
         p.at = "intent" /\ p.venue # "real" => p.fills = 0,
         p.at \in {"polling", "over"} => p.report \in Report /\ p.report.filled <= p.fills,
         orders' = [orders EXCEPT ![c] = p],
         \/ life' = life
         \/ \E l \in OrderLine : LineTrue(l, p) /\ life' = [life EXCEPT ![c] = Append(life[c], l)],
         clock' = clock, lost' \in 0 .. MaxFaults, settings' = settings
  PROVE  OrderStep
<1>1. /\ orders \in [Cids -> Order \cup {None}] /\ life \in [Cids -> Seq(OrderLine)]
      /\ \A d, e \in InFlight : d = e
      /\ \A d \in Cids : OrderSound(d)
  BY DEF OrderInv
<1>2. orders[c] \in Order /\ None \notin Order
  BY <1>1, OrderAssumption
<1>3. orders'[c] = p /\ (\A d \in Cids : d # c => orders'[d] = orders[d])
      /\ orders' \in [Cids -> Order \cup {None}]
  BY <1>1
<1>4. InFlight' \subseteq InFlight
  <2>1. SUFFICES ASSUME NEW d \in Cids, orders'[d] # None, orders'[d].at # "done"
                 PROVE  d \in InFlight
    BY DEF InFlight
  <2>2. QED BY <1>3, <2>1 DEF InFlight
<1>5. /\ life' \in [Cids -> Seq(OrderLine)]
      /\ \A d \in Cids : d # c => life'[d] = life[d]
      /\ \A i \in DOMAIN life'[c] : LineTrue(life'[c][i], p)
  <2>1. \A i \in DOMAIN life[c] : LineTrue(life[c][i], p)
    <3>1. SUFFICES ASSUME NEW i \in DOMAIN life[c] PROVE LineTrue(life[c][i], p)
      OBVIOUS
    <3>2. life[c][i] \in OrderLine
      BY <1>1, ElementOfSeq, LenProperties
    <3>3. LineTrue(life[c][i], orders[c])
      BY <1>1, <3>1 DEF OrderSound
    <3>4. life[c][i].filled \in Nat /\ orders[c].fills \in Nat /\ p.fills \in Nat
      BY <1>2, <3>2 DEF OrderLine, Order
    <3>5. QED BY <3>3, <3>4 DEF LineTrue
  <2>2. CASE life' = life
    BY <1>1, <2>1, <2>2
  <2>3. ASSUME NEW l \in OrderLine, LineTrue(l, p),
               life' = [life EXCEPT ![c] = Append(life[c], l)]
        PROVE  /\ life' \in [Cids -> Seq(OrderLine)]
               /\ \A d \in Cids : d # c => life'[d] = life[d]
               /\ \A i \in DOMAIN life'[c] : LineTrue(life'[c][i], p)
    <3>1. life[c] \in Seq(OrderLine)
      BY <1>1
    <3>2. /\ Append(life[c], l) \in Seq(OrderLine)
          /\ Len(Append(life[c], l)) = Len(life[c]) + 1 /\ Len(life[c]) \in Nat
          /\ \A i \in 1 .. Len(life[c]) : Append(life[c], l)[i] = life[c][i]
          /\ Append(life[c], l)[Len(life[c]) + 1] = l
      BY <3>1, AppendProperties, LenProperties
    <3>3. life'[c] = Append(life[c], l) /\ \A d \in Cids : d # c => life'[d] = life[d]
      BY <1>1, <2>3
    <3>4. life' \in [Cids -> Seq(OrderLine)]
      BY <1>1, <2>3, <3>2
    <3>5. ASSUME NEW i \in DOMAIN life'[c] PROVE LineTrue(life'[c][i], p)
      <4>1. i \in 1 .. (Len(life[c]) + 1)
        BY <3>2, <3>3, LenProperties
      <4>2. i \in 1 .. Len(life[c]) \/ i = Len(life[c]) + 1
        BY <3>2, <4>1
      <4>3. DOMAIN life[c] = 1 .. Len(life[c])
        BY <3>1, LenProperties
      <4>4. QED BY <2>1, <2>3, <3>2, <3>3, <4>2, <4>3
    <3>6. QED BY <3>3, <3>4, <3>5
  <2>4. QED BY <2>2, <2>3
<1>6. ASSUME NEW d \in Cids PROVE OrderSound(d)'
  <2>1. CASE d = c
    BY <1>2, <1>3, <1>5, <2>1 DEF OrderSound
  <2>2. CASE d # c
    BY <1>1, <1>3, <1>5, <2>2 DEF OrderSound
  <2>3. QED BY <2>1, <2>2
<1>7. \A d, e \in InFlight' : d = e
  BY <1>1, <1>4
<1>8. clock' \in 0 .. MaxTime /\ settings' \in Environments \cup {None}
  BY DEF OrderInv
<1>9. OrderInv'
  BY <1>3, <1>5, <1>6, <1>7, <1>8 DEF OrderInv
<1>10. OrdersGrow
  <2>1. SUFFICES ASSUME NEW d \in Cids, orders[d] # None
                 PROVE  /\ orders'[d] \in Order /\ orders'[d].venue = orders[d].venue
                        /\ orders[d].fills <= orders'[d].fills
    BY DEF OrdersGrow
  <2>2. d # c => orders'[d] = orders[d] /\ orders[d] \in Order
    BY <1>1, <1>3, <2>1
  <2>3. QED BY <1>3, <2>2 DEF Order
<1>11. QED BY <1>9, <1>10 DEF OrderStep

\* Writing a line, or failing to.
LEMMA LineRecorded ==
  ASSUME OrderInv, NEW c \in Cids, NEW l \in OrderLine, NEW p, LineTrue(l, p), RecordLine(c, l)
  PROVE  /\ lost' \in 0 .. MaxFaults
         /\ \/ life' = life
            \/ \E m \in OrderLine : LineTrue(m, p) /\ life' = [life EXCEPT ![c] = Append(life[c], m)]
<1>1. lost \in 0 .. MaxFaults /\ MaxFaults \in Nat
  BY OrderAssumption DEF OrderInv
<1>2. CASE life' = [life EXCEPT ![c] = Append(life[c], l)] /\ UNCHANGED lost
  BY <1>1, <1>2
<1>3. CASE lost < MaxFaults /\ lost' = lost + 1 /\ UNCHANGED life
  BY <1>1, <1>3
<1>4. QED BY <1>2, <1>3 DEF RecordLine

\* The lines the engine writes.
LEMMA LineTypes ==
  ASSUME OrderInv, NEW r \in Report, NEW v \in {"paper", "sim", "real"}
  PROVE  /\ \A type \in {"intent", "submit_error", "cancel_requested"} :
              Unreported(type) \in OrderLine /\ Unreported(type).filled = 0
         /\ \A type \in {"reconcile", "terminal"} :
              /\ Reported(type, v, r) \in OrderLine
              /\ Reported(type, v, r).filled = r.filled /\ Reported(type, v, r).id = v
         /\ Line("ack", v, DetectExecutionMode(settings), "New", 0) \in OrderLine
         /\ Line("ack", v, DetectExecutionMode(settings), "New", 0).filled = 0
<1>1. clock \in Nat
  BY OrderAssumption DEF OrderInv
<1>2. DetectExecutionMode(settings) \in {"paper", "live"} /\ InferredMode(v) \in {"paper", "live"}
  BY DEF DetectExecutionMode, InferredMode
<1>3. /\ r.status \in Statuses /\ r.filled \in 0 .. Whole /\ 0 \in 0 .. Whole
      /\ r.updated_at \in Nat
  BY OrderAssumption DEF Report, Whole
<1>4. "New" \in Statuses
  BY DEF Statuses
<1>5. QED BY <1>1, <1>2, <1>3, <1>4 DEF OrderLine, Unreported, Reported, Line

\* A report is dated when it is made.
LEMMA Dated ==
  ASSUME OrderInv, NEW reply \in Answer
  PROVE  ReportNow(reply) \in Report /\ ReportNow(reply).filled = reply.filled
BY DEF ReportNow, Report, Answer, OrderInv

\* What the two exchanges answer.
LEMMA Answered ==
  ASSUME OrderInv, NEW o \in Order
  PROVE  /\ GetOrder(o) \in Report /\ GetOrder(o).filled <= o.fills
         /\ Polled(o) \in Order /\ Polled(o).venue = o.venue /\ Polled(o).fills = o.fills
<1>1. o.fills \in 0 .. Whole /\ o.polls \in 0 .. 1 /\ o.ready \in BOOLEAN /\ o.canceled \in BOOLEAN
  BY DEF Order
<1>2. SimReport(o) \in Answer /\ SimReport(o).filled <= o.fills
  BY <1>1 DEF SimReport, Answer, Statuses, Whole
<1>3. RealReport(o) \in Answer /\ RealReport(o).filled <= o.fills
  BY <1>1 DEF RealReport, Answer, Statuses, Whole
<1>4. SimPolled(o) \in Order /\ SimPolled(o).venue = o.venue /\ SimPolled(o).fills = o.fills
  BY DEF SimPolled, Order
<1>5. GetOrder(o) \in Report /\ GetOrder(o).filled <= o.fills
  BY <1>2, <1>3, Dated DEF GetOrder
<1>6. QED BY <1>4, <1>5 DEF Polled

LEMMA IntentKeeps == ASSUME OrderInv, NEW c \in Cids, PlaceIntent(c) PROVE OrderStep
<1>1. PICK tif \in {"Ioc", "Gtc"}, origin \in {None, "bootstrap_synthetic"} :
        /\ orders' = [orders EXCEPT ![c] =
             [venue |-> Venue(settings), tif |-> tif, at |-> "intent", fills |-> 0,
              ready |-> FALSE, canceled |-> FALSE, polls |-> 0,
              left |-> PollAttempts, report |-> None]]
        /\ RecordLine(c, [Unreported("intent") EXCEPT !.origin = origin])
  BY DEF PlaceIntent
<1> DEFINE p == [venue |-> Venue(settings), tif |-> tif, at |-> "intent", fills |-> 0,
                 ready |-> FALSE, canceled |-> FALSE, polls |-> 0,
                 left |-> PollAttempts, report |-> None]
           l == [Unreported("intent") EXCEPT !.origin = origin]
<1>2. p \in Order /\ p.fills = 0 /\ p.at = "intent"
  BY OrderAssumption DEF Order, Venue, Whole
<1>3. l \in OrderLine /\ l.filled = 0
  <2>1. [status |-> "New", filled |-> 0, updated_at |-> 0] \in Report
    BY OrderAssumption DEF Report, Statuses, Whole
  <2>2. Unreported("intent") \in OrderLine /\ Unreported("intent").filled = 0
    BY <2>1, LineTypes
  <2>3. QED BY <2>2 DEF OrderLine
<1>4. LineTrue(l, p)
  BY <1>2, <1>3 DEF LineTrue
<1>5. orders' = [orders EXCEPT ![c] = p] /\ RecordLine(c, l)
  BY <1>1
<1>6. orders[c] = None /\ life[c] = <<>> /\ InFlight = {} /\ UNCHANGED <<clock, settings>>
  BY DEF PlaceIntent, OrderInv, OrderSound
<1> HIDE DEF p, l
<1>7. /\ lost' \in 0 .. MaxFaults
      /\ \/ life' = life
         \/ \E m \in OrderLine : LineTrue(m, p) /\ life' = [life EXCEPT ![c] = Append(life[c], m)]
  BY <1>3, <1>4, <1>5, LineRecorded
<1>8. /\ orders \in [Cids -> Order \cup {None}] /\ life \in [Cids -> Seq(OrderLine)]
      /\ None \notin Order
  BY OrderAssumption DEF OrderInv
<1>9. orders'[c] = p /\ (\A d \in Cids : d # c => orders'[d] = orders[d])
      /\ orders' \in [Cids -> Order \cup {None}]
  BY <1>2, <1>5, <1>8
<1>10. /\ life' \in [Cids -> Seq(OrderLine)]
       /\ \A d \in Cids : d # c => life'[d] = life[d]
       /\ \A i \in DOMAIN life'[c] : LineTrue(life'[c][i], p)
  <2>1. CASE life' = life
    BY <1>6, <1>8, <2>1
  <2>2. ASSUME NEW m \in OrderLine, LineTrue(m, p),
               life' = [life EXCEPT ![c] = Append(life[c], m)]
        PROVE  /\ life' \in [Cids -> Seq(OrderLine)]
               /\ \A d \in Cids : d # c => life'[d] = life[d]
               /\ \A i \in DOMAIN life'[c] : LineTrue(life'[c][i], p)
    <3>1. Append(life[c], m) = <<m>>
      BY <1>6
    <3>2. <<m>> \in Seq(OrderLine) /\ DOMAIN <<m>> = 1 .. 1 /\ <<m>>[1] = m
      OBVIOUS
    <3>3. QED BY <1>8, <2>2, <3>1, <3>2
  <2>3. QED BY <1>7, <2>1, <2>2
<1>11. \A d \in Cids : OrderSound(d)'
  <2>1. OrderSound(c)'
    BY <1>2, <1>8, <1>9, <1>10 DEF OrderSound
  <2>2. ASSUME NEW d \in Cids, d # c PROVE OrderSound(d)'
    BY <1>9, <1>10, <2>2 DEF OrderInv, OrderSound
  <2>3. QED BY <2>1, <2>2
<1>12. \A d, e \in InFlight' : d = e
  BY <1>6, <1>9 DEF InFlight
<1>13. clock' \in 0 .. MaxTime /\ settings' \in Environments \cup {None}
  BY <1>6 DEF OrderInv
<1>14. OrderInv'
  BY <1>7, <1>9, <1>10, <1>11, <1>12, <1>13 DEF OrderInv
<1>15. OrdersGrow
  <2>1. SUFFICES ASSUME NEW d \in Cids, orders[d] # None
                 PROVE  /\ orders'[d] \in Order /\ orders'[d].venue = orders[d].venue
                        /\ orders[d].fills <= orders'[d].fills
    BY DEF OrdersGrow
  <2>2. orders'[d] = orders[d] /\ orders[d] \in Order
    BY <1>6, <1>8, <1>9, <2>1
  <2>3. QED BY <2>2 DEF Order
<1>16. QED BY <1>14, <1>15 DEF OrderStep

\* The steps of a call that write no line.
LEMMA SilentKeeps ==
  ASSUME OrderInv, NEW c \in Cids, PaperFills(c) \/ PollFails(c) \/ GtcRests(c)
  PROVE  OrderStep
<1>1. settings # None /\ orders[c] # None /\ orders[c] \in Order /\ OrderSound(c)
  BY OrderType DEF PaperFills, PollFails, GtcRests, Reached
<1>2. lost' \in 0 .. MaxFaults /\ UNCHANGED <<clock, settings, life>>
  BY DEF PaperFills, PollFails, GtcRests, OrderInv
<1>3. ASSUME PaperFills(c) PROVE OrderStep
  <2>1. PICK n \in {0, Whole} :
          orders' = [orders EXCEPT
            ![c].fills = n,
            ![c].report = ReportNow([status |-> IF n = 0 THEN "Canceled" ELSE "Filled", filled |-> n]),
            ![c].at = "over"]
    BY <1>3 DEF PaperFills
  <2> DEFINE reply == [status |-> IF n = 0 THEN "Canceled" ELSE "Filled", filled |-> n]
             r == ReportNow(reply)
             p == [orders[c] EXCEPT !.fills = n, !.report = r, !.at = "over"]
  <2>2. n \in 0 .. Whole /\ r \in Report /\ r.filled = reply.filled
    <3>1. n \in 0 .. Whole /\ reply \in Answer
      BY DEF Answer, Statuses, Whole
    <3>2. QED BY <3>1, Dated
  <2>3. orders[c].at = "intent" /\ orders[c].venue = "paper" /\ orders[c].fills = 0
    BY <1>1, <1>3 DEF PaperFills, Reached, OrderSound
  <2>4. p \in Order /\ p.venue = "paper" /\ p.fills = n /\ p.at = "over" /\ p.report = r
    BY <1>1, <2>2, <2>3 DEF Order
  <2>5. orders' = [orders EXCEPT ![c] = p]
    BY <1>1, <2>1 DEF OrderInv
  <2>6. c \in InFlight
    BY <1>1, <2>3 DEF InFlight
  <2>7. r.filled = n
    BY <2>2
  <2>8. orders[c].fills <= p.fills /\ p.report.filled <= p.fills
    BY <2>2, <2>3, <2>4, <2>7 DEF Whole
  <2> HIDE DEF p, r
  <2>9. QED BY <1>1, <1>2, <2>2, <2>3, <2>4, <2>5, <2>6, <2>8, OrderMoves
<1>4. ASSUME PollFails(c) PROVE OrderStep
  <2> DEFINE p == [orders[c] EXCEPT !.at = "done"]
  <2>1. p \in Order /\ p.venue = orders[c].venue /\ p.fills = orders[c].fills /\ p.at = "done"
    BY <1>1 DEF Order
  <2>2. orders' = [orders EXCEPT ![c] = p]
    BY <1>4 DEF PollFails
  <2>3. orders[c].fills <= p.fills
    BY <1>1, <2>1 DEF Order
  <2> HIDE DEF p
  <2>4. QED BY <1>1, <1>2, <2>1, <2>2, <2>3, OrderMoves
<1>5. ASSUME GtcRests(c) PROVE OrderStep
  <2> DEFINE p == [orders[c] EXCEPT !.at = "over"]
  <2>1. /\ p \in Order /\ p.venue = orders[c].venue /\ p.fills = orders[c].fills
        /\ p.at = "over" /\ p.report = orders[c].report
    BY <1>1 DEF Order
  <2>2. orders' = [orders EXCEPT ![c] = p]
    BY <1>5 DEF GtcRests
  <2>3. orders[c].at = "polling" /\ c \in InFlight
    BY <1>1, <1>5 DEF GtcRests, Reached, InFlight
  <2>4. orders[c].fills <= p.fills /\ p.report \in Report /\ p.report.filled <= p.fills
    BY <1>1, <2>1, <2>3 DEF Order, OrderSound
  <2> HIDE DEF p
  <2>5. QED BY <1>1, <1>2, <2>1, <2>2, <2>3, <2>4, OrderMoves
<1>6. QED BY <1>3, <1>4, <1>5

\* The steps of a call that write a line.
LEMMA SubmitFailsKeeps == ASSUME OrderInv, NEW c \in Cids, SubmitFails(c) PROVE OrderStep
<1>1. settings # None /\ orders[c] # None /\ orders[c] \in Order /\ OrderSound(c)
  BY OrderType DEF SubmitFails, Reached
<1> DEFINE p == [orders[c] EXCEPT !.at = "done"]
           l == Unreported("submit_error")
<1>2. p \in Order /\ p.venue = orders[c].venue /\ p.fills = orders[c].fills /\ p.at = "done"
  BY <1>1 DEF Order
<1>3. orders' = [orders EXCEPT ![c] = p] /\ RecordLine(c, l) /\ UNCHANGED <<clock, settings>>
  BY DEF SubmitFails
<1>4. orders[c].fills <= p.fills
  BY <1>1, <1>2 DEF Order
<1>5. l \in OrderLine /\ l.filled = 0
  <2>1. [status |-> "New", filled |-> 0, updated_at |-> 0] \in Report
    BY OrderAssumption DEF Report, Statuses, Whole
  <2>2. QED BY <2>1, LineTypes
<1>6. LineTrue(l, p)
  <2>1. p.fills \in Nat
    BY <1>2 DEF Order
  <2> HIDE DEF l, p
  <2>2. QED BY <1>5, <2>1 DEF LineTrue
<1> HIDE DEF p, l
<1>7. /\ lost' \in 0 .. MaxFaults
      /\ \/ life' = life
         \/ \E m \in OrderLine : LineTrue(m, p) /\ life' = [life EXCEPT ![c] = Append(life[c], m)]
  BY <1>3, <1>5, <1>6, LineRecorded
<1>8. QED BY <1>1, <1>2, <1>3, <1>4, <1>7, OrderMoves

LEMMA SubmitKeeps == ASSUME OrderInv, NEW c \in Cids, Submit(c) PROVE OrderStep
<1>1. settings # None /\ orders[c] # None /\ orders[c] \in Order /\ OrderSound(c)
      /\ orders[c].at = "intent" /\ c \in InFlight
  BY OrderType DEF Submit, Reached, InFlight
<1>2. PICK n \in IF orders[c].venue = "sim" THEN 0 .. Whole ELSE {orders[c].fills} :
        LET o == [orders[c] EXCEPT !.fills = n]
            r == GetOrder(o)
        IN orders' = [orders EXCEPT ![c] =
             [Polled(o) EXCEPT !.report = r, !.at = IF Over(r) THEN "over" ELSE "polling"]]
  BY DEF Submit
<1> DEFINE o == [orders[c] EXCEPT !.fills = n]
           r == GetOrder(o)
           p == [Polled(o) EXCEPT !.report = r, !.at = IF Over(r) THEN "over" ELSE "polling"]
           l == Line("ack", orders[c].venue, DetectExecutionMode(settings), "New", 0)
<1>3. n \in 0 .. Whole
  BY <1>1 DEF Order
<1>4. o \in Order /\ o.venue = orders[c].venue /\ o.fills = n
  BY <1>1, <1>3 DEF Order
<1>5. orders[c].fills <= n
  BY <1>1, <1>2 DEF OrderSound, Order
<1>6. /\ r \in Report /\ r.filled <= n
      /\ Polled(o) \in Order /\ Polled(o).venue = orders[c].venue /\ Polled(o).fills = n
  BY <1>4, Answered
<1>7. orders' = [orders EXCEPT ![c] = p] /\ RecordLine(c, l) /\ UNCHANGED <<clock, settings>>
  BY <1>2 DEF Submit
<1> HIDE DEF o, r
<1>8. /\ p \in Order /\ p.venue = orders[c].venue /\ p.fills = n /\ p.report = r
      /\ p.at \in {"over", "polling"}
  BY <1>6 DEF Order
<1>9. l \in OrderLine /\ l.filled = 0
  BY <1>1, <1>6, LineTypes DEF Order
<1>10. LineTrue(l, p)
  <2> HIDE DEF l, p
  <2>1. QED BY <1>3, <1>8, <1>9 DEF LineTrue, Whole
<1> HIDE DEF p, l
<1>11. /\ lost' \in 0 .. MaxFaults
       /\ \/ life' = life
          \/ \E m \in OrderLine : LineTrue(m, p) /\ life' = [life EXCEPT ![c] = Append(life[c], m)]
  BY <1>7, <1>9, <1>10, LineRecorded
<1>12. QED BY <1>1, <1>5, <1>6, <1>7, <1>8, <1>11, OrderMoves

LEMMA PollKeeps == ASSUME OrderInv, NEW c \in Cids, Poll(c) PROVE OrderStep
<1>1. settings # None /\ orders[c] # None /\ orders[c] \in Order /\ OrderSound(c)
      /\ orders[c].at = "polling" /\ c \in InFlight /\ orders[c].left > 0
  BY OrderType DEF Poll, Reached, InFlight
<1> DEFINE o == orders[c]
           r == GetOrder(o)
           p == [Polled(o) EXCEPT !.report = r, !.left = @ - 1,
                                  !.at = IF Over(r) THEN "over" ELSE "polling"]
           l == Reported("reconcile", o.venue, r)
<1>2. orders' = [orders EXCEPT ![c] = p] /\ RecordLine(c, l) /\ UNCHANGED <<clock, settings>>
  BY DEF Poll
<1>3. /\ r \in Report /\ r.filled <= o.fills
      /\ Polled(o) \in Order /\ Polled(o).venue = o.venue /\ Polled(o).fills = o.fills
  BY <1>1, Answered
<1>4. Polled(o).left - 1 \in 0 .. PollAttempts
  <2>1. Polled(o).left = o.left
    BY <1>1 DEF Polled, SimPolled, Order
  <2>2. o.left \in 0 .. PollAttempts /\ PollAttempts \in Nat
    BY <1>1, OrderAssumption DEF Order
  <2> HIDE DEF o
  <2>3. QED BY <1>1, <2>1, <2>2 DEF o
<1> HIDE DEF r
<1>5. /\ p \in Order /\ p.venue = o.venue /\ p.fills = o.fills /\ p.report = r
      /\ p.at \in {"over", "polling"}
  BY <1>3, <1>4 DEF Order
<1>6. l \in OrderLine /\ l.filled = r.filled /\ l.id = o.venue
  BY <1>1, <1>3, LineTypes DEF Order
<1> HIDE DEF p, l
<1>7. LineTrue(l, p)
  BY <1>3, <1>5, <1>6 DEF LineTrue
<1>8. /\ lost' \in 0 .. MaxFaults
      /\ \/ life' = life
         \/ \E m \in OrderLine : LineTrue(m, p) /\ life' = [life EXCEPT ![c] = Append(life[c], m)]
  BY <1>2, <1>6, <1>7, LineRecorded
<1>9. o.fills <= p.fills /\ p.report.filled <= p.fills
  BY <1>1, <1>3, <1>5 DEF Order
<1>10. QED BY <1>1, <1>2, <1>3, <1>5, <1>8, <1>9, OrderMoves

LEMMA CancelKeeps == ASSUME OrderInv, NEW c \in Cids, CancelIoc(c) PROVE OrderStep
<1>1. settings # None /\ orders[c] # None /\ orders[c] \in Order /\ OrderSound(c)
      /\ orders[c].at = "polling" /\ c \in InFlight
  BY OrderType DEF CancelIoc, Reached, InFlight
<1>2. PICK arrives \in BOOLEAN, answered \in BOOLEAN :
        LET o == [orders[c] EXCEPT !.canceled = @ \/ arrives]
            r == IF answered THEN GetOrder(o) ELSE o.report
        IN orders' = [orders EXCEPT ![c] = [Polled(o) EXCEPT !.report = r, !.at = "over"]]
  BY DEF CancelIoc
<1> DEFINE o == [orders[c] EXCEPT !.canceled = @ \/ arrives]
           r == IF answered THEN GetOrder(o) ELSE o.report
           p == [Polled(o) EXCEPT !.report = r, !.at = "over"]
           l == Unreported("cancel_requested")
<1>3. o \in Order /\ o.venue = orders[c].venue /\ o.fills = orders[c].fills /\ o.report = orders[c].report
  BY <1>1 DEF Order
<1>4. orders' = [orders EXCEPT ![c] = p] /\ RecordLine(c, l) /\ UNCHANGED <<clock, settings>>
  BY <1>2 DEF CancelIoc
<1> HIDE DEF o
<1>5. /\ GetOrder(o) \in Report /\ GetOrder(o).filled <= o.fills
      /\ Polled(o) \in Order /\ Polled(o).venue = o.venue /\ Polled(o).fills = o.fills
  BY <1>3, Answered
<1>6. r \in Report /\ r.filled <= o.fills
  BY <1>1, <1>3, <1>5 DEF OrderSound
<1> HIDE DEF r
<1>7. p \in Order /\ p.venue = o.venue /\ p.fills = o.fills /\ p.report = r /\ p.at = "over"
  BY <1>5, <1>6 DEF Order
<1>8. l \in OrderLine /\ l.filled = 0
  BY <1>6, LineTypes
<1> HIDE DEF p, l
<1>9. p.fills \in Nat /\ orders[c].fills <= p.fills
  BY <1>1, <1>3, <1>7 DEF Order
<1>10. LineTrue(l, p)
  BY <1>8, <1>9 DEF LineTrue
<1>11. /\ lost' \in 0 .. MaxFaults
       /\ \/ life' = life
          \/ \E m \in OrderLine : LineTrue(m, p) /\ life' = [life EXCEPT ![c] = Append(life[c], m)]
  BY <1>4, <1>8, <1>10, LineRecorded
<1>12. p.venue = orders[c].venue /\ p.report \in Report /\ p.report.filled <= p.fills
  BY <1>3, <1>6, <1>7
<1>13. QED BY <1>1, <1>4, <1>7, <1>9, <1>11, <1>12, OrderMoves

LEMMA TerminalKeeps == ASSUME OrderInv, NEW c \in Cids, RecordTerminal(c) PROVE OrderStep
<1>1. settings # None /\ orders[c] # None /\ orders[c] \in Order /\ OrderSound(c)
      /\ orders[c].at = "over"
  BY OrderType DEF RecordTerminal, Reached
<1> DEFINE p == [orders[c] EXCEPT !.at = "done"]
           l == Reported("terminal", orders[c].venue, orders[c].report)
<1>2. p \in Order /\ p.venue = orders[c].venue /\ p.fills = orders[c].fills /\ p.at = "done"
  BY <1>1 DEF Order
<1>3. orders' = [orders EXCEPT ![c] = p] /\ RecordLine(c, l) /\ UNCHANGED <<clock, settings>>
  BY DEF RecordTerminal
<1>4. orders[c].report \in Report /\ orders[c].report.filled <= orders[c].fills
  BY <1>1 DEF OrderSound
<1>5. l \in OrderLine /\ l.filled = orders[c].report.filled /\ l.id = orders[c].venue
  BY <1>1, <1>4, LineTypes DEF Order
<1> HIDE DEF p, l
<1>6. LineTrue(l, p)
  BY <1>2, <1>4, <1>5 DEF LineTrue
<1>7. /\ lost' \in 0 .. MaxFaults
      /\ \/ life' = life
         \/ \E m \in OrderLine : LineTrue(m, p) /\ life' = [life EXCEPT ![c] = Append(life[c], m)]
  BY <1>3, <1>5, <1>6, LineRecorded
<1>8. orders[c].fills <= p.fills
  BY <1>1, <1>2 DEF Order
<1>9. QED BY <1>1, <1>2, <1>3, <1>7, <1>8, OrderMoves

\* What happens to orders outside the calls, and the end of the process.
LEMMA OrderWorldKeeps ==
  ASSUME OrderInv, NEW c \in Cids, ExchangeMoves(c) \/ LatencyPasses(c) PROVE OrderStep
<1>1. orders[c] # None /\ orders[c] \in Order /\ OrderSound(c)
  BY OrderType DEF ExchangeMoves, LatencyPasses, Placed
<1>2. UNCHANGED <<clock, settings, life, lost>> /\ lost' \in 0 .. MaxFaults
  BY DEF ExchangeMoves, LatencyPasses, OrderInv
<1>3. orders[c].at # "done" => c \in InFlight
  BY <1>1 DEF InFlight
<1>4. ASSUME ExchangeMoves(c), orders' = [orders EXCEPT ![c].fills = @ + 1] PROVE OrderStep
  <2> DEFINE p == [orders[c] EXCEPT !.fills = @ + 1]
  <2>1. orders[c].fills \in 0 .. Whole /\ orders[c].fills < Whole /\ orders[c].venue = "real"
    BY <1>1, <1>4 DEF ExchangeMoves, Order
  <2>2. /\ p \in Order /\ p.venue = "real" /\ p.fills = orders[c].fills + 1
        /\ p.at = orders[c].at /\ p.report = orders[c].report
    BY <1>1, <2>1 DEF Order, Whole
  <2>3. orders' = [orders EXCEPT ![c] = p]
    BY <1>4
  <2> HIDE DEF p
  <2>4. orders[c].fills <= p.fills
        /\ (p.at \in {"polling", "over"} => p.report \in Report /\ p.report.filled <= p.fills)
    <3>1. \A r \in Report : r.filled \in Nat
      BY DEF Report
    <3>2. QED BY <1>1, <2>1, <2>2, <3>1 DEF OrderSound, Whole
  <2>5. QED BY <1>1, <1>2, <1>3, <2>1, <2>2, <2>3, <2>4, OrderMoves
<1>5. ASSUME NEW p \in Order, p.venue = orders[c].venue, p.fills = orders[c].fills,
             p.at = orders[c].at, p.report = orders[c].report,
             orders' = [orders EXCEPT ![c] = p]
      PROVE  OrderStep
  <2>1. orders[c].fills <= p.fills
    BY <1>1, <1>5 DEF Order
  <2>2. /\ p.at = "intent" /\ p.venue # "real" => p.fills = 0
        /\ p.at \in {"polling", "over"} => p.report \in Report /\ p.report.filled <= p.fills
    BY <1>1, <1>5 DEF OrderSound
  <2>3. QED BY <1>1, <1>2, <1>3, <1>5, <2>1, <2>2, OrderMoves
<1>6. ASSUME orders' = [orders EXCEPT ![c].canceled = TRUE] PROVE OrderStep
  <2>1. [orders[c] EXCEPT !.canceled = TRUE] \in Order
    BY <1>1 DEF Order
  <2>2. QED BY <1>1, <1>5, <1>6, <2>1 DEF Order
<1>7. ASSUME orders' = [orders EXCEPT ![c].ready = TRUE] PROVE OrderStep
  <2>1. [orders[c] EXCEPT !.ready = TRUE] \in Order
    BY <1>1 DEF Order
  <2>2. QED BY <1>1, <1>5, <1>7, <2>1 DEF Order
<1>8. QED BY <1>4, <1>6, <1>7 DEF ExchangeMoves, LatencyPasses

LEMMA DiesKeeps ==
  ASSUME OrderInv, OrderCallDies, UNCHANGED <<clock, life, lost>>,
         settings' \in Environments \cup {None}
  PROVE  OrderStep
<1>1. ASSUME NEW c \in Cids, c \in InFlight
      PROVE  /\ orders[c] # None /\ orders[c] \in Order
             /\ orders'[c] = [orders[c] EXCEPT !.at = "done"] /\ orders'[c] \in Order
             /\ orders'[c].fills = orders[c].fills /\ orders'[c].venue = orders[c].venue
             /\ orders'[c].at = "done"
  <2>1. orders[c] # None /\ orders[c] \in Order
    BY <1>1, OrderType DEF InFlight
  <2>2. orders'[c] = [orders[c] EXCEPT !.at = "done"]
    BY <1>1 DEF OrderCallDies
  <2>3. QED BY <2>1, <2>2 DEF Order
<1>2. \A c \in Cids : c \notin InFlight => orders'[c] = orders[c]
  BY DEF OrderCallDies
<1>3. orders' \in [Cids -> Order \cup {None}]
  <2>1. \A c \in Cids : orders'[c] \in Order \cup {None}
    BY <1>1, <1>2 DEF OrderInv
  <2>2. orders' = [c \in Cids |-> orders'[c]]
    BY DEF OrderCallDies
  <2>3. QED BY <2>1, <2>2
<1>4. ASSUME NEW c \in Cids PROVE OrderSound(c)'
  <2>1. CASE c \in InFlight
    <3>1. orders'[c] # None
      BY <1>1, <2>1, OrderAssumption
    <3>2. \A i \in DOMAIN life[c] : LineTrue(life[c][i], orders[c])
      BY <1>1, <2>1 DEF OrderInv, OrderSound
    <3>3. QED BY <1>1, <2>1, <3>1, <3>2 DEF OrderSound, LineTrue
  <2>2. CASE c \notin InFlight
    BY <1>2, <2>2 DEF OrderInv, OrderSound
  <2>3. QED BY <2>1, <2>2
<1>5. InFlight' = {}
  <2>1. \A c \in Cids : orders'[c] = None \/ orders'[c].at = "done"
    BY <1>1, <1>2 DEF InFlight
  <2>2. QED BY <2>1 DEF InFlight
<1>6. OrderInv'
  BY <1>3, <1>4, <1>5 DEF OrderInv
<1>7. OrdersGrow
  <2>1. SUFFICES ASSUME NEW d \in Cids, orders[d] # None
                 PROVE  /\ orders'[d] \in Order /\ orders'[d].venue = orders[d].venue
                        /\ orders[d].fills <= orders'[d].fills
    BY DEF OrdersGrow
  <2>2. orders[d] \in Order /\ orders[d].fills \in 0 .. Whole
    BY <2>1, OrderType
  <2>3. /\ orders'[d] \in Order /\ orders'[d].venue = orders[d].venue
        /\ orders'[d].fills = orders[d].fills
    BY <1>1, <1>2, <2>2
  <2>4. QED BY <2>2, <2>3
<1>8. QED BY <1>6, <1>7 DEF OrderStep

\* The clock, and a start of the bot.
LEMMA QuietKeeps ==
  ASSUME OrderInv, UNCHANGED <<orders, life, lost>>,
         clock' \in 0 .. MaxTime, settings' \in Environments \cup {None}
  PROVE  OrderStep
<1>1. InFlight' = InFlight /\ \A c \in Cids : OrderSound(c)' = OrderSound(c)
  BY DEF InFlight, OrderSound
<1>2. OrderInv'
  BY <1>1 DEF OrderInv
<1>3. OrdersGrow
  <2>1. \A c \in Cids : orders[c] # None => orders[c] \in Order
    BY OrderType
  <2>2. QED BY <2>1 DEF OrdersGrow, Order
<1>4. QED BY <1>2, <1>3 DEF OrderStep

\* What earlier runs recorded.
LEMMA OrderInitInv ==
  ASSUME NEW before \in SUBSET Cids, OrderInit(before) PROVE OrderInv
<1>1. /\ clock = 0 /\ lost = 0 /\ settings = None
      /\ orders = [c \in Cids |-> IF c \in before THEN EarlierOrder ELSE None]
      /\ life = [c \in Cids |-> IF c \in before THEN EarlierLines ELSE <<>>]
  BY DEF OrderInit
<1>2. EarlierOrder \in Order /\ EarlierOrder.at = "done" /\ EarlierOrder.fills = Whole
      /\ EarlierOrder.venue = "real"
  BY OrderAssumption DEF EarlierOrder, Order, Report, Statuses, Whole
<1> DEFINE intent == Line("intent", None, "live", None, 0)
           ack    == Line("ack", "real", "live", "New", 0)
           end    == Line("terminal", "real", "live", "Filled", Whole)
<1>3. \A l \in {intent, ack, end} : l \in OrderLine /\ LineTrue(l, EarlierOrder)
  BY <1>1, <1>2 DEF Line, OrderLine, LineTrue, Statuses, Whole
<1>4. EarlierLines = <<intent, ack, end>>
  BY DEF EarlierLines
<1> HIDE DEF intent, ack, end
<1>5. EarlierLines \in Seq(OrderLine)
      /\ \A i \in DOMAIN EarlierLines : LineTrue(EarlierLines[i], EarlierOrder)
  BY <1>3, <1>4
<1>6. orders \in [Cids -> Order \cup {None}] /\ life \in [Cids -> Seq(OrderLine)]
  BY <1>1, <1>2, <1>5
<1>7. InFlight = {}
  BY <1>1, <1>2 DEF InFlight
<1>8. ASSUME NEW c \in Cids PROVE OrderSound(c)
  BY <1>1, <1>2, <1>5, OrderAssumption DEF OrderSound
<1>9. QED BY <1>1, <1>6, <1>7, <1>8, OrderAssumption DEF OrderInv

(***************************************************************************)
(* The scenario of a behaviour never changes.                              *)
(***************************************************************************)
LEMMA BoundsType ==
  ASSUME bounds \in Scenarios
  PROVE  /\ bounds.settings \subseteq Environments /\ bounds.before \in SUBSET Cids
         /\ bounds.traded \in SUBSET Tickers /\ bounds.markets \in SUBSET Tickers
         /\ bounds.lines \in Nat /\ bounds.trains \in Nat
         /\ bounds.deaths \in 0 .. MaxDeaths /\ bounds.lost \in 0 .. MaxFaults
         /\ bounds.time \in 0 .. MaxTime
<1>1. bounds \in Bounds
  BY PipelineAssumption
<1>2. Settings \subseteq Environments /\ Traded \subseteq Tickers
  BY OrderAssumption, BackfillAssumption
<1>3. QED BY <1>1, <1>2 DEF Bounds

LEMMA ProcsType == Bot \in Procs /\ Rebuild \in Procs /\ Rebuild # Bot /\ Procs = {Bot, Rebuild}
<1>1. PICK q \in Procs : q # Bot /\ Procs = {q, Bot}
  BY PipelineAssumption
<1>2. Rebuild \in Procs /\ Rebuild # Bot
  BY <1>1 DEF Rebuild
<1>3. QED BY <1>1, <1>2, BackfillAssumption DEF Bot

LEMMA SameBounds == ASSUME Next PROVE bounds' = bounds
BY DEF Next, World, Fetch, RecordMarket, BeginTasks, BeginRebuild, EndBackfill, StartBuild,
       WritePart, WriteJsonlDataset, EndBuild, StartTraining, WriteArtifact, EndTraining,
       StartBot, OrderCall, OrderWorld, BotDies, RebuildDies

(***************************************************************************)
(* Orders under the steps of the pipeline.                                 *)
(***************************************************************************)
LEMMA OrdersKept == ASSUME OrderInv, bounds \in Scenarios, Next PROVE OrderStep
<1>1. ASSUME NEW c \in Cids, OrderCall(c) PROVE OrderStep
  BY <1>1, IntentKeeps, SilentKeeps, SubmitFailsKeeps, SubmitKeeps, PollKeeps, CancelKeeps,
     TerminalKeeps DEF OrderCall
<1>2. ASSUME OrderWorld PROVE OrderStep
  <2>1. CASE Tick
    <3>1. clock' \in 0 .. MaxTime
      BY <2>1, OrderAssumption DEF Tick, OrderInv
    <3>2. QED BY <2>1, <3>1, QuietKeeps DEF Tick, OrderInv
  <2>2. QED BY <1>2, <2>1, OrderWorldKeeps DEF OrderWorld
<1>3. ASSUME BotDies PROVE OrderStep
  BY <1>3, DiesKeeps DEF BotDies
<1>4. ASSUME NEW s \in Settings, NEW policy \in {"shadow", "active"}, StartBot(s, policy)
      PROVE  OrderStep
  BY <1>4, BoundsType, QuietKeeps DEF StartBot, OrderInv
<1>5. ASSUME UNCHANGED orderVars PROVE OrderStep
  BY <1>5, QuietKeeps DEF orderVars, OrderInv
<1>6. \/ \E c \in Cids : OrderCall(c)
      \/ OrderWorld \/ BotDies
      \/ \E s \in Settings, policy \in {"shadow", "active"} : StartBot(s, policy)
      \/ UNCHANGED orderVars
  BY DEF Next, World, Fetch, RecordMarket, BeginTasks, BeginRebuild, EndBackfill, StartBuild,
         WritePart, WriteJsonlDataset, EndBuild, StartTraining, WriteArtifact, EndTraining,
         RebuildDies
<1>7. QED BY <1>1, <1>2, <1>3, <1>4, <1>5, <1>6

(***************************************************************************)
(* The backfill and the labels under the steps of the pipeline.            *)
(***************************************************************************)

\* A market that has settled on an outcome keeps it.
AnswersFinal ==
  \A t \in Tickers, yes \in {"yes", "no"} :
    answer[t] = [status |-> "settled", result |-> yes] => answer'[t] = answer[t]

BackfillStep == BackfillInv' /\ LabelsInv' /\ AnswersFinal

\* What an answer says is a true label.
LEMMA RecordTrue ==
  ASSUME BackfillInv, LabelsInv, NEW t \in Tickers
  PROVE  TrueLabel(t, Record(answer[t]).status, Record(answer[t]).yes)
<1>1. answer[t] \in Answers /\ (answer[t].status = "active" => answer[t].result \in {Nil, "blank"})
  BY DEF BackfillInv, Types, LabelsInv
<1>2. answer[t] = [status |-> answer[t].status, result |-> answer[t].result]
  BY <1>1 DEF Answers
<1>3. Record(answer[t]).status = "resolved" /\ Record(answer[t]).yes # Nil
        => answer[t].status = "settled" /\ answer[t].result \in {"yes", "no"}
           /\ Record(answer[t]).yes = answer[t].result
  BY <1>1 DEF Record, ParseResolutionStatus, ParseOutcomeYes, Answers
<1>4. QED BY <1>2, <1>3 DEF TrueLabel, TrueIn

\* The backfill's steps that leave the answers alone.
LEMMA LabelsMove ==
  ASSUME LabelsInv, answer' = answer,
         \A p \in Procs, t \in Tickers : backfill'[p] # Nil /\ backfill'[p].new[t] # Nil =>
           TrueLabel(t, backfill'[p].new[t].status, backfill'[p].new[t].yes),
         \A t \in Tickers : outcomes'[t] # Nil =>
           outcomes'[t] = outcomes[t] \/ TrueLabel(t, outcomes'[t].last.status, outcomes'[t].last.yes)
  PROVE  LabelsInv' /\ AnswersFinal
<1>1. \A t \in Tickers : outcomes'[t] # Nil =>
        TrueLabel(t, outcomes'[t].last.status, outcomes'[t].last.yes)
  BY DEF LabelsInv
<1>2. QED BY <1>1 DEF LabelsInv, AnswersFinal, TrueLabel, TrueIn

\* An append, of all records or some.
LEMMA AppendLabels ==
  ASSUME BackfillInv, LabelsInv, NEW p \in Procs, backfill[p] # Nil, NEW ts \in SUBSET Tickers,
         outcomes' = WithRecords(p, ts), backfill' = [backfill EXCEPT ![p] = Nil],
         answer' = answer
  PROVE  LabelsInv' /\ AnswersFinal
<1>1. \A q \in Procs : backfill'[q] # Nil => backfill'[q] = backfill[q]
  BY DEF BackfillInv, Types
<1>2. \A t \in Tickers : outcomes'[t] # Nil =>
        outcomes'[t] = outcomes[t] \/ TrueLabel(t, outcomes'[t].last.status, outcomes'[t].last.yes)
  <2>1. SUFFICES ASSUME NEW t \in Tickers, outcomes'[t] # outcomes[t]
                 PROVE  TrueLabel(t, outcomes'[t].last.status, outcomes'[t].last.yes)
    OBVIOUS
  <2>2. backfill[p].new[t] # Nil /\ outcomes'[t] = Appended(outcomes[t], backfill[p].new[t])
    BY <2>1 DEF WithRecords
  <2>3. outcomes'[t].last = backfill[p].new[t]
    BY <2>2 DEF Appended
  <2>4. QED BY <2>2, <2>3 DEF LabelsInv
<1>3. \A q \in Procs, t \in Tickers : backfill'[q] # Nil /\ backfill'[q].new[t] # Nil =>
        TrueLabel(t, backfill'[q].new[t].status, backfill'[q].new[t].yes)
  BY <1>1 DEF LabelsInv
<1>4. QED BY <1>2, <1>3, LabelsMove

LEMMA BackfillKeeps ==
  ASSUME BackfillInv, LabelsInv, [BackfillNext]_backfillVars PROVE BackfillStep
<1>1. BackfillInv'
  BY NextInv
<1>2. CASE UNCHANGED backfillVars
  <2>1. LabelsInv' /\ AnswersFinal
    BY <1>2 DEF backfillVars, LabelsInv, TrueLabel, TrueIn, AnswersFinal
  <2>2. QED BY <1>1, <2>1 DEF BackfillStep
<1>3. ASSUME NEW t \in Tickers, Settle(t) PROVE LabelsInv' /\ AnswersFinal
  <2>1. PICK a \in After(answer[t]) : answer' = [answer EXCEPT ![t] = a]
    BY <1>3 DEF Settle
  <2>2. ~Final(answer[t]) /\ answer \in [Tickers -> Answers] /\ a.status \in {"settled", "canceled"}
    BY <1>3 DEF Settle, BackfillInv, Types, After
  <2>3. AnswersFinal
    BY <2>1, <2>2 DEF AnswersFinal, Final
  <2>4. \A u \in Tickers : answer'[u].status = "active" => answer'[u].result \in {Nil, "blank"}
    BY <2>1, <2>2 DEF LabelsInv
  <2>5. UNCHANGED <<outcomes, backfill>>
    BY <1>3 DEF Settle
  <2>6. \A p \in Procs, u \in Tickers : backfill[p] # Nil /\ backfill[p].new[u] # Nil =>
          TrueLabel(u, backfill[p].new[u].status, backfill[p].new[u].yes)
    BY DEF LabelsInv
  <2>7. \A u \in Tickers : outcomes[u] # Nil =>
          TrueLabel(u, outcomes[u].last.status, outcomes[u].last.yes)
    BY DEF LabelsInv
  <2>8. LabelsInv'
    BY <2>3, <2>4, <2>5, <2>6, <2>7 DEF LabelsInv, TrueLabel, TrueIn, AnswersFinal
  <2>9. QED BY <2>3, <2>8
<1>4. ASSUME NEW t \in Tickers, MarketStateChanges(t) PROVE LabelsInv' /\ AnswersFinal
  BY <1>4 DEF MarketStateChanges, LabelsInv, TrueLabel, TrueIn, AnswersFinal
<1>5. ASSUME NEW p \in Procs, StartBackfill(p) PROVE LabelsInv' /\ AnswersFinal
  <2>1. \A q \in Procs, t \in Tickers : backfill'[q] # Nil /\ backfill'[q].new[t] # Nil =>
          backfill'[q] = backfill[q]
    BY <1>5 DEF StartBackfill, BackfillInv, Types
  <2>2. \A q \in Procs, t \in Tickers : backfill'[q] # Nil /\ backfill'[q].new[t] # Nil =>
          TrueLabel(t, backfill'[q].new[t].status, backfill'[q].new[t].yes)
    BY <2>1 DEF LabelsInv
  <2>3. QED BY <1>5, <2>2, LabelsMove DEF StartBackfill
<1>6. ASSUME NEW p \in Procs, AppendOutcomes(p) PROVE LabelsInv' /\ AnswersFinal
  BY <1>6, AppendLabels DEF AppendOutcomes, Visited
<1>7. ASSUME NEW p \in Procs, BackfillDies(p) PROVE LabelsInv' /\ AnswersFinal
  <2>1. PICK n \in 0 .. Count : outcomes' = WithRecords(p, 1 .. n)
    BY <1>7 DEF BackfillDies
  <2>2. (1 .. n) \in SUBSET Tickers
    BY BackfillAssumption DEF Tickers
  <2>3. QED BY <1>7, <2>1, <2>2, AppendLabels DEF BackfillDies
<1>8. ASSUME NEW p \in Procs, NEW t \in Tickers, FetchOutcome(p, t) \/ FetchFails(p, t)
      PROVE  LabelsInv' /\ AnswersFinal
  <2>1. backfill[p] \in Backfill /\ backfill[p] # Nil
    BY <1>8, FetchedIsDue DEF BackfillInv, FetchOutcome, FetchFails, Fetching
  <2>2. Past(backfill[p], t).new = backfill[p].new /\ DOMAIN backfill[p].new = Tickers
    BY <2>1 DEF Past, Backfill
  <2>3. Past(backfill[p], t) \in Backfill
    BY <2>1, PastType, TickersNat
  <2>4. \A q \in Procs : q # p => backfill'[q] = backfill[q]
    BY <1>8 DEF FetchOutcome, FetchFails, BackfillInv, Types
  <2>5. \A u \in Tickers : backfill'[p].new[u] = backfill[p].new[u]
                             \/ (u = t /\ backfill'[p].new[u] \in {Nil, Record(answer[t])})
    <3>1. CASE FetchFails(p, t)
      <4>1. backfill'[p] = Past(backfill[p], t)
        BY <3>1 DEF FetchFails, BackfillInv, Types
      <4>2. QED BY <2>2, <4>1
    <3>2. CASE FetchOutcome(p, t)
      <4> DEFINE r == IF Record(answer[t]).status = "unresolved" THEN Nil ELSE Record(answer[t])
      <4>1. backfill'[p] = [Past(backfill[p], t) EXCEPT !.new[t] = r]
        BY <3>2 DEF FetchOutcome, BackfillInv, Types
      <4>2. r \in {Nil, Record(answer[t])}
        OBVIOUS
      <4> HIDE DEF r
      <4>3. backfill'[p].new = [backfill[p].new EXCEPT ![t] = r]
        BY <2>2, <2>3, <4>1 DEF Backfill
      <4>4. backfill[p].new \in [Tickers -> Records \cup {Nil}]
        BY <2>1 DEF Backfill
      <4>5. QED BY <4>2, <4>3, <4>4
    <3>3. QED BY <1>8, <3>1, <3>2
  <2>6. \A q \in Procs, u \in Tickers : backfill'[q] # Nil /\ backfill'[q].new[u] # Nil =>
          TrueLabel(u, backfill'[q].new[u].status, backfill'[q].new[u].yes)
    BY <2>1, <2>4, <2>5, RecordTrue DEF LabelsInv
  <2>7. UNCHANGED <<answer, outcomes>>
    BY <1>8 DEF FetchOutcome, FetchFails
  <2>8. QED BY <2>6, <2>7, LabelsMove
<1>9. QED
  BY <1>1, <1>2, <1>3, <1>4, <1>5, <1>6, <1>7, <1>8 DEF BackfillNext, BackfillStep

\* The steps of the others that the backfill's variables see.
LEMMA BackfillSees ==
  ASSUME BackfillInv, LabelsInv, UNCHANGED <<answer, scanned, outcomes, backfill, overlapped>>,
         filled' \subseteq Tickers, deaths' \in 0 .. MaxDeaths
  PROVE  BackfillStep
<1>1. BackfillInv'
  BY DEF BackfillInv, Types, RetriesCounted, NewUnresolved, OneAtATime, ResolvedIsCurrent,
         NullIsRefetched, Settled, FullySettled
<1>2. LabelsInv' /\ AnswersFinal
  BY DEF LabelsInv, TrueLabel, TrueIn, AnswersFinal
<1>3. QED BY <1>1, <1>2 DEF BackfillStep

LEMMA OutcomesKept ==
  ASSUME BackfillInv, LabelsInv, bounds \in Scenarios, Next PROVE BackfillStep
<1>1. ASSUME NEW t \in Tickers, World(t) \/ Fetch(t) PROVE BackfillStep
  BY <1>1, BackfillKeeps DEF World, Fetch, BackfillNext
<1>2. CASE BeginTasks \/ BeginRebuild
  BY <1>2, ProcsType, BackfillKeeps DEF BeginTasks, BeginRebuild, BackfillNext
<1>3. ASSUME NEW p \in Procs, EndBackfill(p) PROVE BackfillStep
  BY <1>3, BackfillKeeps DEF EndBackfill, BackfillNext
<1>4. ASSUME NEW c \in Cids, OrderCall(c) PROVE BackfillStep
  <2>1. filled' \subseteq Tickers
    BY <1>4, BackfillAssumption DEF OrderCall, BackfillInv, Types, OrderTicker, Tickers
  <2>2. QED BY <1>4, <2>1, BackfillSees DEF OrderCall, BackfillInv, Types
<1>5. CASE BotDies \/ RebuildDies
  <2>1. PICK p \in Procs :
          IF backfill[p] # Nil THEN BackfillDies(p)
          ELSE deaths' = deaths + 1 /\ UNCHANGED <<answer, scanned, filled, outcomes, backfill, overlapped>>
    BY <1>5, ProcsType DEF BotDies, RebuildDies
  <2>2. CASE backfill[p] # Nil
    BY <2>1, <2>2, BackfillKeeps DEF BackfillNext
  <2>3. CASE backfill[p] = Nil
    <3>1. deaths < bounds.deaths /\ deaths \in 0 .. MaxDeaths
      BY <1>5 DEF BotDies, RebuildDies, BackfillInv, Types
    <3>2. deaths + 1 \in 0 .. MaxDeaths
      BY <3>1, BoundsType, BackfillAssumption
    <3>3. QED BY <2>1, <2>3, <3>2, BackfillSees DEF BackfillInv, Types
  <2>4. QED BY <2>2, <2>3
<1>6. CASE UNCHANGED backfillVars
  BY <1>6, BackfillKeeps
<1>7. \/ \E t \in Tickers : World(t) \/ Fetch(t)
      \/ BeginTasks \/ BeginRebuild \/ \E p \in Procs : EndBackfill(p)
      \/ \E c \in Cids : OrderCall(c)
      \/ BotDies \/ RebuildDies \/ UNCHANGED backfillVars
  BY DEF Next, RecordMarket, StartBuild, WritePart, WriteJsonlDataset, EndBuild, StartTraining,
         WriteArtifact, EndTraining, StartBot, OrderWorld
<1>8. QED BY <1>1, <1>2, <1>3, <1>4, <1>5, <1>6, <1>7

(***************************************************************************)
(* The datasets.                                                           *)
(***************************************************************************)
LEMMA FileNamesAre == FileNames = {"forecast", "execution", "live_real"}
<1>1. DOMAIN Files = {1, 2, 3} /\ Files[1] = "forecast" /\ Files[2] = "execution"
      /\ Files[3] = "live_real"
  BY DEF Files
<1>2. QED BY <1>1 DEF FileNames

LEMMA OwnRange ==
  ASSUME NEW S, NEW s \in Seq(S)
  PROVE  /\ s \in Seq({s[i] : i \in DOMAIN s}) /\ Len(s) \in Nat /\ DOMAIN s = 1 .. Len(s)
         /\ \A i \in DOMAIN s : s[i] \in S
<1>1. Len(s) \in Nat /\ DOMAIN s = 1 .. Len(s) /\ s \in [1 .. Len(s) -> S]
  BY LenProperties
<1>2. s \in [1 .. Len(s) -> {s[i] : i \in DOMAIN s}]
  BY <1>1
<1>3. QED BY <1>1, <1>2, SameLength

\* What was true of a row stays true: answers are final, and orders only grow.
LEMMA RowsStay ==
  ASSUME NEW f, NEW rows, AnswersFinal, OrdersGrow, OrderInv,
         SoundIn(f, rows, answer, orders)
  PROVE  SoundIn(f, rows, answer', orders')
<1>1. SUFFICES ASSUME NEW i \in DOMAIN rows PROVE RowTrue(f, rows[i].row, answer', orders')
  BY DEF SoundIn
<1> DEFINE r == rows[i].row
<1>2. RowTrue(f, r, answer, orders)
  BY DEF SoundIn
<1> HIDE DEF r
<1>3. CASE f = "forecast"
  BY <1>2, <1>3 DEF RowTrue, TrueIn, AnswersFinal, r
<1>4. CASE f # "forecast"
  <2>1. FillsTrue(r, orders)
    BY <1>2, <1>4 DEF RowTrue
  <2> DEFINE c == r.client_order_id
  <2>2. c \in Cids /\ orders[c] \in Order /\ orders[c] # None
    BY <2>1, OrderAssumption DEF FillsTrue
  <2>3. /\ orders'[c] \in Order /\ orders'[c].venue = orders[c].venue
        /\ orders[c].fills <= orders'[c].fills
    BY <2>2 DEF OrdersGrow
  <2>4. orders[c].fills \in Nat /\ orders'[c].fills \in Nat
    BY <2>2, <2>3 DEF Order
  <2> HIDE DEF c
  <2>5. r.label_terminal_filled_qty \in 0 .. orders[c].fills
    BY <2>1 DEF FillsTrue, c
  <2>6. r.label_terminal_filled_qty \in 0 .. orders'[c].fills
    BY <2>3, <2>4, <2>5
  <2>7. FillsTrue(r, orders')
    BY <2>1, <2>2, <2>3, <2>6 DEF FillsTrue, c
  <2>8. QED BY <1>4, <2>7 DEF RowTrue, r
<1>5. QED BY <1>3, <1>4

\* A part of a sound file is sound, and so is the part of one of the others.
LEMMA PartSound ==
  ASSUME NEW f, NEW g, f = "forecast" <=> g = "forecast", NEW rows, FileSound(f, rows),
         NEW S, NEW part \in Seq(S), \A k \in DOMAIN part : \E i \in DOMAIN rows : part[k] = rows[i]
  PROVE  FileSound(g, part)
<1>1. part \in Seq({part[k] : k \in DOMAIN part})
  BY OwnRange
<1>2. SplitByTime(part)
  BY DEF FileSound, SoundIn, SplitByTime
<1>3. \A k \in DOMAIN part : RowTrue(g, part[k].row, answer, orders)
  BY DEF FileSound, SoundIn, RowTrue
<1>4. QED BY <1>1, <1>2, <1>3 DEF FileSound, SoundIn

LEMMA HeadOfFile ==
  ASSUME NEW f, NEW rows, FileSound(f, rows), NEW n \in 0 .. Len(rows) - 1
  PROVE  FileSound(f, SubSeq(rows, 1, n))
<1> DEFINE S == {rows[i] : i \in DOMAIN rows}
<1>1. rows \in Seq(S) /\ Len(rows) \in Nat /\ DOMAIN rows = 1 .. Len(rows)
  BY OwnRange DEF FileSound, SoundIn
<1>2. \A i \in 1 .. n : i \in DOMAIN rows /\ rows[i] \in S
  BY <1>1
<1> DEFINE part == SubSeq(rows, 1, n)
<1> HIDE DEF S
<1>3. n \in Int /\ n - 1 + 1 = n /\ (IF 1 <= n THEN n - 1 + 1 ELSE 0) = n
  BY <1>1
<1>4. /\ part \in Seq(S) /\ Len(part) = IF 1 <= n THEN n - 1 + 1 ELSE 0
      /\ \A k \in 1 .. n - 1 + 1 : part[k] = rows[1 + k - 1]
  BY <1>2, <1>3, SubSeqProperties
<1> HIDE DEF part
<1>5. DOMAIN part = 1 .. n /\ \A k \in 1 .. n : part[k] = rows[k]
  BY <1>3, <1>4, OwnRange
<1>6. \A k \in DOMAIN part : \E i \in DOMAIN rows : part[k] = rows[i]
  BY <1>2, <1>5
<1>7. FileSound(f, part)
  BY <1>4, <1>6, PartSound
<1>8. QED BY <1>7 DEF part

LEMMA LiveRealSound ==
  ASSUME NEW rows, FileSound("execution", rows) PROVE FileSound("live_real", LiveReal(rows))
<1> DEFINE S == {rows[i] : i \in DOMAIN rows}
           P == {i \in DOMAIN rows : rows[i].row.execution_source_class = "live_real"}
<1>1. rows \in Seq(S) /\ P \in SUBSET (DOMAIN rows)
  BY DEF FileSound, SoundIn
<1>2. LiveReal(rows) = At(rows, P)
  BY DEF LiveReal
<1> HIDE DEF P, S
<1>3. /\ LiveReal(rows) \in Seq(S)
      /\ \A k \in 1 .. Len(LiveReal(rows)) : \E i \in P : LiveReal(rows)[k] = rows[i]
  BY <1>1, <1>2, AtProperties
<1>4. DOMAIN LiveReal(rows) = 1 .. Len(LiveReal(rows))
  BY <1>3, OwnRange
<1>5. \A k \in DOMAIN LiveReal(rows) : \E i \in DOMAIN rows : LiveReal(rows)[k] = rows[i]
  BY <1>1, <1>3, <1>4
<1>6. QED BY <1>3, <1>5, PartSound

\* Rows in order of time, named by their place: no row that trains is the later one.
LEMMA SplitsSound ==
  ASSUME NEW f, NEW R, IsFiniteSet(R), \A r \in R : RowTrue(f, r, answer, orders),
         NEW rows \in AssignSplits(R)
  PROVE  FileSound(f, rows)
<1>1. PICK s \in InTime(R) : rows = [i \in DOMAIN s |-> [row |-> s[i], split |-> SplitName(i, Len(s))]]
  BY DEF AssignSplits
<1> DEFINE n == Cardinality(R)
<1>2. n \in Nat
  BY FS_CardinalityType
<1>3. s \in [1 .. n -> R] /\ \A i, j \in DOMAIN s : i < j => s[i].feature_ts <= s[j].feature_ts
  BY DEF InTime, SetToSeqs
<1> HIDE DEF n
<1>4. Len(s) = n /\ DOMAIN s = 1 .. n
  BY <1>2, <1>3, SameLength
<1>5. /\ DOMAIN rows = 1 .. n
      /\ \A i \in 1 .. n : rows[i].row = s[i] /\ rows[i].split = SplitName(i, n)
      /\ rows \in [1 .. n -> {rows[i] : i \in DOMAIN rows}]
  BY <1>1, <1>4
<1>6. rows \in Seq({rows[i] : i \in DOMAIN rows})
  BY <1>2, <1>5, SameLength
<1>7. SplitByTime(rows)
  <2>1. SUFFICES ASSUME NEW i \in DOMAIN rows, NEW j \in DOMAIN rows,
                        rows[i].split = "train", rows[j].split # "train"
                 PROVE  rows[i].row.feature_ts <= rows[j].row.feature_ts
    BY DEF SplitByTime
  <2>2. /\ i \in 1 .. n /\ j \in 1 .. n /\ rows[i].row = s[i] /\ rows[j].row = s[j]
        /\ SplitName(i, n) = "train" /\ SplitName(j, n) # "train"
    BY <1>5, <2>1
  <2> DEFINE cut == TrainPct * n
  <2>3. (i - 1) * 100 < cut /\ ~((j - 1) * 100 < cut)
    BY <2>2 DEF SplitName
  <2>4. cut \in Int
    <3>1. TrainPct \in Int
      BY PipelineAssumption
    <3>2. QED BY <1>2, <3>1
  <2> HIDE DEF cut
  <2>5. i < j
    BY <1>2, <2>2, <2>3, <2>4
  <2>6. QED BY <1>3, <1>4, <2>2, <2>5
<1>8. \A i \in DOMAIN rows : RowTrue(f, rows[i].row, answer, orders)
  BY <1>3, <1>5
<1>9. QED BY <1>6, <1>7, <1>8 DEF FileSound, SoundIn

(***************************************************************************)
(* The rows that a build makes.                                            *)
(***************************************************************************)
LEMMA ImageFinite ==
  ASSUME NEW S, IsFiniteSet(S), NEW f, DOMAIN f = S PROVE IsFiniteSet({f[x] : x \in S})
<1> DEFINE T == {f[x] : x \in S}
           g == [x \in S |-> f[x]]
<1>1. g \in Surjection(S, T)
  BY DEF Surjection
<1>2. QED BY <1>1, FS_Surjection

LEMMA ForecastTrue ==
  ASSUME LabelsInv, ScenarioInv
  PROVE  /\ IsFiniteSet(ForecastRows)
         /\ \A r \in ForecastRows : RowTrue("forecast", r, answer, orders)
<1> DEFINE L == {k \in lines : outcomes[k.ticker] # Nil}
           f == [l \in L |->
                  [ticker |-> l.ticker, feature_ts |-> l.ts,
                   label_outcome_yes |-> outcomes[l.ticker].last.yes,
                   label_resolution_status |-> outcomes[l.ticker].last.status]]
<1>1. IsFiniteSet(L)
  BY FS_Subset DEF ScenarioInv
<1>2. ForecastRows = {f[l] : l \in L}
  BY DEF ForecastRows
<1>3. \A l \in L : RowTrue("forecast", f[l], answer, orders)
  BY DEF RowTrue, LabelsInv, TrueLabel, ScenarioInv
<1> HIDE DEF f, L
<1>4. DOMAIN f = L
  BY DEF f
<1>5. QED BY <1>1, <1>2, <1>3, <1>4, ImageFinite

LEMMA ExecutionTrue ==
  ASSUME OrderInv, NEW c \in Recorded, NEW markout
  PROVE  RowTrue("execution", ExecutionRow(c, markout), answer, orders)
<1> DEFINE r == ExecutionRow(c, markout)
           o == orders[c]
<1>1. c \in Cids /\ life[c] \in Seq(OrderLine) /\ life[c] # <<>>
  <2>1. Intents(c) # {} /\ c \in Cids
    BY DEF Recorded
  <2>2. QED BY <2>1 DEF Intents, OrderInv
<1>2. o # None
  BY <1>1 DEF OrderInv, OrderSound
<1>3. o \in Order /\ o.fills \in 0 .. Whole /\ \A i \in DOMAIN life[c] : LineTrue(life[c][i], o)
  BY <1>1, <1>2, OrderType DEF OrderSound
<1> HIDE DEF o
<1>4. /\ Len(life[c]) \in Nat /\ DOMAIN life[c] = 1 .. Len(life[c])
      /\ \A i \in DOMAIN life[c] : life[c][i] \in OrderLine
  BY <1>1, OwnRange
<1>5. WithStatus(c) # {} => Max(WithStatus(c)) \in DOMAIN life[c]
  <2>1. WithStatus(c) \in SUBSET (1 .. Len(life[c]))
    BY <1>4 DEF WithStatus
  <2>2. QED BY <1>4, <2>1, GreatestIn
<1>6. /\ TerminalQty(c) \in 0 .. o.fills
      /\ TerminalQty(c) > 0 => \E i \in DOMAIN life[c] : life[c][i].filled > 0
  <2>1. CASE WithStatus(c) = {}
    BY <1>3, <2>1 DEF TerminalQty
  <2>2. CASE WithStatus(c) # {}
    <3> DEFINE i == Max(WithStatus(c))
    <3>1. TerminalQty(c) = life[c][i].filled /\ i \in DOMAIN life[c]
      BY <1>5, <2>2 DEF TerminalQty, Terminal
    <3> HIDE DEF i
    <3>2. life[c][i].filled \in Nat /\ life[c][i].filled <= o.fills
      BY <1>3, <1>4, <3>1 DEF LineTrue, OrderLine
    <3>3. QED BY <1>3, <3>1, <3>2
  <2>3. QED BY <2>1, <2>2
<1>7. FilledWithin(c, FillWindows[2]) => \E i \in DOMAIN life[c] : life[c][i].filled > 0
  BY DEF FilledWithin
<1>8. ClassifyExecutionSource(c) = "live_real"
        => \A i \in DOMAIN life[c] : life[c][i].id \notin {"paper", "sim"}
  BY DEF ClassifyExecutionSource, IsPaper
<1>9. /\ DOMAIN r = Fields /\ r.client_order_id = c
      /\ r.execution_source_class = ClassifyExecutionSource(c)
      /\ r.label_filled_within_5m = FilledWithin(c, FillWindows[2])
      /\ r.label_terminal_filled_qty = TerminalQty(c)
  BY DEF ExecutionRow, Fields
<1> HIDE DEF r
<1>10. ClassifyExecutionSource(c) = "live_real" /\ (\E i \in DOMAIN life[c] : life[c][i].filled > 0)
         => o.venue = "real"
  BY <1>3, <1>8 DEF LineTrue, Order
<1>11. FillsTrue(r, orders)
  BY <1>1, <1>3, <1>6, <1>7, <1>9, <1>10 DEF FillsTrue, o
<1>12. QED BY <1>11 DEF RowTrue, r

(***************************************************************************)
(* The files under the steps of the pipeline.                              *)
(***************************************************************************)
LEMMA FilesMove ==
  ASSUME OrderInv, AnswersFinal, OrdersGrow,
         build' # None =>
           /\ build' \in BuildShape' /\ build'.left \in Seq(FileNames)
           /\ \A f \in FileNames : FileSound(f, build'.rows[f]),
         \A f \in FileNames : data'[f] # None =>
           data'[f].broken \in BOOLEAN /\ FileSound(f, data'[f].rows),
         DOMAIN data' = FileNames
  PROVE  FilesInv'
<1>1. ASSUME NEW f, NEW rows, FileSound(f, rows) PROVE SoundIn(f, rows, answer', orders')
  BY <1>1, RowsStay DEF FileSound
<1>2. build' # None => \A f \in FileNames : SoundIn(f, build'.rows[f], answer', orders')
  BY <1>1
<1>3. \A f \in FileNames : data'[f] # None => SoundIn(f, data'[f].rows, answer', orders')
  BY <1>1
<1>4. QED BY <1>2, <1>3 DEF FilesInv, FileSound

LEMMA BuildSound ==
  ASSUME OrderInv, LabelsInv, FilesInv, ScenarioInv, AnswersFinal, OrdersGrow,
         NEW p \in Procs, StartBuild(p)
  PROVE  FilesInv'
<1>1. PICK markouts \in [Recorded -> UNION {MarkoutBps(c) : c \in Recorded}] :
        \E forecast \in AssignSplits(ForecastRows),
           execution \in AssignSplits({ExecutionRow(c, markouts[c]) : c \in Recorded}) :
          build' = [by |-> p, left |-> Files,
                    rows |-> [forecast |-> forecast, execution |-> execution,
                              live_real |-> LiveReal(execution)]]
  BY DEF StartBuild
<1>2. PICK forecast \in AssignSplits(ForecastRows),
           execution \in AssignSplits({ExecutionRow(c, markouts[c]) : c \in Recorded}) :
        build' = [by |-> p, left |-> Files,
                  rows |-> [forecast |-> forecast, execution |-> execution,
                            live_real |-> LiveReal(execution)]]
  BY <1>1
<1>3. FileSound("forecast", forecast)
  BY ForecastTrue, SplitsSound
<1> DEFINE row == [c \in Recorded |-> ExecutionRow(c, markouts[c])]
           R == {ExecutionRow(c, markouts[c]) : c \in Recorded}
<1>4. IsFiniteSet(R) /\ \A r \in R : RowTrue("execution", r, answer, orders)
  <2>1. R = {row[c] : c \in Recorded} /\ DOMAIN row = Recorded
    OBVIOUS
  <2>2. IsFiniteSet(Recorded)
    <3>1. Recorded \in SUBSET Cids /\ IsFiniteSet(Cids)
      BY OrderAssumption DEF Recorded
    <3>2. QED BY <3>1, FS_Subset
  <2>3. \A r \in R : RowTrue("execution", r, answer, orders)
    BY ExecutionTrue
  <2> HIDE DEF R, row
  <2>4. QED BY <2>1, <2>2, <2>3, ImageFinite
<1> HIDE DEF R
<1>5. FileSound("execution", execution)
  BY <1>4, SplitsSound DEF R
<1>6. FileSound("live_real", LiveReal(execution))
  BY <1>5, LiveRealSound
<1>7. /\ build' \in BuildShape' /\ build'.left = Files
      /\ build'.rows["forecast"] = forecast /\ build'.rows["execution"] = execution
      /\ build'.rows["live_real"] = LiveReal(execution)
  BY <1>2 DEF BuildShape
<1>8. \A f \in FileNames : FileSound(f, build'.rows[f])
  BY <1>3, <1>5, <1>6, <1>7, FileNamesAre
<1>9. Files \in Seq(FileNames)
  BY FileNamesAre DEF Files
<1>10. data' = data
  BY DEF StartBuild
<1>11. QED BY <1>7, <1>8, <1>9, <1>10, FilesMove DEF FilesInv

LEMMA FilesKept ==
  ASSUME OrderInv, LabelsInv, FilesInv, ScenarioInv, AnswersFinal, OrdersGrow, Next
  PROVE  FilesInv'
<1>1. ASSUME NEW p \in Procs, StartBuild(p) PROVE FilesInv'
  BY <1>1, BuildSound
<1>2. ASSUME NEW p \in Procs, Building(p)
      PROVE  /\ build \in BuildShape /\ build.left \in Seq(FileNames)
             /\ Head(build.left) \in FileNames /\ Tail(build.left) \in Seq(FileNames)
             /\ FileSound(Head(build.left), build.rows[Head(build.left)])
  <2>1. build.left \in Seq(FileNames) /\ build.left # <<>> /\ build # None
    BY <1>2 DEF Building, FilesInv
  <2>2. Head(build.left) \in FileNames /\ Tail(build.left) \in Seq(FileNames)
    BY <2>1, HeadTailProperties
  <2>3. QED BY <2>1, <2>2 DEF FilesInv
<1>3. ASSUME NEW f \in FileNames, NEW rows, FileSound(f, rows), NEW broken \in BOOLEAN,
             data' = [data EXCEPT ![f] = [rows |-> rows, broken |-> broken]],
             build' # None =>
               /\ build' \in BuildShape' /\ build'.left \in Seq(FileNames)
               /\ \A g \in FileNames : FileSound(g, build'.rows[g])
      PROVE  FilesInv'
  <2>1. DOMAIN data' = FileNames /\ data'[f] = [rows |-> rows, broken |-> broken]
    BY <1>3 DEF FilesInv
  <2>2. \A g \in FileNames : g # f => data'[g] = data[g]
    BY <1>3 DEF FilesInv
  <2>3. \A g \in FileNames : data'[g] # None =>
          data'[g].broken \in BOOLEAN /\ FileSound(g, data'[g].rows)
    BY <1>3, <2>1, <2>2 DEF FilesInv
  <2>4. QED BY <1>3, <2>1, <2>3, FilesMove
<1>4. ASSUME NEW p \in Procs, WritePart(p) PROVE FilesInv'
  <2> DEFINE f == Head(build.left)
  <2>1. PICK n \in 0 .. Len(build.rows[f]) - 1, broken \in BOOLEAN :
          data' = [data EXCEPT ![f] = [rows |-> SubSeq(build.rows[f], 1, n), broken |-> broken]]
    BY <1>4 DEF WritePart
  <2>2. f \in FileNames /\ FileSound(f, build.rows[f])
    BY <1>2, <1>4 DEF WritePart
  <2> HIDE DEF f
  <2>3. FileSound(f, SubSeq(build.rows[f], 1, n))
    BY <2>2, HeadOfFile
  <2>4. build' = build
    BY <1>4 DEF WritePart
  <2>5. QED BY <1>3, <2>1, <2>2, <2>3, <2>4 DEF FilesInv, BuildShape
<1>5. ASSUME NEW p \in Procs, WriteJsonlDataset(p) PROVE FilesInv'
  <2> DEFINE f == Head(build.left)
  <2>1. f \in FileNames /\ FileSound(f, build.rows[f]) /\ Tail(build.left) \in Seq(FileNames)
        /\ build \in BuildShape /\ build # None
    BY <1>2, <1>5 DEF WriteJsonlDataset, Building
  <2>2. data' = [data EXCEPT ![f] = [rows |-> build.rows[f], broken |-> FALSE]]
    BY <1>5 DEF WriteJsonlDataset
  <2>3. build' = [build EXCEPT !.left = Tail(build.left)]
    BY <1>5 DEF WriteJsonlDataset
  <2>4. build'.left = Tail(build.left) /\ build'.rows = build.rows /\ build'.by = build.by
        /\ build' \in BuildShape'
    BY <2>1, <2>3 DEF BuildShape
  <2>5. \A g \in FileNames : FileSound(g, build'.rows[g])
    BY <2>1, <2>4 DEF FilesInv
  <2> HIDE DEF f
  <2>6. QED BY <1>3, <2>1, <2>2, <2>4, <2>5
<1>6. ASSUME build' \in {None, build}, data' = data PROVE FilesInv'
  BY <1>6, FilesMove DEF FilesInv, BuildShape
<1>7. \/ \E p \in Procs : StartBuild(p) \/ WritePart(p) \/ WriteJsonlDataset(p)
      \/ build' \in {None, build} /\ data' = data
  BY DEF Next, World, Fetch, RecordMarket, BeginTasks, BeginRebuild, EndBackfill, EndBuild,
         StartTraining, WriteArtifact, EndTraining, StartBot, OrderCall, OrderWorld, BotDies,
         RebuildDies, fileVars
<1>8. QED BY <1>1, <1>4, <1>5, <1>6, <1>7

(***************************************************************************)
(* The models.                                                             *)
(***************************************************************************)

\* What a forecast trains on is resolved and has an outcome, hence the true one.
LEMMA TrainingTrue ==
  ASSUME FilesInv, data["forecast"] # None
  PROVE  LearnsTrue(TrainSplit(TrainingRows("forecast")))
<1> DEFINE rows == data["forecast"].rows
           P == {i \in DOMAIN rows : Trainable("forecast", rows[i])}
           T == TrainingRows("forecast")
           Q == {i \in DOMAIN T : T[i].split = "train"}
           S == {rows[i] : i \in DOMAIN rows}
<1>1. FileSound("forecast", rows)
  BY FileNamesAre DEF FilesInv
<1>2. rows \in Seq(S) /\ P \in SUBSET (DOMAIN rows)
  BY <1>1 DEF FileSound, SoundIn
<1>3. T = At(rows, P)
  BY DEF TrainingRows, LoadedRows
<1> HIDE DEF P, S, rows, T
<1>4. T \in Seq(S) /\ \A k \in 1 .. Len(T) : \E i \in P : T[k] = rows[i]
  BY <1>2, <1>3, AtProperties
<1>5. DOMAIN T = 1 .. Len(T)
  BY <1>4, OwnRange
<1>6. Q \in SUBSET (DOMAIN T) /\ TrainSplit(T) = At(T, Q)
  BY DEF TrainSplit
<1> HIDE DEF Q
<1>7. /\ TrainSplit(T) \in Seq(S)
      /\ \A k \in 1 .. Len(TrainSplit(T)) : \E i \in Q : TrainSplit(T)[k] = T[i]
  BY <1>4, <1>6, AtProperties
<1>8. DOMAIN TrainSplit(T) = 1 .. Len(TrainSplit(T))
  BY <1>7, OwnRange
<1>9. \A k \in DOMAIN TrainSplit(T) : \E i \in P : TrainSplit(T)[k] = rows[i]
  BY <1>4, <1>5, <1>6, <1>7, <1>8
<1>10. ASSUME NEW i \in P
       PROVE  LET r == rows[i].row
              IN /\ r.ticker \in Tickers /\ r.label_outcome_yes \in {"yes", "no"}
                 /\ answer[r.ticker] = [status |-> "settled", result |-> r.label_outcome_yes]
  <2>1. i \in DOMAIN rows /\ Trainable("forecast", rows[i])
    BY DEF P
  <2>2. RowTrue("forecast", rows[i].row, answer, orders)
    BY <1>1, <2>1 DEF FileSound, SoundIn
  <2>3. QED BY <2>1, <2>2 DEF Trainable, RowTrue, TrueIn
<1>11. QED BY <1>9, <1>10 DEF LearnsTrue, LearnsIn, T

LEMMA LearnStays ==
  ASSUME NEW rows, AnswersFinal, LearnsTrue(rows) PROVE LearnsIn(rows, answer')
BY DEF LearnsTrue, LearnsIn, AnswersFinal

\* The writes of a training come in their order.
LEMMA StepsTail ==
  ASSUME NEW s \in Steps, s # <<>>
  PROVE  /\ Tail(s) \in Steps /\ Tail(s) # ArtifactSteps
         /\ Head(s) \in {"version", "truncate", "latest", "manifest"}
         /\ s # ArtifactSteps <=> Head(s) # "version"
<1>1. CASE s = ArtifactSteps
  BY <1>1 DEF Steps, ArtifactSteps
<1>2. CASE s = <<"truncate", "latest", "manifest">>
  BY <1>2 DEF Steps, ArtifactSteps
<1>3. CASE s = <<"latest", "manifest">>
  BY <1>3 DEF Steps, ArtifactSteps
<1>4. CASE s = <<"manifest">>
  BY <1>4 DEF Steps, ArtifactSteps
<1>5. QED BY <1>1, <1>2, <1>3, <1>4 DEF Steps

LEMMA ModelsKept ==
  ASSUME FilesInv, ModelsInv, bounds \in Scenarios, AnswersFinal, Next PROVE ModelsInv'
<1> USE SameBounds
<1>1. /\ trained \in Nat /\ bounds.trains \in Nat /\ trained <= bounds.trains
      /\ archive \cup manifest \subseteq 1 .. trained
      /\ DOMAIN latest = Kinds /\ bot \in BotShape
  BY BoundsType DEF ModelsInv
<1>2. ASSUME NEW kind \in Kinds, StartTraining(kind), trained < bounds.trains,
             train' = [kind |-> kind, artifact |-> Artifact(kind), left |-> ArtifactSteps],
             trained' = trained + 1, Enough(kind)
      PROVE  ModelsInv'
  <2>1. trained' \in Nat /\ trained' <= bounds.trains /\ 1 .. trained \subseteq 1 .. trained'
        /\ trained + 1 \in 1 .. trained'
    BY <1>1, <1>2
  <2>2. UNCHANGED <<archive, manifest, latest, bot>>
    BY <1>2 DEF StartTraining
  <2>3. /\ train' \in TrainShape' /\ train'.left = ArtifactSteps /\ train'.kind = kind
        /\ train'.artifact = Artifact(kind) /\ train'.artifact.version = trained + 1
        /\ train'.artifact.rows = TrainSplit(TrainingRows(kind))
    BY <1>2 DEF TrainShape, Steps, Artifact
  <2>4. kind = "forecast" => LearnsIn(train'.artifact.rows, answer')
    <3>1. SUFFICES ASSUME kind = "forecast"
                   PROVE  LearnsIn(TrainSplit(TrainingRows("forecast")), answer')
      BY <2>3
    <3>2. CASE data["forecast"] # None
      BY <3>2, TrainingTrue, LearnStays
    <3>3. CASE data["forecast"] = None
      <4>1. LoadedRows("forecast") = <<>>
        BY <3>3 DEF LoadedRows
      <4>2. TrainSplit(TrainingRows("forecast")) # <<>>
        BY <1>2, <3>1 DEF Enough
      <4>3. TrainSplit(<<>>) = At(<<>>, {})
        BY DEF TrainSplit
      <4>4. At(<<>>, {}) = <<>>
        BY FS_EmptySet DEF At
      <4>5. TrainingRows("forecast") = At(<<>>, {})
        <5> DEFINE P == {i \in DOMAIN LoadedRows("forecast") : Trainable("forecast", LoadedRows("forecast")[i])}
        <5>1. TrainingRows("forecast") = At(LoadedRows("forecast"), P)
          BY DEF TrainingRows
        <5>2. DOMAIN LoadedRows("forecast") = {}
          BY <4>1
        <5>3. P = {}
          BY <5>2
        <5> HIDE DEF P
        <5>4. QED BY <4>1, <5>1, <5>3
      <4>6. QED BY <4>2, <4>3, <4>4, <4>5
    <3>4. QED BY <3>2, <3>3
  <2>5. /\ latest'["forecast"] # None => LearnsIn(latest'["forecast"].rows, answer')
        /\ bot'.forecast # None => LearnsIn(bot'.forecast.rows, answer')
    BY <2>2, LearnStays DEF ModelsInv
  <2>6. QED BY <1>1, <2>1, <2>2, <2>3, <2>4, <2>5 DEF ModelsInv, BotShape, LearnsTrue
<1>3. CASE WriteArtifact
  <2> DEFINE a == train.artifact
  <2>1. /\ train \in TrainShape /\ train.left \in Steps /\ train.left # <<>>
        /\ a.version \in 1 .. trained
        /\ train.left # ArtifactSteps => a.version \in archive
        /\ train.kind = "forecast" => LearnsTrue(a.rows)
        /\ train # None /\ train.kind \in Kinds
    BY <1>3 DEF WriteArtifact, ModelsInv, TrainShape
  <2>2. /\ Tail(train.left) \in Steps /\ Tail(train.left) # ArtifactSteps
        /\ Head(train.left) \in {"version", "truncate", "latest", "manifest"}
        /\ train.left # ArtifactSteps <=> Head(train.left) # "version"
    BY <2>1, StepsTail
  <2>3. UNCHANGED <<trained, bot>> /\ train' = [train EXCEPT !.left = Tail(train.left)]
    BY <1>3 DEF WriteArtifact
  <2>4. train' \in TrainShape' /\ train'.left = Tail(train.left) /\ train'.kind = train.kind
        /\ train'.artifact = a
    BY <2>1, <2>2, <2>3 DEF TrainShape
  <2>5. /\ archive \subseteq archive' /\ archive' \cup manifest' \subseteq 1 .. trained
        /\ a.version \in archive'
    BY <1>1, <1>3, <2>1, <2>2 DEF WriteArtifact
  <2>6. latest' = latest \/ (a.version \in archive /\ \E m \in {a, None} :
                              latest' = [latest EXCEPT ![train.kind] = m])
    BY <1>3, <2>1, <2>2 DEF WriteArtifact
  <2> HIDE DEF a
  <2>7. DOMAIN latest' = Kinds
        /\ \A k \in Kinds : latest'[k] = latest[k]
                              \/ (k = train.kind /\ latest'[k] \in {a, None})
    BY <1>1, <2>1, <2>6
  <2>8. \A k \in Kinds : /\ latest'[k] # None => latest'[k].version \in archive'
                         /\ bot'[k] # None => bot'[k].version \in archive'
    BY <2>3, <2>5, <2>7 DEF ModelsInv
  <2>9. (train'.kind = "forecast" => LearnsIn(train'.artifact.rows, answer'))
        /\ (latest'["forecast"] # None => LearnsIn(latest'["forecast"].rows, answer'))
        /\ (bot'.forecast # None => LearnsIn(bot'.forecast.rows, answer'))
    BY <2>1, <2>3, <2>4, <2>7, LearnStays DEF ModelsInv, Kinds
  <2>10. train'.artifact.version \in 1 .. trained /\ train'.artifact.version \in archive'
    BY <2>1, <2>4, <2>5
  <2>11. QED BY <1>1, <2>2, <2>3, <2>4, <2>5, <2>7, <2>8, <2>9, <2>10
            DEF ModelsInv, BotShape, LearnsTrue
<1>4. ASSUME NEW s \in Settings, NEW policy \in {"shadow", "active"}, StartBot(s, policy)
      PROVE  ModelsInv'
  <2>1. UNCHANGED <<train, trained, archive, manifest, latest>>
    BY <1>4 DEF StartBot, fileVars
  <2>2. /\ bot' \in BotShape'
        /\ \A k \in Kinds : bot'[k] \in {bot[k], latest[k], None}
        /\ bot'.forecast \in {bot.forecast, latest["forecast"], None}
    <3>1. CASE Admitted(s, policy)
      <4>1. bot' = [capture |-> s.capture, policy |-> policy,
                    forecast |-> IF s.capture THEN None ELSE latest["forecast"],
                    execution |-> IF s.capture THEN None ELSE latest["execution"]]
        BY <1>4, <3>1 DEF StartBot, LoadRuntimeModel
      <4>2. bot' \in BotShape' /\ \A k \in Kinds : bot'[k] \in {bot[k], latest[k], None}
        BY <4>1 DEF BotShape, Kinds
      <4>3. QED BY <4>1, <4>2
    <3>2. CASE ~Admitted(s, policy)
      <4>1. bot' = [bot EXCEPT !.policy = "refused"]
        BY <1>4, <3>2 DEF StartBot
      <4>2. QED BY <1>1, <4>1 DEF BotShape, Kinds
    <3>3. QED BY <3>1, <3>2
  <2>3. \A k \in Kinds : bot'[k] # None => bot'[k].version \in archive
    BY <2>2 DEF ModelsInv
  <2>4. bot'.forecast # None => LearnsIn(bot'.forecast.rows, answer')
    BY <2>2, LearnStays DEF ModelsInv
  <2>5. /\ latest["forecast"] # None => LearnsIn(latest["forecast"].rows, answer')
        /\ train # None /\ train.kind = "forecast" => LearnsIn(train.artifact.rows, answer')
    BY LearnStays DEF ModelsInv
  <2>6. QED BY <1>1, <2>1, <2>2, <2>3, <2>4, <2>5 DEF ModelsInv, TrainShape, LearnsTrue
<1>5. ASSUME train' \in {None, train}, UNCHANGED <<trained, archive, manifest, latest, bot>>
      PROVE  ModelsInv'
  <2>1. /\ latest["forecast"] # None => LearnsIn(latest["forecast"].rows, answer')
        /\ train # None /\ train.kind = "forecast" => LearnsIn(train.artifact.rows, answer')
        /\ bot.forecast # None => LearnsIn(bot.forecast.rows, answer')
    BY LearnStays DEF ModelsInv
  <2>2. QED BY <1>5, <2>1 DEF ModelsInv, TrainShape, BotShape, LearnsTrue
<1>6. ASSUME NEW kind \in Kinds, StartTraining(kind) PROVE ModelsInv'
  <2>1. CASE Enough(kind) /\ trained < bounds.trains
    BY <1>2, <1>6, <2>1 DEF StartTraining
  <2>2. CASE ~(Enough(kind) /\ trained < bounds.trains)
    BY <1>5, <1>6, <2>2 DEF StartTraining
  <2>3. QED BY <2>1, <2>2
<1>7. \/ \E kind \in Kinds : StartTraining(kind)
      \/ WriteArtifact
      \/ \E s \in Settings, policy \in {"shadow", "active"} : StartBot(s, policy)
      \/ train' \in {None, train} /\ UNCHANGED <<trained, archive, manifest, latest, bot>>
  BY DEF Next, World, Fetch, RecordMarket, BeginTasks, BeginRebuild, EndBackfill, StartBuild,
         WritePart, WriteJsonlDataset, EndBuild, EndTraining, OrderCall, OrderWorld, BotDies,
         RebuildDies, fileVars
<1>8. QED BY <1>3, <1>4, <1>5, <1>6, <1>7

(***************************************************************************)
(* The whole.                                                              *)
(***************************************************************************)
LEMMA ScenarioKept == ASSUME ScenarioInv, Next PROVE ScenarioInv'
<1> USE SameBounds
<1>1. lines' = lines \/ \E t \in bounds.markets, mid \in Mids :
        /\ Cardinality(lines) < bounds.lines
        /\ lines' = lines \cup {[ticker |-> t, ts |-> clock, mid |-> mid]}
  BY DEF Next, World, Fetch, RecordMarket, BeginTasks, BeginRebuild, EndBackfill, StartBuild,
         WritePart, WriteJsonlDataset, EndBuild, StartTraining, WriteArtifact, EndTraining,
         StartBot, OrderCall, OrderWorld, BotDies, RebuildDies, fileVars
<1>2. /\ IsFiniteSet(lines') /\ Cardinality(lines') <= bounds.lines
      /\ \A l \in lines' : l.ticker \in Tickers
  <2>1. CASE lines' = lines
    BY <2>1 DEF ScenarioInv
  <2>2. ASSUME NEW t \in bounds.markets, NEW l, l.ticker = t, Cardinality(lines) < bounds.lines,
               lines' = lines \cup {l}
        PROVE  /\ IsFiniteSet(lines') /\ Cardinality(lines') <= bounds.lines
               /\ \A k \in lines' : k.ticker \in Tickers
    <3>1. Cardinality(lines) \in Nat /\ bounds.lines \in Nat /\ t \in Tickers
      BY FS_CardinalityType, BoundsType DEF ScenarioInv
    <3>2. IsFiniteSet(lines') /\ Cardinality(lines') \in {Cardinality(lines), Cardinality(lines) + 1}
      BY <2>2, FS_AddElement DEF ScenarioInv
    <3>3. QED BY <2>2, <3>1, <3>2 DEF ScenarioInv
  <2>3. QED BY <1>1, <2>1, <2>2
<1>3. task' = task \/ \E p \in Procs, job \in {"idle", "backfill", "build", "forecast", "execution"} :
        task' = [task EXCEPT ![p] = job]
  BY ProcsType
     DEF Next, World, Fetch, RecordMarket, BeginTasks, BeginRebuild, EndBackfill, StartBuild,
         WritePart, WriteJsonlDataset, EndBuild, StartTraining, WriteArtifact, EndTraining,
         StartBot, OrderCall, OrderWorld, BotDies, RebuildDies, AfterTraining
<1>4. task' \in [Procs -> {"idle", "backfill", "build", "forecast", "execution"}]
  BY <1>3 DEF ScenarioInv
<1>5. QED BY <1>2, <1>4 DEF ScenarioInv

LEMMA PipelineStart == ASSUME Init PROVE PipelineInv
<1>1. bounds \in Scenarios /\ bounds.job \in {"backfill", "forecast", "execution", "idle"}
  BY PipelineAssumption DEF Init, Bounds
<1>2. BackfillInv
  BY <1>1, BoundsType, InitInv DEF Init
<1>3. OrderInv
  BY <1>1, BoundsType, OrderInitInv DEF Init
<1>4. LabelsInv
  BY DEF Init, BackfillInit, LabelsInv, Trading
<1>5. FilesInv
  BY DEF Init, FilesInv
<1>6. ModelsInv
  <2>1. bot \in BotShape /\ bot.forecast = None /\ bot.execution = None
        /\ bot["forecast"] = None /\ bot["execution"] = None /\ bot.policy = "shadow"
    BY DEF Init, BotShape
  <2>2. trained \in Nat /\ trained <= bounds.trains /\ archive \cup manifest \subseteq 1 .. trained
    BY <1>1, BoundsType DEF Init
  <2>3. QED BY <2>1, <2>2 DEF Init, ModelsInv, Kinds
<1>7. ScenarioInv
  <2>1. IsFiniteSet(lines) /\ Cardinality(lines) = 0
    BY FS_EmptySet DEF Init
  <2>2. QED BY <1>1, <2>1, BoundsType DEF Init, ScenarioInv
<1>8. QED BY <1>2, <1>3, <1>4, <1>5, <1>6, <1>7 DEF PipelineInv

LEMMA PipelineStep == ASSUME PipelineInv, [Next]_vars PROVE PipelineInv'
<1>1. CASE Next
  <2>1. BackfillInv /\ OrderInv /\ LabelsInv /\ FilesInv /\ ModelsInv /\ ScenarioInv /\ bounds \in Scenarios
    BY DEF PipelineInv, ScenarioInv
  <2>2. OrderInv' /\ OrdersGrow
    BY <1>1, <2>1, OrdersKept DEF OrderStep
  <2>3. BackfillInv' /\ LabelsInv' /\ AnswersFinal
    BY <1>1, <2>1, OutcomesKept DEF BackfillStep
  <2>4. QED BY <1>1, <2>1, <2>2, <2>3, FilesKept, ModelsKept, ScenarioKept DEF PipelineInv
<1>2. CASE UNCHANGED vars
  <2>1. UNCHANGED <<answer, scanned, filled, outcomes, backfill, overlapped, deaths>>
        /\ UNCHANGED <<clock, settings, orders, life, lost>>
        /\ UNCHANGED <<lines, data, build, train, trained, archive, manifest, latest>>
        /\ UNCHANGED <<bounds, task, bot>>
    BY <1>2 DEF vars, backfillVars, orderVars, fileVars
  <2>2. BackfillInv'
    BY <2>1, NextInv DEF PipelineInv, backfillVars
  <2>3. OrderInv'
    BY <2>1, QuietKeeps DEF PipelineInv, OrderInv, OrderStep
  <2>4. LabelsInv'
    BY <2>1 DEF PipelineInv, LabelsInv, TrueLabel
  <2>5. FilesInv'
    BY <2>1 DEF PipelineInv, FilesInv, FileSound, BuildShape
  <2>6. ModelsInv'
    BY <2>1 DEF PipelineInv, ModelsInv, TrainShape, BotShape, LearnsTrue
  <2>7. ScenarioInv'
    BY <2>1 DEF PipelineInv, ScenarioInv
  <2>8. QED BY <2>2, <2>3, <2>4, <2>5, <2>6, <2>7 DEF PipelineInv
<1>3. QED BY <1>1, <1>2

\* What the invariant says of what the runs check.
LEMMA InvPipelineTypes == ASSUME PipelineInv PROVE TypeOK
<1>1. BackfillTypeOK
  BY InvTypes DEF PipelineInv
<1>2. OrderTypeOK
  <2>1. OrderInv
    BY DEF PipelineInv
  <2>2. Cardinality(InFlight) <= 1
    <3>1. CASE InFlight = {}
      BY <3>1, FS_EmptySet
    <3>2. ASSUME NEW c \in InFlight PROVE Cardinality(InFlight) <= 1
      <4>1. InFlight = {c}
        BY <2>1 DEF OrderInv
      <4>2. QED BY <4>1, FS_Singleton
    <3>3. QED BY <3>1, <3>2
  <2>3. \A c \in Cids : orders[c] # None /\ orders[c].at = "over" =>
          orders[c].report.filled <= orders[c].fills
    BY <2>1 DEF OrderInv, OrderSound
  <2>4. QED BY <2>1, <2>2, <2>3 DEF OrderInv, OrderTypeOK
<1>3. train # None => train.kind \in Kinds /\ Len(train.left) <= Len(ArtifactSteps)
  <2>1. /\ Len(ArtifactSteps) = 4 /\ Len(<<"truncate", "latest", "manifest">>) = 3
        /\ Len(<<"latest", "manifest">>) = 2 /\ Len(<<"manifest">>) = 1 /\ Len(<<>>) = 0
    BY DEF ArtifactSteps
  <2>2. ASSUME NEW s \in Steps PROVE Len(s) <= Len(ArtifactSteps)
    <3> DEFINE n == Len(s)
               m == Len(ArtifactSteps)
    <3>1. n \in {0, 1, 2, 3, 4}
      BY <2>1 DEF Steps
    <3>2. m = 4
      BY <2>1
    <3> HIDE DEF n, m
    <3>3. n <= m
      BY <3>1, <3>2
    <3>4. QED BY <3>3 DEF n, m
  <2>3. QED BY <2>2 DEF PipelineInv, ModelsInv, TrainShape
<1>4. trained \in 0 .. bounds.trains
  BY BoundsType DEF PipelineInv, ModelsInv, ScenarioInv
<1>5. bot.policy \in {"shadow", "active", "refused"}
  BY DEF PipelineInv, ModelsInv, BotShape
<1>6. build = None \/ build.by \in Procs
  BY DEF PipelineInv, FilesInv, BuildShape
<1>7. QED
  BY <1>1, <1>2, <1>3, <1>4, <1>5, <1>6 DEF PipelineInv, ScenarioInv, ModelsInv, FilesInv, TypeOK

LEMMA InvRows ==
  ASSUME PipelineInv
  PROVE  \A r \in ExecutionRows : FillsTrue(r, orders)
<1>1. SUFFICES ASSUME NEW f \in {"execution", "live_real"}, data[f] # None,
                      NEW i \in DOMAIN data[f].rows
               PROVE  FillsTrue(data[f].rows[i].row, orders)
  BY DEF ExecutionRows
<1>2. FileSound(f, data[f].rows)
  BY <1>1, FileNamesAre DEF PipelineInv, FilesInv
<1>3. QED BY <1>2 DEF FileSound, SoundIn, RowTrue

(***************************************************************************)
(* The theorems.                                                           *)
(***************************************************************************)
LEMMA Invariant == Spec => []PipelineInv
<1>1. Init => PipelineInv
  BY PipelineStart
<1>2. PipelineInv /\ [Next]_vars => PipelineInv'
  BY PipelineStep
<1>3. QED BY <1>1, <1>2, PTL DEF Spec

\* Backfills, orders, files and models keep their types, and one order at most is
\* on its way, for any numbers of tickers, orders, quotes and trainings.
THEOREM PipelineTypeCorrect == Spec => []TypeOK
<1>1. PipelineInv => TypeOK
  BY InvPipelineTypes
<1>2. QED BY <1>1, Invariant, PTL

\* Inside the pipeline too a ticker whose last record has no outcome is fetched
\* again, whatever the bot and the rebuild do between the steps of a backfill.
THEOREM PipelineRefetchesNull == Spec => []NullIsRefetched
<1>1. PipelineInv => NullIsRefetched
  BY DEF PipelineInv, BackfillInv
<1>2. QED BY <1>1, Invariant, PTL

\* Every label that a forecast model, stored or running, has learned from is the
\* outcome with which the exchange settled the market, for good: an answer that
\* was recorded before the market closed, and the value of a canceled market,
\* reach no training.
THEOREM LabelsAreOutcomes == Spec => []LearnsTrueOutcomes
<1>1. PipelineInv => LearnsTrueOutcomes
  BY DEF PipelineInv, ModelsInv, LearnsTrue, LearnsIn, LearnsTrueOutcomes
<1>2. QED BY <1>1, Invariant, PTL

\* In every file, whole or cut off by a running or killed build, no row that
\* validates or tests is older than one that trains.
THEOREM SplitsInOrder == Spec => []SplitsFollowTime
<1>1. PipelineInv => SplitsFollowTime
  <2>1. SUFFICES ASSUME PipelineInv, NEW f \in FileNames, data[f] # None
                 PROVE  SplitByTime(data[f].rows)
    BY DEF SplitsFollowTime, SplitByTime
  <2>2. QED BY <2>1 DEF PipelineInv, FilesInv, FileSound, SoundIn
<1>2. QED BY <1>1, Invariant, PTL

\* A row that counts as live and shows a fill is of an order that went to the
\* exchange, however the bot was started, whichever lines were lost and wherever
\* it was killed.
THEOREM LiveRowsAreReal == Spec => []LiveRealFillsReal
<1>1. PipelineInv => LiveRealFillsReal
  BY InvRows DEF FillsTrue, LiveRealFillsReal
<1>2. QED BY <1>1, Invariant, PTL

\* No row gives more as filled than was filled of its order, though every report
\* repeats the total.
THEOREM FillsAreTotals == Spec => []FillsNotOverstated
<1>1. PipelineInv => FillsNotOverstated
  <2>1. SUFFICES ASSUME PipelineInv, NEW r \in ExecutionRows
                 PROVE  r.label_terminal_filled_qty <= orders[r.client_order_id].fills
    BY DEF FillsNotOverstated
  <2>2. /\ r.label_terminal_filled_qty \in 0 .. orders[r.client_order_id].fills
        /\ orders[r.client_order_id] \in Order
    BY <2>1, InvRows DEF FillsTrue
  <2>3. QED BY <2>2 DEF Order
<1>2. QED BY <1>1, Invariant, PTL

\* A model the bot runs with has its own file in the archive, wherever a training
\* was killed.
THEOREM ModelsAreArchived == Spec => []RunsArchivedModels
<1>1. PipelineInv => RunsArchivedModels
  BY DEF PipelineInv, ModelsInv, RunsArchivedModels
<1>2. QED BY <1>1, Invariant, PTL
=============================================================================
