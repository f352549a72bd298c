------------------------ MODULE ExecutionLedgerProofs ------------------------
(***************************************************************************)
(* What the journal, the exchange and the state file of the engine say of  *)
(* each other, for every value of the constants.                           *)
(***************************************************************************)
EXTENDS ExecutionLedger, ExecutionEngineProofs, ListsProofs, FiniteSetTheorems

Reported(c) == \E i \in ReportsOf(journal) : journal[i].cid = c

(***************************************************************************)
(* The history of the orders.  A cid is intended once; only intended cids  *)
(* are placed or reported; the order being worked on is intended and not   *)
(* reported yet; the order id of a call is the order it placed, and its    *)
(* last report carries the client order id the exchange echoes; whatever   *)
(* is tracked, in memory, in the file or while starting, was found open.   *)
(***************************************************************************)
PlacedIntended  == \A o \in DOMAIN exch : exch[o].cid \in Intended
ReportsIntended == \A i \in ReportsOf(journal) : journal[i].cid \in Intended

IntentsUnique ==
  \A i, k \in IntentsOf(journal) : journal[i].cid = journal[k].cid => i = k

CallUnderWay ==
  /\ pc \in InOrder => call.cid \in Intended
  /\ pc \in InOrder \ {"reported"} => ~Reported(call.cid)

CallOrder ==
  /\ pc \in {"placed", "poll", "cancel", "recheck"} => exch[oid].cid = call.cid
  /\ pc = "settle" /\ Mode = "Live" => oid \in DOMAIN exch /\ exch[oid].cid = call.cid

ReportEchoed ==
  pc \in {"cancel", "recheck"} \/ (pc = "settle" /\ Mode = "Live") => rep.cid = EchoedCid(oid)

PaperNeverPlaces == Mode = "Paper" => exch = <<>>

FoundOpen(x) ==
  /\ x.cid = EchoedCid(x.oid)
  /\ \E i \in ReportsOf(journal) :
       journal[i].cid = exch[x.oid].cid /\ journal[i].status \in OpenStatus

TrackedFoundOpen ==
  \A x \in disk.open \cup mem.open \cup todo \cup kept : FoundOpen(x)

HistoryInv ==
  /\ TypeOK
  /\ PlacedIntended /\ ReportsIntended /\ IntentsUnique
  /\ CallUnderWay /\ CallOrder /\ ReportEchoed /\ PaperNeverPlaces /\ TrackedFoundOpen

\* What a step that adds no intent and no report leaves of the journal, and
\* what a step that places no order leaves of the exchange.
JournalKept ==
  /\ IntentsOf(journal') = IntentsOf(journal)
  /\ ReportsOf(journal') = ReportsOf(journal)
  /\ \A i \in IntentsOf(journal) \cup ReportsOf(journal) : journal'[i] = journal[i]

OrdersKept ==
  /\ DOMAIN exch' = DOMAIN exch
  /\ \A o \in DOMAIN exch : exch'[o].cid = exch[o].cid

\* An entry is appended after all the others, which stay as they are.
LEMMA AppendEntry ==
  ASSUME TypeOK, NEW e \in JournalEntry, journal' = Append(journal, e)
  PROVE  /\ Len(journal) + 1 \in Nat
         /\ Len(journal) + 1 \notin DOMAIN journal
         /\ DOMAIN journal' = DOMAIN journal \cup {Len(journal) + 1}
         /\ journal'[Len(journal) + 1] = e
         /\ \A i \in DOMAIN journal : journal'[i] = journal[i]
  BY DEF TypeOK

\* An intent adds its cid to the intended ones and reports nothing.
LEMMA AppendIntent ==
  ASSUME TypeOK, NEW c \in Cids, NEW s \in Signals,
         Log(Entry("order_intent", c, s, "None", 0))
  PROVE  /\ Intended' = Intended \cup {c}
         /\ IntentsOf(journal') = IntentsOf(journal) \cup {Len(journal) + 1}
         /\ Len(journal) + 1 \notin DOMAIN journal
         /\ journal'[Len(journal) + 1] = Entry("order_intent", c, s, "None", 0)
         /\ ReportsOf(journal') = ReportsOf(journal)
         /\ \A i \in DOMAIN journal : journal'[i] = journal[i]
<1> DEFINE e == Entry("order_intent", c, s, "None", 0)
<1>1. e \in JournalEntry /\ e.event = "order_intent" /\ e.cid = c
  BY EntryType DEF Entry
<1>2. journal' = Append(journal, e)
  BY DEF Log
<1> HIDE DEF e
<1>3. /\ Len(journal) + 1 \notin DOMAIN journal
      /\ DOMAIN journal' = DOMAIN journal \cup {Len(journal) + 1}
      /\ journal'[Len(journal) + 1] = e
      /\ \A i \in DOMAIN journal : journal'[i] = journal[i]
  BY <1>1, <1>2, AppendEntry
<1>4. IntentsOf(journal') = IntentsOf(journal) \cup {Len(journal) + 1}
      /\ ReportsOf(journal') = ReportsOf(journal)
  BY <1>1, <1>3 DEF IntentsOf, ReportsOf
<1>5. Intended' = Intended \cup {c}
  BY <1>1, <1>3, <1>4 DEF Intended, IntentsOf
<1>6. QED BY <1>3, <1>4, <1>5 DEF e

\* A report intends nothing and reports its order.
LEMMA AppendReport ==
  ASSUME TypeOK, NEW c \in Cids, NEW s \in Signals, NEW status \in OrderStatus, NEW n \in Nat,
         Log(Entry("order_report", c, s, status, n))
  PROVE  /\ Intended' = Intended
         /\ IntentsOf(journal') = IntentsOf(journal)
         /\ ReportsOf(journal') = ReportsOf(journal) \cup {Len(journal) + 1}
         /\ Len(journal) + 1 \notin DOMAIN journal
         /\ journal'[Len(journal) + 1].cid = c /\ journal'[Len(journal) + 1].status = status
         /\ \A i \in DOMAIN journal : journal'[i] = journal[i]
<1> DEFINE e == Entry("order_report", c, s, status, n)
<1>1. e \in JournalEntry /\ e.event = "order_report" /\ e.cid = c /\ e.status = status
  BY EntryType DEF Entry
<1>2. journal' = Append(journal, e)
  BY DEF Log
<1> HIDE DEF e
<1>3. /\ Len(journal) + 1 \notin DOMAIN journal
      /\ DOMAIN journal' = DOMAIN journal \cup {Len(journal) + 1}
      /\ journal'[Len(journal) + 1] = e
      /\ \A i \in DOMAIN journal : journal'[i] = journal[i]
  BY <1>1, <1>2, AppendEntry
<1>4. IntentsOf(journal') = IntentsOf(journal)
      /\ ReportsOf(journal') = ReportsOf(journal) \cup {Len(journal) + 1}
  BY <1>1, <1>3 DEF IntentsOf, ReportsOf
<1>5. Intended' = Intended
  BY <1>3, <1>4 DEF Intended, IntentsOf
<1>6. QED BY <1>1, <1>3, <1>4, <1>5

\* A step that logs at most an order_error keeps the journal's history.
LEMMA ErrorKept ==
  ASSUME TypeOK, call \in Call,
         journal' = journal \/ LogOrderError
  PROVE  JournalKept
<1>1. CASE journal' = journal
  BY <1>1 DEF JournalKept
<1>2. CASE journal' # journal
  <2> DEFINE e == Entry("order_error", Nil, call.sig, "None", 0)
  <2>1. e \in JournalEntry /\ e.event = "order_error"
    BY EntryType DEF Entry, Call
  <2>2. journal' = Append(journal, e)
    BY <1>2 DEF LogOrderError, Log
  <2> HIDE DEF e
  <2>3. /\ DOMAIN journal' = DOMAIN journal \cup {Len(journal) + 1}
        /\ journal'[Len(journal) + 1] = e
        /\ \A i \in DOMAIN journal : journal'[i] = journal[i]
    BY <2>1, <2>2, AppendEntry
  <2>4. QED BY <2>1, <2>3 DEF JournalKept, IntentsOf, ReportsOf
<1>3. QED BY <1>1, <1>2

\* A query that fails adds at most the error of its submission.
LEMMA QueryErrorKept == ASSUME TypeOK, QueryError PROVE JournalKept
<1>1. call \in Call
  BY DEF TypeOK, QueryError, InOrder
<1>2. journal' = journal \/ LogOrderError
  BY DEF QueryError
<1>3. QED BY <1>1, <1>2, ErrorKept

LEMMA KeptIntended ==
  ASSUME JournalKept
  PROVE  /\ Intended' = Intended
         /\ \A c : Reported(c)' <=> Reported(c)
  BY DEF JournalKept, Intended, Reported

(***************************************************************************)
(* What the steps do to the exchange.                                      *)
(***************************************************************************)

\* A cancel, a fill or the end of an order moves its status and its fills only,
\* and an order that rests no more never rests again.
LEMMA OrderMoves ==
  ASSUME TypeOK, CancelOrder \/ \E o \in DOMAIN exch : ExchangeFill(o) \/ ExchangeCancel(o)
  PROVE  /\ OrdersKept
         /\ \A o \in DOMAIN exch :
              /\ exch'[o].tif = exch[o].tif
              /\ exch'[o].price = exch[o].price /\ exch'[o].count = exch[o].count
              /\ Resting(o)' => Resting(o)
              /\ exch'[o].filled >= exch[o].filled
              /\ ~Resting(o) => exch'[o] = exch[o]
<1>1. exch \in Seq(ExchangeOrder) /\ \A o \in DOMAIN exch : exch[o] \in ExchangeOrder
  BY DEF TypeOK
<1>2. ASSUME NEW o \in DOMAIN exch, NEW x, exch' = [exch EXCEPT ![o] = x],
             x.cid = exch[o].cid, x.tif = exch[o].tif, x.price = exch[o].price,
             x.count = exch[o].count, x.filled >= exch[o].filled, Resting(o)
      PROVE  /\ OrdersKept
             /\ \A p \in DOMAIN exch :
                  /\ exch'[p].tif = exch[p].tif
                  /\ exch'[p].price = exch[p].price /\ exch'[p].count = exch[p].count
                  /\ Resting(p)' => Resting(p)
                  /\ exch'[p].filled >= exch[p].filled
                  /\ ~Resting(p) => exch'[p] = exch[p]
  BY <1>1, <1>2 DEF OrdersKept, Resting, ExchangeOrder
<1>3. ASSUME NEW o \in DOMAIN exch, Resting(o),
             exch' = [exch EXCEPT ![o].status = "Canceled"]
      PROVE  /\ OrdersKept
             /\ \A p \in DOMAIN exch :
                  /\ exch'[p].tif = exch[p].tif
                  /\ exch'[p].price = exch[p].price /\ exch'[p].count = exch[p].count
                  /\ Resting(p)' => Resting(p)
                  /\ exch'[p].filled >= exch[p].filled
                  /\ ~Resting(p) => exch'[p] = exch[p]
  <2> DEFINE x == [exch[o] EXCEPT !.status = "Canceled"]
  <2>1. x.cid = exch[o].cid /\ x.tif = exch[o].tif /\ x.price = exch[o].price
        /\ x.count = exch[o].count /\ x.filled >= exch[o].filled
    BY <1>1 DEF ExchangeOrder
  <2>2. exch' = [exch EXCEPT ![o] = x]
    BY <1>3
  <2> HIDE DEF x
  <2>3. QED BY <1>2, <1>3, <2>1, <2>2
<1>4. ASSUME NEW o \in DOMAIN exch, ExchangeFill(o)
      PROVE  /\ OrdersKept
             /\ \A p \in DOMAIN exch :
                  /\ exch'[p].tif = exch[p].tif
                  /\ exch'[p].price = exch[p].price /\ exch'[p].count = exch[p].count
                  /\ Resting(p)' => Resting(p)
                  /\ exch'[p].filled >= exch[p].filled
                  /\ ~Resting(p) => exch'[p] = exch[p]
  <2> DEFINE n == exch[o].filled + 2
             status == IF n = exch[o].count THEN "Filled" ELSE exch[o].status
             x == [exch[o] EXCEPT !.filled = n, !.status = status]
  <2>1. Resting(o) /\ exch' = [exch EXCEPT ![o] = x]
    BY <1>4 DEF ExchangeFill
  <2>2. x.cid = exch[o].cid /\ x.tif = exch[o].tif /\ x.price = exch[o].price
        /\ x.count = exch[o].count /\ x.filled >= exch[o].filled
    BY <1>1 DEF ExchangeOrder
  <2> HIDE DEF x
  <2>3. QED BY <1>2, <2>1, <2>2
<1>5. CASE CancelOrder
  <2>1. oid \in DOMAIN exch
    BY <1>5 DEF CancelOrder, TypeOK
  <2>2. CASE Resting(oid) /\ exch' = [exch EXCEPT ![oid].status = "Canceled"]
    BY <1>3, <2>1, <2>2
  <2>3. CASE exch' = exch
    <3>1. OrdersKept
      BY <2>3 DEF OrdersKept
    <3>2. \A o \in DOMAIN exch : exch[o].filled >= exch[o].filled
      BY <1>1 DEF ExchangeOrder
    <3>3. QED BY <2>3, <3>1, <3>2 DEF Resting
  <2>4. QED BY <1>5, <2>2, <2>3 DEF CancelOrder, Canceling
<1>6. CASE \E o \in DOMAIN exch : ExchangeCancel(o)
  BY <1>3, <1>6 DEF ExchangeCancel
<1>7. QED BY <1>4, <1>5, <1>6

\* The exchange takes the order of the current call.
Taken == \E statuses \in SUBSET {"Resting", "Rejected"} : Accepts(statuses)

LEMMA TakenByPlacement == ASSUME PlaceOrder \/ PlaceLost PROVE Taken
<1>1. \E statuses \in {{"Resting"}, {"Resting", "Rejected"}} : Accepts(statuses)
  BY DEF PlaceOrder, PlaceLost
<1>2. QED BY <1>1 DEF Taken

\* It goes behind the others, under the cid, the size and the kind of the call.
LEMMA TakenLast ==
  ASSUME TypeOK, call \in Call, Taken
  PROVE  /\ Len(exch) + 1 \in Nat /\ Len(exch) + 1 \notin DOMAIN exch
         /\ DOMAIN exch' = DOMAIN exch \cup {Len(exch) + 1} /\ Len(exch') = Len(exch) + 1
         /\ exch'[Len(exch) + 1].cid = call.cid /\ exch'[Len(exch) + 1].tif = call.tif
         /\ exch'[Len(exch) + 1].count = Rounded(call.qty) /\ exch'[Len(exch) + 1].filled = 0
         /\ \A o \in DOMAIN exch : exch'[o] = exch[o]
<1>1. PICK statuses \in SUBSET {"Resting", "Rejected"} : Accepts(statuses)
  BY DEF Taken
<1>2. PICK status \in statuses, price \in YesPrices(call.sig) :
        exch' = Append(exch, NewOrder(status, price))
  BY <1>1 DEF Accepts
<1> DEFINE x == NewOrder(status, price)
<1>3. x \in ExchangeOrder
  BY <1>1, <1>2, NewOrderType
<1>4. x.cid = call.cid /\ x.tif = call.tif /\ x.count = Rounded(call.qty) /\ x.filled = 0
  BY DEF NewOrder
<1>5. exch' = Append(exch, x)
  BY <1>2
<1> HIDE DEF x
<1>6. QED BY <1>3, <1>4, <1>5, AppendProperties DEF TypeOK

(***************************************************************************)
(* The history, group of actions by group of actions.                      *)
(***************************************************************************)

\* A step that adds no intent, report or order keeps the history.
LEMMA QuietHistory ==
  ASSUME HistoryInv, TypeOK', JournalKept, OrdersKept,
         pc' \in InOrder => pc \in InOrder /\ call' = call,
         pc = "reported" => pc' \notin InOrder \ {"reported"},
         pc' \in {"placed", "poll", "cancel", "recheck"}
           => oid' = oid /\ pc \in {"placed", "poll", "cancel", "recheck"},
         pc' = "settle" /\ Mode = "Live" /\ pc # "settle"
           => oid' = oid /\ pc \in {"placed", "poll", "recheck"},
         pc' = "settle" /\ pc = "settle" => oid' = oid,
         pc' \in {"cancel", "recheck"} \/ (pc' = "settle" /\ Mode = "Live")
           => \/ (rep.cid = EchoedCid(oid))'
              \/ rep' = rep /\ pc \in {"cancel", "recheck", "settle"},
         disk'.open \cup mem'.open \cup todo' \cup kept'
           \subseteq disk.open \cup mem.open \cup todo \cup kept
  PROVE  HistoryInv'
<1>1. Intended' = Intended /\ \A c : Reported(c)' <=> Reported(c)
  BY KeptIntended
<1>2. PlacedIntended' /\ ReportsIntended' /\ IntentsUnique'
  BY <1>1 DEF HistoryInv, PlacedIntended, ReportsIntended, IntentsUnique, JournalKept, OrdersKept
<1>3. CallUnderWay'
  BY <1>1 DEF HistoryInv, CallUnderWay
<1>4. CallOrder'
  BY DEF HistoryInv, TypeOK, CallOrder, OrdersKept, InOrder
<1>8. ReportEchoed'
  <2> SUFFICES ASSUME pc' \in {"cancel", "recheck"} \/ (pc' = "settle" /\ Mode = "Live"),
                      rep' = rep, pc \in {"cancel", "recheck", "settle"}
               PROVE  (rep.cid = EchoedCid(oid))'
    BY DEF ReportEchoed
  <2>1. oid' = oid /\ oid \in DOMAIN exch /\ rep.cid = EchoedCid(oid)
    BY DEF HistoryInv, TypeOK, CallOrder, ReportEchoed
  <2>2. QED BY <2>1 DEF EchoedCid, OrdersKept
<1>5. PaperNeverPlaces'
  <2>1. exch \in Seq(ExchangeOrder) /\ exch' \in Seq(ExchangeOrder)
    BY DEF HistoryInv, TypeOK
  <2>2. exch = <<>> => exch' = <<>>
    BY <2>1 DEF OrdersKept
  <2>3. QED BY <2>2 DEF HistoryInv, PaperNeverPlaces
<1>6. TrackedFoundOpen'
  <2>1. ASSUME NEW x \in disk.open \cup mem.open \cup todo \cup kept PROVE FoundOpen(x)'
    <3>1. FoundOpen(x) /\ x.oid \in DOMAIN exch
      BY DEF HistoryInv, TypeOK, TrackedFoundOpen
    <3>2. QED BY <3>1 DEF FoundOpen, EchoedCid, JournalKept, OrdersKept
  <2>2. QED BY <2>1 DEF TrackedFoundOpen
<1>7. QED BY <1>2, <1>3, <1>4, <1>5, <1>6, <1>8 DEF HistoryInv

\* An order begins.
LEMMA PrepareHistory ==
  ASSUME HistoryInv, TypeOK', NEW c \in Cids, NEW s \in Signals, NEW q, NEW total,
         NEW tif, NEW leg, NEW base, PrepareOrder(c, s, q, total, tif, leg, base)
  PROVE  HistoryInv'
<1> USE DEF InOrder
<1>1. TypeOK
  BY DEF HistoryInv
<1>2. Log(Entry("order_intent", c, s, "None", 0))
  BY DEF PrepareOrder
<1>3. /\ Intended' = Intended \cup {c}
      /\ IntentsOf(journal') = IntentsOf(journal) \cup {Len(journal) + 1}
      /\ Len(journal) + 1 \notin DOMAIN journal
      /\ journal'[Len(journal) + 1].cid = c
      /\ ReportsOf(journal') = ReportsOf(journal)
      /\ \A i \in DOMAIN journal : journal'[i] = journal[i]
  BY <1>1, <1>2, AppendIntent DEF Entry
<1>4. c \notin Intended /\ pc' = "logged" /\ call'.cid = c /\ exch' = exch
  BY DEF PrepareOrder
<1>5. PlacedIntended' /\ ReportsIntended'
  BY <1>3, <1>4 DEF HistoryInv, PlacedIntended, ReportsIntended, ReportsOf
<1>6. IntentsUnique'
  BY <1>3, <1>4 DEF HistoryInv, IntentsUnique, Intended, IntentsOf
<1>7. CallUnderWay'
  <2>1. ~Reported(c)
    BY <1>4 DEF HistoryInv, ReportsIntended, Reported
  <2>2. ~Reported(call.cid)'
    BY <1>3, <1>4, <2>1 DEF Reported, ReportsOf
  <2>3. QED BY <1>3, <1>4, <2>2 DEF CallUnderWay
<1>8. CallOrder' /\ ReportEchoed' /\ PaperNeverPlaces'
  BY <1>4 DEF CallOrder, ReportEchoed, PaperNeverPlaces, HistoryInv
<1>9. TrackedFoundOpen'
  <2>1. mem'.open = LoadState.open /\ disk' = disk /\ todo' = {} /\ kept' = {}
    BY <1>1, LoadStateType, RecordPreSubmitType DEF PrepareOrder, ClearLocals
  <2>2. ASSUME NEW x \in disk.open PROVE FoundOpen(x)'
    <3>1. FoundOpen(x)
      BY DEF HistoryInv, TrackedFoundOpen
    <3>2. QED BY <1>3, <1>4, <3>1 DEF FoundOpen, EchoedCid, ReportsOf
  <2>3. QED BY <1>1, <2>1, <2>2, LoadStateType DEF TrackedFoundOpen
<1>10. QED BY <1>5, <1>6, <1>7, <1>8, <1>9 DEF HistoryInv

LEMMA ExecutionHistory ==
  ASSUME HistoryInv, TypeOK',
         \/ \E s \in Signals, c \in Cids : ExecuteSignal(s, c)
         \/ \E c \in Cids : ExecuteFallback(c)
  PROVE  HistoryInv'
<1>1. ASSUME NEW s \in Signals, NEW c \in Cids, ExecuteSignal(s, c) PROVE HistoryInv'
  BY <1>1, PrepareHistory DEF ExecuteSignal
<1>2. ASSUME NEW c \in Cids, ExecuteFallback(c) PROVE HistoryInv'
  <2>1. call.sig \in Signals
    BY <1>2 DEF ExecuteFallback, HistoryInv, TypeOK, Call
  <2>2. QED BY <1>2, <2>1, PrepareHistory DEF ExecuteFallback
<1>3. QED BY <1>1, <1>2

\* An order is accepted, or fails; either way its call placed it.
LEMMA PlacementHistory ==
  ASSUME HistoryInv, TypeOK', PlaceOrder \/ PlaceFailed \/ PlaceLost \/ PlaceDuplicate
  PROVE  HistoryInv'
<1> USE DEF InOrder
<1>1. TypeOK /\ call \in Call /\ pc = "saved" /\ Mode = "Live" /\ call.cid \in Intended
  BY DEF HistoryInv, TypeOK, CallUnderWay, PlaceOrder, PlaceFailed, PlaceLost,
     PlaceDuplicate, Submits
<1>2. ASSUME Taken,
             JournalKept
      PROVE  PlacedIntended' /\ ReportsIntended' /\ IntentsUnique' /\ PaperNeverPlaces'
             /\ (\A x \in disk.open \cup mem.open \cup todo \cup kept : FoundOpen(x)')
             /\ exch'[Len(exch) + 1].cid = call.cid
  <2>1. /\ DOMAIN exch' = DOMAIN exch \cup {Len(exch) + 1}
        /\ exch'[Len(exch) + 1].cid = call.cid
        /\ \A o \in DOMAIN exch : exch'[o] = exch[o]
    BY <1>1, <1>2, TakenLast
  <2>2. Intended' = Intended
    BY <1>2, KeptIntended
  <2>3. PlacedIntended' /\ ReportsIntended' /\ IntentsUnique' /\ PaperNeverPlaces'
    BY <1>1, <1>2, <2>1, <2>2 DEF HistoryInv, PlacedIntended, ReportsIntended, IntentsUnique,
       PaperNeverPlaces, JournalKept
  <2>4. \A x \in disk.open \cup mem.open \cup todo \cup kept : FoundOpen(x)'
    <3>1. SUFFICES ASSUME NEW x \in disk.open \cup mem.open \cup todo \cup kept
                   PROVE  FoundOpen(x)'
      OBVIOUS
    <3>2. FoundOpen(x) /\ x.oid \in DOMAIN exch
      BY DEF HistoryInv, TypeOK, TrackedFoundOpen
    <3>3. QED BY <1>2, <2>1, <3>2 DEF FoundOpen, EchoedCid, JournalKept
  <2>5. QED BY <2>1, <2>3, <2>4
<1>3. ASSUME NEW retryable \in BOOLEAN, RetryOrReturn(retryable) PROVE JournalKept
  BY <1>1, <1>3, ErrorKept DEF RetryOrReturn
<1>4. ASSUME JournalKept PROVE CallUnderWay' <=> (pc' \in InOrder =>
                /\ call'.cid \in Intended
                /\ pc' # "reported" => ~Reported(call'.cid))
  BY <1>4, KeptIntended DEF CallUnderWay
<1>5. ASSUME NEW retryable \in BOOLEAN, RetryOrReturn(retryable)
      PROVE  /\ pc' \in {"saved", "idle"} /\ call' = call
             /\ CallUnderWay' /\ CallOrder' /\ ReportEchoed'
             /\ disk'.open \cup mem'.open \cup todo' \cup kept'
                  \subseteq disk.open \cup mem.open \cup todo \cup kept
  <2>1. pc' \in {"saved", "idle"} /\ call' = call
    BY <1>1, <1>5 DEF RetryOrReturn
  <2>2. CallUnderWay' /\ CallOrder' /\ ReportEchoed'
    BY <1>1, <1>3, <1>4, <1>5, <2>1 DEF HistoryInv, CallUnderWay, CallOrder, ReportEchoed
  <2>3. disk'.open \cup mem'.open \cup todo' \cup kept'
          \subseteq disk.open \cup mem.open \cup todo \cup kept
    <3>1. CASE retryable /\ tries < MaxRetries
      BY <1>5, <3>1 DEF RetryOrReturn
    <3>2. CASE ~(retryable /\ tries < MaxRetries)
      BY <1>5, <3>2 DEF RetryOrReturn, ClearLocals
    <3>3. QED BY <3>1, <3>2
  <2>4. QED BY <2>1, <2>2, <2>3
<1>6. CASE PlaceOrder
  <2>1. JournalKept /\ pc' = "placed" /\ call' = call /\ oid' = Len(exch) + 1
        /\ UNCHANGED <<disk, mem, todo, kept>>
    BY <1>6 DEF PlaceOrder, JournalKept
  <2>2. Taken
    BY <1>6, TakenByPlacement
  <2>3. CallUnderWay'
    BY <1>1, <1>4, <2>1 DEF HistoryInv, CallUnderWay
  <2>4. CallOrder' /\ ReportEchoed'
    BY <1>2, <2>1, <2>2 DEF CallOrder, ReportEchoed
  <2>5. TrackedFoundOpen'
    BY <1>2, <2>1, <2>2 DEF TrackedFoundOpen
  <2>6. QED BY <1>2, <2>1, <2>2, <2>3, <2>4, <2>5 DEF HistoryInv
<1>7. CASE PlaceLost
  <2>1. Taken
    BY <1>7, TakenByPlacement
  <2>2. PICK retryable \in BOOLEAN : RetryOrReturn(retryable)
    BY <1>7 DEF PlaceLost
  <2>3. TrackedFoundOpen'
    BY <1>2, <1>3, <1>5, <2>1, <2>2 DEF TrackedFoundOpen
  <2>4. QED BY <1>2, <1>3, <1>5, <2>1, <2>2, <2>3 DEF HistoryInv
<1>8. CASE PlaceFailed \/ PlaceDuplicate
  <2>1. PICK retryable \in BOOLEAN : RetryOrReturn(retryable) /\ exch' = exch
    BY <1>8 DEF PlaceFailed, PlaceDuplicate
  <2>2. OrdersKept
    BY <2>1 DEF OrdersKept
  <2>3. QED BY <1>1, <1>3, <1>5, <2>1, <2>2, QuietHistory
<1>9. QED BY <1>6, <1>7, <1>8

\* Asking the exchange, canceling, and what the exchange does by itself.
LEMMA ReportingHistory ==
  ASSUME HistoryInv, TypeOK',
         \/ FirstReport \/ PollReport \/ RecheckReport \/ QueryError \/ CancelOrder
         \/ Environment
  PROVE  HistoryInv'
<1> USE DEF InOrder, locals
<1>1. TypeOK
  BY DEF HistoryInv
<1>2. CASE FirstReport \/ PollReport \/ RecheckReport
  <2>1. /\ UNCHANGED <<journal, exch, call, oid, mem, disk, todo, kept>>
        /\ pc \in {"placed", "poll", "recheck"} /\ pc' \in {"poll", "cancel", "settle"}
    BY <1>2 DEF FirstReport, PollReport, RecheckReport, Received, AfterPolls
  <2>2. JournalKept /\ OrdersKept
    BY <2>1 DEF JournalKept, OrdersKept
  <2>4. (rep.cid = EchoedCid(oid))' \/ (rep' = rep /\ pc = "recheck")
    <3>1. rep' = ReportOf(oid) \/ (rep' = rep /\ pc = "recheck")
      BY <1>2 DEF FirstReport, PollReport, RecheckReport, RecheckedReports, Received
    <3>2. QED BY <2>1, <3>1 DEF ReportOf, EchoedCid
  <2>3. QED BY <2>1, <2>2, <2>4, QuietHistory
<1>3. CASE QueryError
  <2>1. /\ UNCHANGED <<exch, call, disk>> /\ pc' = "idle" /\ mem' = disk
        /\ todo' = {} /\ kept' = {}
    BY <1>3 DEF QueryError, ReturnError, ClearLocals
  <2>2. JournalKept /\ OrdersKept
    BY <1>1, <1>3, <2>1, QueryErrorKept DEF OrdersKept
  <2>3. QED BY <2>1, <2>2, QuietHistory
<1>4. CASE CancelOrder \/ \E o \in DOMAIN exch : ExchangeFill(o) \/ ExchangeCancel(o)
  <2>1. OrdersKept
    BY <1>1, <1>4, OrderMoves
  <2>2. /\ UNCHANGED <<journal, call, oid, rep, mem, disk, todo, kept>>
        /\ pc' = pc \/ (pc = "cancel" /\ pc' = "recheck") \/ (pc = "rcancel" /\ pc' = "rrecheck")
    BY <1>4 DEF CancelOrder, ExchangeFill, ExchangeCancel
  <2>3. JournalKept
    BY <2>2 DEF JournalKept
  <2>4. QED BY <2>1, <2>2, <2>3, QuietHistory
<1>5. CASE Tick
  <2>1. UNCHANGED <<pc, journal, exch, call, oid, rep, mem, disk, todo, kept>>
    BY <1>5 DEF Tick
  <2>2. JournalKept /\ OrdersKept
    BY <2>1 DEF JournalKept, OrdersKept
  <2>3. QED BY <2>1, <2>2, QuietHistory
<1>6. QED BY <1>2, <1>3, <1>4, <1>5 DEF Environment

\* The states are saved, a report is settled.
LEMMA SettlementHistory ==
  ASSUME HistoryInv, TypeOK', SettleReport \/ SaveReport \/ SavePreSubmit \/ PaperFill
                              \/ FallbackRefused \/ IoError
  PROVE  HistoryInv'
<1> USE DEF InOrder, locals
<1>1. TypeOK
  BY DEF HistoryInv
<1>2. CASE SettleReport
  <2>1. rep \in Report /\ call \in Call /\ call.cid \in Cids /\ call.sig \in Signals
        /\ oid \in Nat /\ mem \in RuntimeState
    BY <1>1, <1>2 DEF TypeOK, SettleReport, Call
  <2>2. /\ Intended' = Intended
        /\ IntentsOf(journal') = IntentsOf(journal)
        /\ ReportsOf(journal') = ReportsOf(journal) \cup {Len(journal) + 1}
        /\ journal'[Len(journal) + 1].cid = call.cid
        /\ journal'[Len(journal) + 1].status = rep.status
        /\ \A i \in DOMAIN journal : journal'[i] = journal[i]
    BY <1>1, <1>2, <2>1, AppendReport DEF SettleReport, Report
  <2>3. pc = "settle" /\ pc' = "reported" /\ UNCHANGED <<exch, call, disk, todo, kept>>
    BY <1>2 DEF SettleReport
  <2>4. PlacedIntended' /\ IntentsUnique' /\ PaperNeverPlaces' /\ CallOrder'
        /\ ReportEchoed'
    BY <2>2, <2>3 DEF HistoryInv, PlacedIntended, IntentsUnique, PaperNeverPlaces, CallOrder,
       ReportEchoed, IntentsOf
  <2>5. ReportsIntended' /\ CallUnderWay'
    BY <2>2, <2>3 DEF HistoryInv, ReportsIntended, CallUnderWay, ReportsOf
  <2>6. ASSUME NEW x \in disk.open \cup mem.open \cup todo \cup kept PROVE FoundOpen(x)'
    <3>1. FoundOpen(x)
      BY DEF HistoryInv, TrackedFoundOpen
    <3>2. QED BY <2>2, <2>3, <3>1 DEF FoundOpen, EchoedCid, ReportsOf
  <2>7. ASSUME NEW x \in mem'.open \ mem.open PROVE FoundOpen(x)'
    <3>1. rep.status \in OpenStatus /\ x = [oid |-> oid, cid |-> rep.cid]
      BY <1>2, <2>1 DEF SettleReport, FinalizeStateFromReport, RuntimeState
    <3>2. Mode = "Live"
      <4>1. oid \in DOMAIN exch
        BY <1>2, <3>1 DEF SettleReport, HistoryInv, TypeOK, OpenStatus, DoneStatus
      <4>2. QED BY <4>1, ConstantsAssumption DEF HistoryInv, PaperNeverPlaces
    <3>3. exch[oid].cid = call.cid
      BY <2>3, <3>2 DEF HistoryInv, CallOrder
    <3>4. rep.cid = EchoedCid(oid)
      BY <2>3, <3>2 DEF HistoryInv, ReportEchoed
    <3>5. QED BY <2>2, <2>3, <3>1, <3>3, <3>4 DEF FoundOpen, EchoedCid
  <2>8. TrackedFoundOpen'
    BY <2>3, <2>6, <2>7 DEF TrackedFoundOpen
  <2>9. QED BY <2>4, <2>5, <2>8 DEF HistoryInv
<1>3. ASSUME UNCHANGED <<journal, exch, call>>, pc' \in {"idle", "fallback"},
             disk'.open \cup mem'.open \subseteq disk.open \cup mem.open,
             todo' \cup kept' \subseteq todo \cup kept
      PROVE  HistoryInv'
  <2>1. JournalKept /\ OrdersKept
    BY <1>3 DEF JournalKept, OrdersKept
  <2>2. QED BY <1>3, <2>1, QuietHistory
<1>4. CASE SaveReport
  <2>1. CASE NeedsFallback
    BY <1>3, <1>4, <2>1 DEF SaveReport
  <2>2. CASE ~NeedsFallback
    BY <1>3, <1>4, <2>2 DEF SaveReport, ClearLocals
  <2>3. QED BY <2>1, <2>2
<1>5. CASE FallbackRefused \/ IoError
  BY <1>3, <1>5 DEF FallbackRefused, IoError, ReturnError, ClearLocals
<1>6. CASE SavePreSubmit \/ PaperFill
  <2>1. /\ UNCHANGED <<journal, exch, call, todo, kept, mem>> /\ disk' \in {disk, mem}
        /\ \/ pc = "logged" /\ pc' = "saved"
           \/ pc = "saved" /\ pc' = "settle" /\ Mode = "Paper"
    BY <1>6 DEF SavePreSubmit, PaperFill
  <2>2. JournalKept /\ OrdersKept
    BY <2>1 DEF JournalKept, OrdersKept
  <2>3. QED BY <2>1, <2>2, QuietHistory
<1>7. QED BY <1>2, <1>4, <1>5, <1>6

\* The life of the process and the startup reconciliation.
LEMMA LifeHistory ==
  ASSUME HistoryInv, TypeOK',
         \/ Start \/ Stop \/ Crash \/ ReconcileError \/ ReconcileSave
         \/ \E x \in todo : ReconcileQuery(x) \/ ReconcileRecheck(x) \/ ReconcilePrune(x)
  PROVE  HistoryInv'
<1> USE DEF InOrder, locals
<1>1. TypeOK
  BY DEF HistoryInv
<1>2. LoadState.open \subseteq disk.open /\ DefaultForToday.open = {}
  BY <1>1, LoadStateType
<1>3. ASSUME UNCHANGED <<journal, exch>>, pc' \notin InOrder,
             disk'.open \cup mem'.open \cup todo' \cup kept'
               \subseteq disk.open \cup mem.open \cup todo \cup kept
      PROVE  HistoryInv'
  <2>1. JournalKept /\ OrdersKept
    BY <1>3 DEF JournalKept, OrdersKept
  <2>2. QED BY <1>3, <2>1, QuietHistory
<1>4. CASE Start
  BY <1>2, <1>3, <1>4 DEF Start
<1>5. CASE Stop \/ Crash \/ ReconcileError
  BY <1>2, <1>3, <1>5 DEF Stop, Crash, ReconcileError, ReturnError, ClearLocals
<1>6. CASE ReconcileSave
  <2>1. disk'.open = kept
    BY <1>1, <1>6 DEF ReconcileSave, TypeOK, RuntimeState
  <2>2. QED BY <1>3, <1>6, <2>1 DEF ReconcileSave, ClearLocals
<1>7. ASSUME NEW x \in todo, ReconcileQuery(x) \/ ReconcileRecheck(x) \/ ReconcilePrune(x)
      PROVE  HistoryInv'
  <2>1. /\ pc' \in {"reconcile", "rcancel"} /\ UNCHANGED <<journal, exch, mem, disk>>
        /\ todo' \cup kept' \subseteq todo \cup kept
    BY <1>7 DEF ReconcileQuery, ReconcileRecheck, ReconcilePrune, Decide, Tracked
  <2>2. QED BY <1>3, <2>1
<1>8. QED BY <1>4, <1>5, <1>6, <1>7

LEMMA InitHistory == Init => HistoryInv
<1> SUFFICES ASSUME Init PROVE HistoryInv
  OBVIOUS
<1>1. TypeOK
  BY InitType
<1>2. disk.open = {} /\ mem.open = {} /\ todo = {} /\ kept = {}
  BY DEF Init, DefaultForToday
<1>3. PlacedIntended /\ PaperNeverPlaces /\ CallUnderWay /\ CallOrder /\ ReportEchoed
  BY DEF Init, PlacedIntended, PaperNeverPlaces, CallUnderWay, CallOrder, ReportEchoed, InOrder
<1>4. ReportsIntended /\ IntentsUnique
  BY DEF Init, ReportsIntended, IntentsUnique, ReportsOf, IntentsOf
<1>5. QED BY <1>1, <1>2, <1>3, <1>4 DEF HistoryInv, TrackedFoundOpen

\* The history is consistent in every reachable state.
LEMMA HistoryInvariant == Spec => []HistoryInv
<1>1. HistoryInv /\ TypeOK' /\ [Next]_vars => HistoryInv'
  <2> SUFFICES ASSUME HistoryInv, TypeOK', [Next]_vars PROVE HistoryInv'
    OBVIOUS
  <2>1. CASE EngineStep
    BY <2>1, PlacementHistory, ReportingHistory, SettlementHistory, ExecutionHistory,
       LifeHistory DEF EngineStep
  <2>2. CASE \E s \in Signals, c \in Cids : ExecuteSignal(s, c)
    BY <2>2, ExecutionHistory
  <2>3. CASE Start \/ Stop \/ Crash
    BY <2>3, LifeHistory
  <2>4. CASE Environment
    BY <2>4, ReportingHistory
  <2>5. CASE UNCHANGED vars
    <3>1. JournalKept /\ OrdersKept
      BY <2>5 DEF vars, JournalKept, OrdersKept
    <3>2. QED BY <2>5, <3>1, QuietHistory DEF vars, locals
  <2>6. QED BY <2>1, <2>2, <2>3, <2>4, <2>5 DEF Next
<1>2. QED BY InitHistory, TypeCorrect, <1>1, PTL DEF Spec

\* A tracked order is one of the exchange's, tracked once under the id it was
\* placed with, and a journaled report found it open, in every behaviour.
THEOREM TrackedSound == Spec => []TrackedOrdersSound
<1>1. HistoryInv => TrackedOrdersSound
  <2> SUFFICES ASSUME HistoryInv, NEW x \in disk.open, NEW y \in disk.open
               PROVE  FoundOpen(x) /\ (y.oid = x.oid => y = x)
    BY DEF TrackedOrdersSound, FoundOpen
  <2>1. FoundOpen(x) /\ FoundOpen(y)
    BY DEF HistoryInv, TrackedFoundOpen
  <2>2. x \in TrackedOrder /\ y \in TrackedOrder
    BY DEF HistoryInv, TypeOK, RuntimeState
  <2>3. QED BY <2>1, <2>2 DEF FoundOpen, TrackedOrder
<1>2. QED BY HistoryInvariant, <1>1, PTL

(***************************************************************************)
(* What the steps do to the state in memory and to the file.  Every step   *)
(* of the engine and its environment is of one of these kinds.             *)
(***************************************************************************)

\* An order is on its way to the exchange, or there: in the file, in memory.
Sent(c)          == Known(c) \/ (pc \in InOrder \ {"logged"} /\ call.cid = c)
SentOrSending(c) == Known(c) \/ (pc \in InOrder /\ call.cid = c)

IntentsKept ==
  /\ IntentsOf(journal') = IntentsOf(journal)
  /\ \A i \in IntentsOf(journal) : journal'[i] = journal[i]

SameButOpen(st, su) ==
  /\ st.day = su.day /\ st.loss = su.loss /\ st.exposure = su.exposure
  /\ st.recent = su.recent /\ st.seen = su.seen

Begins ==
  \E c \in Cids, s \in Signals, q \in Int : \E total, tif, leg, base :
    PrepareOrder(c, s, q, total, tif, leg, base)

Continues ==
  /\ UNCHANGED <<mem, disk>> /\ IntentsKept /\ now' \in Nat /\ now <= now'
  /\ \A c : /\ Sent(c)' => Sent(c)
            /\ SentOrSending(c)' => SentOrSending(c)

\* The call is over, or has not begun: memory is the file, as it is or rolled.
Returns ==
  /\ UNCHANGED <<disk, now>> /\ mem' \in {disk, LoadState} /\ IntentsKept
  /\ \A c : SentOrSending(c)' => Sent(c)

Saves ==
  /\ UNCHANGED now /\ SameButOpen(disk', mem) /\ SameButOpen(mem', mem) /\ IntentsKept
  /\ \A c : SentOrSending(c)' => SentOrSending(c)

Settles ==
  /\ SettleReport
  /\ UNCHANGED <<disk, now>> /\ IntentsKept
  /\ mem'.day = mem.day /\ mem'.recent = mem.recent /\ mem'.seen = mem.seen
  /\ mem.loss <= mem'.loss /\ mem.exposure <= mem'.exposure
  /\ \A c : /\ Sent(c)' => Sent(c)
            /\ SentOrSending(c)' => SentOrSending(c)

Loses ==
  /\ "state_lost" \in Faults /\ disk' = DefaultForToday /\ mem' = disk'
  /\ UNCHANGED now /\ IntentsKept
  /\ \A c : SentOrSending(c)' => SentOrSending(c)

\* A report only adds to what the day has accumulated.
LEMMA FinalizeAdds ==
  ASSUME NEW st \in RuntimeState, NEW o \in Nat, NEW r \in Report
  PROVE  /\ FinalizeStateFromReport(st, o, r).recent = st.recent
         /\ st.loss <= FinalizeStateFromReport(st, o, r).loss
         /\ st.exposure <= FinalizeStateFromReport(st, o, r).exposure
<1>1. r.filled * r.price \in Nat /\ r.fee \in Nat /\ st.loss \in Nat /\ st.exposure \in Nat
  <2>1. \A a \in Nat, b \in Nat : a * b \in Nat
    OBVIOUS
  <2>2. QED BY <2>1 DEF Report, RuntimeState
<1> DEFINE e == IF r.status \in OpenStatus \cup {"Filled"}
                THEN st.exposure + r.filled * r.price ELSE st.exposure
           op == IF r.status \in OpenStatus
                 THEN IF \E x \in st.open : x.oid = o THEN st.open
                      ELSE st.open \cup {[oid |-> o, cid |-> r.cid]}
                 ELSE {x \in st.open : x.oid # o}
           new == [st EXCEPT !.loss = st.loss + r.fee, !.exposure = e, !.open = op]
<1>2. FinalizeStateFromReport(st, o, r) = new
  BY DEF FinalizeStateFromReport
<1>3. st.exposure <= e
  BY <1>1
<1>4. st.loss <= st.loss + r.fee
  BY <1>1
<1> HIDE DEF e, op
<1>5. QED BY <1>2, <1>3, <1>4 DEF RuntimeState

\* A placement, whatever becomes of it, continues the call or returns from it.
LEMMA PlacementKind ==
  ASSUME HistoryInv, PlaceOrder \/ PlaceFailed \/ PlaceLost \/ PlaceDuplicate
  PROVE  Continues \/ Returns
<1> USE DEF InOrder
<1>1. TypeOK /\ call \in Call /\ pc = "saved" /\ now \in Nat
  BY DEF HistoryInv, TypeOK, PlaceOrder, PlaceFailed, PlaceLost, PlaceDuplicate, Submits
<1>2. ASSUME Taken
      PROVE  \A c : Known(c)' => Sent(c)
  <2>1. /\ DOMAIN exch' = DOMAIN exch \cup {Len(exch) + 1}
        /\ exch'[Len(exch) + 1].cid = call.cid
        /\ \A o \in DOMAIN exch : exch'[o] = exch[o]
    BY <1>1, <1>2, TakenLast
  <2>2. QED BY <1>1, <2>1 DEF Known, Sent
<1>3. ASSUME NEW retryable \in BOOLEAN, RetryOrReturn(retryable), \A c : Known(c)' => Sent(c)
      PROVE  Continues \/ Returns
  <2>1. IntentsKept
    BY <1>1, <1>3, ErrorKept DEF RetryOrReturn, JournalKept, IntentsKept
  <2>2. CASE retryable /\ tries < MaxRetries
    BY <1>1, <1>3, <2>1, <2>2 DEF RetryOrReturn, Continues, Sent, SentOrSending
  <2>3. CASE ~(retryable /\ tries < MaxRetries)
    BY <1>3, <2>1, <2>3 DEF RetryOrReturn, Returns, SentOrSending
  <2>4. QED BY <2>2, <2>3
<1>4. CASE PlaceOrder
  <2>1. \A c : Known(c)' => Sent(c)
    BY <1>2, <1>4, TakenByPlacement
  <2>2. /\ UNCHANGED <<mem, disk, journal, call, now>> /\ pc' = "placed"
    BY <1>4 DEF PlaceOrder
  <2>3. QED BY <1>1, <2>1, <2>2 DEF Continues, IntentsKept, Sent, SentOrSending
<1>5. CASE PlaceLost
  BY <1>2, <1>3, <1>5, TakenByPlacement DEF PlaceLost
<1>6. CASE PlaceFailed \/ PlaceDuplicate
  BY <1>3, <1>6 DEF PlaceFailed, PlaceDuplicate, Known, Sent
<1>7. QED BY <1>4, <1>5, <1>6

\* A step that leaves the orders, the intents and the state alone, and does
\* not begin a call or send its order, continues.
LEMMA QuietKind ==
  ASSUME TypeOK, OrdersKept, IntentsKept, UNCHANGED <<mem, disk>>, now' \in Nat, now <= now',
         pc' \in InOrder => pc \in InOrder /\ call' = call /\ (pc = "logged" => pc' = "logged")
  PROVE  Continues
  BY DEF Continues, Sent, SentOrSending, Known, OrdersKept

\* A call that ends without a save returns.
LEMMA ReturnKind ==
  ASSUME OrdersKept, IntentsKept, UNCHANGED <<disk, now>>, mem' \in {disk, LoadState},
         pc' \notin InOrder
  PROVE  Returns
  BY DEF Returns, Sent, SentOrSending, Known, OrdersKept

\* A signal, or the rest of one, begins an order.
LEMMA ExecutionBegins ==
  ASSUME TypeOK,
         (\E s \in Signals, c \in Cids : ExecuteSignal(s, c)) \/ \E c \in Cids : ExecuteFallback(c)
  PROVE  Begins
<1>1. ASSUME NEW s \in Signals, NEW c \in Cids, ExecuteSignal(s, c) PROVE Begins
  <2>1. HybridIocQty(s.qty) \in Int /\ s.qty \in Int
    BY SignalArithmetic
  <2>2. QED BY <1>1, <2>1 DEF ExecuteSignal, Begins
<1>2. ASSUME NEW c \in Cids, ExecuteFallback(c) PROVE Begins
  <2>1. call.sig \in Signals /\ FallbackQty \in Int
    BY <1>2 DEF ExecuteFallback, TypeOK, Call, Report, FallbackQty
  <2>2. QED BY <1>2, <2>1 DEF ExecuteFallback, Begins
<1>3. QED BY <1>1, <1>2

LEMMA StepKinds ==
  ASSUME HistoryInv, TypeOK', [Next]_vars
  PROVE  Begins \/ Continues \/ Returns \/ Saves \/ Settles \/ Loses
<1> USE DEF InOrder, locals
<1>1. TypeOK /\ now \in Nat
  BY DEF HistoryInv, TypeOK
<1>2. journal' = journal => IntentsKept
  BY DEF IntentsKept
<1>3. exch' = exch => OrdersKept
  BY DEF OrdersKept
<1>4. CASE (\E s \in Signals, c \in Cids : ExecuteSignal(s, c)) \/ \E c \in Cids : ExecuteFallback(c)
  BY <1>1, <1>4, ExecutionBegins
<1>5. CASE PlaceOrder \/ PlaceFailed \/ PlaceLost \/ PlaceDuplicate
  BY <1>5, PlacementKind
<1>6. CASE FirstReport \/ PollReport \/ RecheckReport \/ PaperFill
  <2>1. /\ UNCHANGED <<journal, exch, call, mem, disk, now>>
        /\ pc \in InOrder \ {"logged"} /\ pc' \in InOrder
    BY <1>6 DEF FirstReport, PollReport, RecheckReport, PaperFill, Received, AfterPolls
  <2>2. QED BY <1>1, <1>2, <1>3, <2>1, QuietKind
<1>7. CASE CancelOrder \/ \E o \in DOMAIN exch : ExchangeFill(o) \/ ExchangeCancel(o)
  <2>1. OrdersKept
    BY <1>1, <1>7, OrderMoves
  <2>2. /\ UNCHANGED <<journal, call, mem, disk, now>>
        /\ pc' = pc \/ (pc = "cancel" /\ pc' = "recheck") \/ (pc = "rcancel" /\ pc' = "rrecheck")
    BY <1>7 DEF CancelOrder, ExchangeFill, ExchangeCancel
  <2>3. QED BY <1>1, <1>2, <2>1, <2>2, QuietKind
<1>8. CASE Tick \/ Stop \/ UNCHANGED vars
  <2>1. UNCHANGED <<journal, exch, call, mem, disk>> /\ now' \in Nat /\ now <= now'
        /\ (pc' = pc \/ pc' = "down")
    BY <1>1, <1>8 DEF Tick, Stop, vars
  <2>2. QED BY <1>1, <1>2, <1>3, <2>1, QuietKind
<1>9. ASSUME NEW x \in todo, ReconcileQuery(x) \/ ReconcileRecheck(x) \/ ReconcilePrune(x)
      PROVE  Continues
  <2>1. pc' \in {"reconcile", "rcancel"} /\ UNCHANGED <<journal, exch, call, mem, disk, now>>
    BY <1>9 DEF ReconcileQuery, ReconcileRecheck, ReconcilePrune, Decide, Tracked
  <2>2. QED BY <1>1, <1>2, <1>3, <2>1, QuietKind
<1>10. CASE QueryError \/ FallbackRefused \/ IoError \/ ReconcileError \/ Start
  <2>1. /\ UNCHANGED <<exch, disk, now>> /\ mem' \in {disk, LoadState}
        /\ pc' \in {"idle", "reconcile"}
    BY <1>10 DEF QueryError, FallbackRefused, IoError, ReconcileError, ReturnError, Start
  <2>2. IntentsKept
    <3>1. CASE QueryError
      BY <1>1, <3>1, QueryErrorKept DEF JournalKept, IntentsKept
    <3>2. CASE ~QueryError
      BY <1>2, <1>10, <3>2 DEF FallbackRefused, IoError, ReconcileError, Start
    <3>3. QED BY <3>1, <3>2
  <2>3. QED BY <1>3, <2>1, <2>2, ReturnKind
<1>11. CASE SavePreSubmit \/ SaveReport \/ ReconcileSave
  <2>1. mem \in RuntimeState
    BY <1>1 DEF TypeOK
  <2>2. SameButOpen(disk', mem) /\ SameButOpen(mem', mem)
    BY <1>11, <2>1 DEF SavePreSubmit, SaveReport, ReconcileSave, SameButOpen, RuntimeState
  <2>3. /\ UNCHANGED <<journal, exch, call, now>>
        /\ (pc = "logged" /\ pc' = "saved") \/ pc' \in {"idle", "fallback"}
    BY <1>11 DEF SavePreSubmit, SaveReport, ReconcileSave
  <2>4. \A c : SentOrSending(c)' => SentOrSending(c)
    BY <2>3 DEF SentOrSending, Known
  <2>5. QED BY <1>2, <2>2, <2>3, <2>4 DEF Saves
<1>12. CASE SettleReport
  <2>1. rep \in Report /\ call \in Call /\ call.cid \in Cids /\ call.sig \in Signals
        /\ oid \in Nat /\ mem \in RuntimeState
    BY <1>1, <1>12 DEF TypeOK, SettleReport, Call
  <2>2. /\ mem'.day = mem.day /\ mem'.recent = mem.recent /\ mem'.seen = mem.seen
        /\ mem.loss <= mem'.loss /\ mem.exposure <= mem'.exposure
    BY <1>12, <2>1, FinalizeType, FinalizeAdds DEF SettleReport
  <2>3. IntentsKept
    <3>1. IntentsOf(journal') = IntentsOf(journal) /\ \A i \in DOMAIN journal : journal'[i] = journal[i]
      BY <1>1, <1>12, <2>1, AppendReport DEF SettleReport, Report
    <3>2. QED BY <3>1 DEF IntentsKept, IntentsOf
  <2>4. pc = "settle" /\ pc' = "reported" /\ UNCHANGED <<exch, call, disk, now>>
    BY <1>12 DEF SettleReport
  <2>5. \A c : (Sent(c)' => Sent(c)) /\ (SentOrSending(c)' => SentOrSending(c))
    BY <2>4 DEF Sent, SentOrSending, Known
  <2>6. QED BY <1>12, <2>2, <2>3, <2>4, <2>5 DEF Settles
<1>13. CASE Crash
  <2>1. UNCHANGED <<journal, exch, now>> /\ pc' = "down" /\ mem' = disk'
    BY <1>13 DEF Crash
  <2>2. CASE disk' = disk
    BY <1>2, <1>3, <2>1, <2>2, ReturnKind
  <2>3. CASE "state_lost" \in Faults /\ disk' = DefaultForToday
    BY <1>2, <2>1, <2>3 DEF Loses, SentOrSending, Known
  <2>4. QED BY <1>13, <2>2, <2>3 DEF Crash
<1>14. QED
  BY <1>4, <1>5, <1>6, <1>7, <1>8, <1>9, <1>10, <1>11, <1>12, <1>13
     DEF Next, EngineStep, Environment

(***************************************************************************)
(* The day's record only grows.  The file is overwritten with what is in   *)
(* memory, so the invariant is that memory is never behind the file: it is *)
(* of a later day, or holds all the file holds.                            *)
(***************************************************************************)
MemoryAhead ==
  /\ disk.day <= mem.day /\ mem.day <= Today
  /\ mem.day = disk.day =>
       disk.loss <= mem.loss /\ disk.exposure <= mem.exposure /\ disk.seen \subseteq mem.seen

\* Loading the state gives the file, or the beginning of a later day.
LEMMA LoadStateAhead ==
  ASSUME TypeOK, disk.day <= Today
  PROVE  LoadState = disk \/ (LoadState = DefaultForToday /\ disk.day < Today)
<1>1. disk.day \in Nat /\ Today \in Nat
  BY DayNat DEF TypeOK, RuntimeState, Today
<1>2. QED BY <1>1 DEF LoadState, RollDayIfNeeded

LEMMA AheadStep ==
  ASSUME HistoryInv, MemoryAhead, TypeOK',
         Begins \/ Continues \/ Returns \/ Saves \/ Settles \/ Loses
  PROVE  MemoryAhead'
<1>1. TypeOK /\ now \in Nat /\ mem \in RuntimeState /\ disk \in RuntimeState
  BY DEF HistoryInv, TypeOK
<1>2. now' \in Nat /\ mem' \in RuntimeState /\ disk' \in RuntimeState
  BY DEF TypeOK
<1>3. disk.day <= Today /\ Today \in Nat
  BY <1>1, DayNat DEF MemoryAhead, RuntimeState, Today
<1>4. DefaultForToday.day = Today
  BY DEF DefaultForToday
<1>5. ASSUME mem' = LoadState \/ (\E c \in Cids : mem' = RecordPreSubmitState(LoadState, c)),
             UNCHANGED <<disk, now>>
      PROVE  MemoryAhead'
  <2>1. LoadState \in RuntimeState
    BY <1>1, LoadStateType
  <2>2. /\ mem'.day = LoadState.day /\ mem'.exposure = LoadState.exposure
        /\ mem'.loss = LoadState.loss /\ LoadState.seen \subseteq mem'.seen
    <3>1. CASE mem' = LoadState
      BY <3>1
    <3>2. ASSUME NEW c \in Cids, mem' = RecordPreSubmitState(LoadState, c)
          PROVE  <2>2
      <4> DEFINE rc == WithinWindow(LoadState.recent \cup {[at |-> now, cid |-> c]})
      <4>1. mem' = [LoadState EXCEPT !.recent = rc, !.seen = LoadState.seen \cup {c}]
        BY <3>2 DEF RecordPreSubmitState
      <4> HIDE DEF rc
      <4>2. QED BY <2>1, <4>1 DEF RuntimeState
    <3>3. QED BY <1>5, <3>1, <3>2
  <2>3. Today' = Today
    BY <1>5 DEF Today
  <2>4. CASE LoadState = disk
    BY <1>1, <1>3, <1>5, <2>2, <2>3, <2>4 DEF MemoryAhead, RuntimeState
  <2>5. CASE LoadState = DefaultForToday /\ disk.day < Today
    BY <1>1, <1>3, <1>4, <1>5, <2>2, <2>3, <2>5 DEF MemoryAhead, RuntimeState
  <2>6. QED BY <1>1, <1>3, <2>4, <2>5, LoadStateAhead
<1>6. ASSUME SameButOpen(disk', mem'), UNCHANGED now, disk'.day <= Today PROVE MemoryAhead'
  BY <1>2, <1>6 DEF MemoryAhead, SameButOpen, RuntimeState, Today
<1>7. CASE Begins
  BY <1>5, <1>7 DEF Begins, PrepareOrder
<1>8. CASE Continues
  <2>1. Today <= Today' /\ Today' \in Nat
    BY <1>1, <1>2, <1>8, DayNat, DayMonotone DEF Continues, Today
  <2>2. QED BY <1>1, <1>3, <1>8, <2>1 DEF Continues, MemoryAhead, RuntimeState
<1>9. CASE Returns
  <2>1. CASE mem' = disk
    BY <1>3, <1>6, <1>9, <2>1 DEF Returns, SameButOpen
  <2>2. CASE mem' = LoadState
    BY <1>5, <1>9, <2>2 DEF Returns
  <2>3. QED BY <1>9, <2>1, <2>2 DEF Returns
<1>10. CASE Saves
  BY <1>6, <1>10 DEF Saves, SameButOpen, MemoryAhead
<1>11. CASE Settles
  BY <1>1, <1>2, <1>11 DEF Settles, MemoryAhead, RuntimeState, Today
<1>12. CASE Loses
  BY <1>3, <1>4, <1>6, <1>12 DEF Loses, SameButOpen
<1>13. QED BY <1>7, <1>8, <1>9, <1>10, <1>11, <1>12

LEMMA AheadInvariant == Spec => []MemoryAhead
<1>1. Init => MemoryAhead
  <2> SUFFICES ASSUME Init PROVE MemoryAhead
    OBVIOUS
  <2>1. Today \in Nat
    BY DayNat DEF Init, Today
  <2>2. QED BY <2>1 DEF Init, MemoryAhead, DefaultForToday
<1>2. HistoryInv /\ MemoryAhead /\ TypeOK' /\ [Next]_vars => MemoryAhead'
  BY StepKinds, AheadStep
<1>3. QED BY HistoryInvariant, TypeCorrect, <1>1, <1>2, PTL DEF Spec

\* Where the state file is never lost, what the day has accumulated in it only
\* grows: every save, whenever it happens, holds all that the last one held.
THEOREM DayAccumulates ==
  ASSUME "state_lost" \notin Faults PROVE Spec => DayOnlyAccumulates
<1> DEFINE Grows == disk'.day = disk.day =>
                      /\ disk'.exposure >= disk.exposure
                      /\ disk'.loss >= disk.loss
                      /\ disk.seen \subseteq disk'.seen
<1>1. HistoryInv /\ MemoryAhead /\ TypeOK' /\ [Next]_vars => [Grows]_vars
  <2> SUFFICES ASSUME HistoryInv, MemoryAhead, TypeOK', [Next]_vars PROVE Grows
    OBVIOUS
  <2>1. disk \in RuntimeState /\ mem \in RuntimeState
    BY DEF HistoryInv, TypeOK
  <2>2. disk' = disk => Grows
    BY <2>1 DEF RuntimeState
  <2>3. CASE Begins
    BY <2>2, <2>3 DEF Begins, PrepareOrder
  <2>4. CASE Continues \/ Returns \/ Settles
    BY <2>2, <2>4 DEF Continues, Returns, Settles
  <2>5. CASE Saves
    BY <2>1, <2>5 DEF Saves, SameButOpen, MemoryAhead, RuntimeState
  <2>6. CASE Loses
    BY <2>6 DEF Loses
  <2>7. QED BY <2>3, <2>4, <2>5, <2>6, StepKinds
<1>2. QED BY HistoryInvariant, AheadInvariant, TypeCorrect, <1>1, PTL DEF Spec, DayOnlyAccumulates

(***************************************************************************)
(* An order is recorded before it is sent.  The file's record of an order  *)
(* is what a restart goes by: its id is among those seen, and its time     *)
(* among those the rate limit counts, as long as each still matters.       *)
(***************************************************************************)
Recorded(st, e) ==
  /\ Day(e.at) <= st.day
  /\ Day(e.at) = st.day =>
       /\ e.cid \in st.seen
       /\ now - e.at <= RateWindow => [at |-> e.at, cid |-> e.cid] \in st.recent

RecordedInv ==
  /\ \A i \in IntentsOf(journal) :
       /\ journal[i].at <= now
       /\ Sent(journal[i].cid) => Recorded(disk, journal[i])
       /\ SentOrSending(journal[i].cid) => Recorded(mem, journal[i])
  /\ IsFiniteSet(mem.recent) /\ IsFiniteSet(disk.recent)

LEMMA IntentType ==
  ASSUME TypeOK, NEW i \in IntentsOf(journal)
  PROVE  /\ journal[i] \in JournalEntry /\ journal[i].at \in Nat /\ Day(journal[i].at) \in Nat
         /\ i \in DOMAIN journal /\ journal[i].event = "order_intent"
<1>1. journal[i] \in JournalEntry /\ i \in DOMAIN journal /\ journal[i].event = "order_intent"
  BY DEF TypeOK, IntentsOf
<1>2. QED BY <1>1, DayNat DEF JournalEntry

\* What the file records, the state loaded from it records.
LEMMA LoadRecords ==
  ASSUME TypeOK, MemoryAhead, NEW i \in IntentsOf(journal), Recorded(disk, journal[i])
  PROVE  Recorded(LoadState, journal[i])
<1>1. disk.day \in Nat /\ Day(journal[i].at) \in Nat /\ Today \in Nat /\ mem.day \in Nat
  BY IntentType, DayNat DEF TypeOK, RuntimeState, Today
<1>2. CASE LoadState = disk
  BY <1>2
<1>3. CASE LoadState = DefaultForToday /\ disk.day < Today
  BY <1>1, <1>3 DEF Recorded, DefaultForToday
<1>4. QED BY <1>1, <1>2, <1>3, LoadStateAhead DEF MemoryAhead

\* Recording an order keeps what is still within the window, and adds it.
LEMMA PreSubmitRecords ==
  ASSUME TypeOK, NEW st \in RuntimeState, NEW c \in Cids, IsFiniteSet(st.recent)
  PROVE  /\ RecordPreSubmitState(st, c).day = st.day
         /\ RecordPreSubmitState(st, c).seen = st.seen \cup {c}
         /\ IsFiniteSet(RecordPreSubmitState(st, c).recent)
         /\ [at |-> now, cid |-> c] \in RecordPreSubmitState(st, c).recent
         /\ \A r \in st.recent : now - r.at <= RateWindow
              => r \in RecordPreSubmitState(st, c).recent
<1> DEFINE x == [at |-> now, cid |-> c]
           rc == WithinWindow(st.recent \cup {x})
<1>1. RecordPreSubmitState(st, c) = [st EXCEPT !.recent = rc, !.seen = st.seen \cup {c}]
  BY DEF RecordPreSubmitState
<1>2. IsFiniteSet(rc)
  <2>1. IsFiniteSet(st.recent \cup {x})
    BY FS_AddElement
  <2>2. rc \subseteq st.recent \cup {x}
    BY DEF WithinWindow
  <2>3. QED BY <2>1, <2>2, FS_Subset
<1>3. x \in rc
  BY ConstantsAssumption DEF TypeOK, WithinWindow
<1>4. \A r \in st.recent : now - r.at <= RateWindow => r \in rc
  BY DEF WithinWindow
<1> HIDE DEF rc
<1>5. QED BY <1>1, <1>2, <1>3, <1>4 DEF RuntimeState

\* An order begins: nothing sent before it is forgotten, and it is recorded.
LEMMA BeginRecords ==
  ASSUME HistoryInv, MemoryAhead, RecordedInv, TypeOK', Begins
  PROVE  RecordedInv'
<1>1. PICK c \in Cids, s \in Signals, q \in Int :
             \E total, tif, leg, base : PrepareOrder(c, s, q, total, tif, leg, base)
  BY DEF Begins
<1>2. TypeOK /\ now \in Nat /\ LoadState \in RuntimeState /\ disk.day <= Today
  <2>1. TypeOK
    BY DEF HistoryInv
  <2>2. disk.day \in Nat /\ mem.day \in Nat /\ Today \in Nat
    BY <2>1, DayNat DEF TypeOK, RuntimeState, Today
  <2>3. QED BY <2>1, <2>2, LoadStateType DEF TypeOK, MemoryAhead
<1>3. /\ c \notin Intended /\ mem' = RecordPreSubmitState(LoadState, c)
      /\ Log(Entry("order_intent", c, s, "None", 0))
      /\ pc' = "logged" /\ call'.cid = c /\ UNCHANGED <<now, disk, exch>>
  BY <1>1 DEF PrepareOrder
<1>k. PICK k \in Nat : k = Len(journal) + 1
  BY <1>2 DEF TypeOK
<1>4. /\ IntentsOf(journal') = IntentsOf(journal) \cup {k}
      /\ journal'[k].cid = c /\ journal'[k].at = now
      /\ \A i \in IntentsOf(journal) : journal'[i] = journal[i] /\ journal[i].cid # c
  BY <1>2, <1>3, <1>k, AppendIntent DEF Entry, IntentsOf, Intended
<1>5. IsFiniteSet(LoadState.recent)
  BY FS_EmptySet DEF RecordedInv, LoadState, RollDayIfNeeded, DefaultForToday
<1>6. LoadState.day = Today
  BY DEF LoadState, RollDayIfNeeded, DefaultForToday
<1>7. ~Known(c)
  BY <1>3 DEF HistoryInv, PlacedIntended, Known
<1>8. ASSUME NEW i \in IntentsOf(journal)
      PROVE  /\ journal[i].at <= now
             /\ Sent(journal[i].cid)' => Recorded(disk, journal[i])'
             /\ SentOrSending(journal[i].cid)' => Recorded(mem, journal[i])'
  <2>1. journal[i].at <= now
    BY DEF RecordedInv
  <2>2. journal'[i] = journal[i] /\ journal[i].cid # c
    BY <1>4
  <2>3. Sent(journal[i].cid)' \/ SentOrSending(journal[i].cid)' => Known(journal[i].cid)
    BY <1>3, <2>2 DEF Sent, SentOrSending, Known
  <2>4. ASSUME Known(journal[i].cid)
        PROVE  Recorded(disk, journal[i])' /\ Recorded(mem, journal[i])'
    <3>1. Recorded(disk, journal[i])
      BY <2>4 DEF RecordedInv, Sent
    <3>2. Recorded(LoadState, journal[i])
      BY <1>2, <3>1, LoadRecords
    <3>3. /\ mem'.day = LoadState.day /\ mem'.seen = LoadState.seen \cup {c}
          /\ \A r \in LoadState.recent : now - r.at <= RateWindow => r \in mem'.recent
      BY <1>2, <1>3, <1>5, PreSubmitRecords
    <3>4. QED BY <1>3, <2>2, <3>1, <3>2, <3>3 DEF Recorded
  <2>5. QED BY <2>1, <2>3, <2>4
<1>9. IsFiniteSet(mem'.recent) /\ IsFiniteSet(disk'.recent)
  BY <1>2, <1>3, <1>5, PreSubmitRecords DEF RecordedInv
<1>10. Recorded(mem, journal[k])' /\ ~Sent(journal[k].cid)'
  <2>1. /\ mem'.day = Today /\ c \in mem'.seen /\ [at |-> now, cid |-> c] \in mem'.recent
    BY <1>2, <1>3, <1>5, <1>6, PreSubmitRecords
  <2>2. Recorded(mem, journal[k])'
    BY <1>2, <1>3, <1>4, <2>1, DayNat DEF Recorded, Today
  <2>3. ~Sent(journal[k].cid)'
    BY <1>3, <1>4, <1>7 DEF Sent, Known
  <2>4. QED BY <2>2, <2>3
<1>11. \A i \in IntentsOf(journal)' : journal'[i].at <= now'
  BY <1>2, <1>3, <1>4, <1>8
<1>12. \A i \in IntentsOf(journal)' : /\ Sent(journal[i].cid)' => Recorded(disk, journal[i])'
                                      /\ SentOrSending(journal[i].cid)' => Recorded(mem, journal[i])'
  BY <1>4, <1>8, <1>10
<1>13. QED
  BY <1>9, <1>11, <1>12 DEF RecordedInv

LEMMA RecordedStep ==
  ASSUME HistoryInv, MemoryAhead, RecordedInv, TypeOK',
         Begins \/ Continues \/ Returns \/ Saves \/ Settles
  PROVE  RecordedInv'
<1>1. TypeOK /\ now \in Nat
  BY DEF HistoryInv, TypeOK
<1>2. ASSUME NEW i \in IntentsOf(journal)
      PROVE  /\ Sent(journal[i].cid) => SentOrSending(journal[i].cid)
             /\ Sent(journal[i].cid) => Recorded(LoadState, journal[i])
             /\ journal[i].at \in Nat /\ journal[i].at <= now
  BY <1>1, LoadRecords, IntentType DEF RecordedInv, Sent, SentOrSending
<1>3. IsFiniteSet(LoadState.recent)
  BY FS_EmptySet DEF RecordedInv, LoadState, RollDayIfNeeded, DefaultForToday
<1>4. ASSUME IntentsKept, NEW i \in IntentsOf(journal)'
      PROVE  /\ i \in IntentsOf(journal) /\ journal'[i] = journal[i]
             /\ Sent(journal[i].cid)' => SentOrSending(journal[i].cid)'
  BY <1>4 DEF IntentsKept, Sent, SentOrSending
<1>5. ASSUME IntentsKept, NEW i \in IntentsOf(journal)
      PROVE  /\ Sent(journal[i].cid)' <=> \E c : c = journal[i].cid /\ Sent(c)'
             /\ SentOrSending(journal[i].cid)' <=> \E c : c = journal[i].cid /\ SentOrSending(c)'
  BY <1>5 DEF IntentsKept, Sent, SentOrSending, Known
<1>6. CASE Continues
  <2>1. /\ UNCHANGED <<mem, disk>> /\ IntentsKept /\ now' \in Nat /\ now <= now'
        /\ \A c : (Sent(c)' => Sent(c)) /\ (SentOrSending(c)' => SentOrSending(c))
    BY <1>6 DEF Continues
  <2>2. ASSUME NEW i \in IntentsOf(journal)'
        PROVE  /\ journal'[i].at <= now'
               /\ Sent(journal[i].cid)' => Recorded(disk, journal[i])'
               /\ SentOrSending(journal[i].cid)' => Recorded(mem, journal[i])'
    <3>1. i \in IntentsOf(journal) /\ journal'[i] = journal[i]
      BY <1>4, <2>1
    <3>2. /\ Sent(journal[i].cid)' => Recorded(disk, journal[i])
          /\ SentOrSending(journal[i].cid)' => Recorded(mem, journal[i])
      BY <1>5, <2>1, <3>1 DEF RecordedInv
    <3>3. now' - journal[i].at <= RateWindow => now - journal[i].at <= RateWindow
      BY <1>1, <1>2, <2>1, <3>1, ConstantsAssumption
    <3>4. QED BY <1>1, <1>2, <2>1, <3>1, <3>2, <3>3 DEF Recorded
  <2>3. QED BY <2>1, <2>2 DEF RecordedInv
<1>7. ASSUME UNCHANGED now, IntentsKept,
             \A i \in IntentsOf(journal) :
               /\ Sent(journal[i].cid)' => Recorded(disk', journal[i])
               /\ SentOrSending(journal[i].cid)' => Recorded(mem', journal[i]),
             IsFiniteSet(mem'.recent), IsFiniteSet(disk'.recent)
      PROVE  RecordedInv'
  <2>1. ASSUME NEW i \in IntentsOf(journal)'
        PROVE  /\ journal'[i].at <= now'
               /\ Sent(journal[i].cid)' => Recorded(disk, journal[i])'
               /\ SentOrSending(journal[i].cid)' => Recorded(mem, journal[i])'
    <3>1. i \in IntentsOf(journal) /\ journal'[i] = journal[i]
      BY <1>4, <1>7
    <3>2. QED BY <1>2, <1>7, <3>1 DEF Recorded
  <2>2. QED BY <1>7, <2>1 DEF RecordedInv
<1>8. CASE Returns
  <2>1. \A i \in IntentsOf(journal) : SentOrSending(journal[i].cid)' => Sent(journal[i].cid)
    BY <1>5, <1>8 DEF Returns
  <2>2. \A i \in IntentsOf(journal) : Sent(journal[i].cid)' => SentOrSending(journal[i].cid)'
    BY DEF Sent, SentOrSending
  <2>3. \A i \in IntentsOf(journal) : Sent(journal[i].cid)
          => Recorded(disk, journal[i]) /\ Recorded(LoadState, journal[i])
    BY <1>2 DEF RecordedInv
  <2>4. \A i \in IntentsOf(journal) :
          /\ Sent(journal[i].cid)' => Recorded(disk', journal[i])
          /\ SentOrSending(journal[i].cid)' => Recorded(mem', journal[i])
    BY <1>8, <2>1, <2>2, <2>3 DEF Returns
  <2>5. QED BY <1>3, <1>7, <1>8, <2>4 DEF Returns, RecordedInv
<1>9. CASE Saves
  <2>1. \A i \in IntentsOf(journal) : SentOrSending(journal[i].cid)' => Recorded(mem, journal[i])
    BY <1>5, <1>9 DEF Saves, RecordedInv
  <2>2. \A i \in IntentsOf(journal) : Sent(journal[i].cid)' => SentOrSending(journal[i].cid)'
    BY DEF Sent, SentOrSending
  <2>3. \A e : Recorded(mem, e) => Recorded(disk', e) /\ Recorded(mem', e)
    BY <1>9 DEF Saves, SameButOpen, Recorded
  <2>4. QED BY <1>7, <1>9, <2>1, <2>2, <2>3 DEF Saves, SameButOpen, RecordedInv
<1>10. CASE Settles
  <2>1. \A i \in IntentsOf(journal) :
          /\ Sent(journal[i].cid)' => Recorded(disk, journal[i])
          /\ SentOrSending(journal[i].cid)' => Recorded(mem, journal[i])
    BY <1>5, <1>10 DEF Settles, RecordedInv
  <2>2. \A e : Recorded(mem, e) => Recorded(mem', e)
    BY <1>10 DEF Settles, Recorded
  <2>3. QED BY <1>7, <1>10, <2>1, <2>2 DEF Settles, RecordedInv
<1>11. QED BY <1>6, <1>8, <1>9, <1>10, BeginRecords

LEMMA RecordedInvariant ==
  ASSUME "state_lost" \notin Faults PROVE Spec => []RecordedInv
<1>1. Init => RecordedInv
  <2> SUFFICES ASSUME Init PROVE RecordedInv
    OBVIOUS
  <2>1. IntentsOf(journal) = {} /\ mem.recent = {} /\ disk.recent = {}
    BY DEF Init, IntentsOf, DefaultForToday
  <2>2. QED BY <2>1, FS_EmptySet DEF RecordedInv
<1>2. HistoryInv /\ MemoryAhead /\ RecordedInv /\ TypeOK' /\ [Next]_vars => RecordedInv'
  BY StepKinds, RecordedStep DEF Loses
<1>3. QED BY HistoryInvariant, AheadInvariant, TypeCorrect, <1>1, <1>2, PTL DEF Spec

\* An order reaches the exchange after its intent is in the journal and, where
\* the state file is never lost, after its id is in the file of its day.
THEOREM IntentFirst == Spec => []IntentBeforePlacement
<1>1. HistoryInv => \A o \in DOMAIN exch : exch[o].cid \in Intended
  BY DEF HistoryInv, PlacedIntended
<1>2. CASE "state_lost" \in Faults
  <2>1. HistoryInv => IntentBeforePlacement
    BY <1>1, <1>2 DEF IntentBeforePlacement
  <2>2. QED BY <2>1, HistoryInvariant, PTL
<1>3. CASE "state_lost" \notin Faults
  <2>1. HistoryInv /\ RecordedInv => IntentBeforePlacement
    <3> SUFFICES ASSUME HistoryInv, RecordedInv, NEW o \in DOMAIN exch,
                        NEW i \in IntentsOf(journal), journal[i].cid = exch[o].cid,
                        Day(journal[i].at) = disk.day
                 PROVE  exch[o].cid \in disk.seen
      BY <1>1 DEF IntentBeforePlacement
    <3>1. Sent(journal[i].cid)
      BY DEF Sent, Known
    <3>2. QED BY <3>1 DEF RecordedInv, Recorded
  <2>2. QED BY <1>3, <2>1, HistoryInvariant, RecordedInvariant, PTL
<1>4. QED BY <1>2, <1>3

(***************************************************************************)
(* The order rate.  Every order sent was counted by the kill switch with   *)
(* the ones the file records in its window, and the file records them all. *)
(***************************************************************************)
Near(e, f) == Day(f.at) = Day(e.at) /\ f.at \in (e.at - RateWindow)..e.at

WindowOf(i) ==
  {k \in IntentsOf(journal) :
     SentOrSending(journal[k].cid) /\ Near(journal[i], journal[k])}

RateInv ==
  \A i \in IntentsOf(journal) : SentOrSending(journal[i].cid) =>
    IsFiniteSet(WindowOf(i)) /\ Cardinality(WindowOf(i)) <= MaxOrdersPerMinute

\* A subset of a small set is small.
LEMMA SmallSubset ==
  ASSUME NEW S, NEW T, IsFiniteSet(S), T \subseteq S, NEW n \in Nat, Cardinality(S) <= n
  PROVE  IsFiniteSet(T) /\ Cardinality(T) <= n
<1>1. IsFiniteSet(T) /\ Cardinality(T) <= Cardinality(S)
  BY FS_Subset
<1>2. Cardinality(S) \in Nat /\ Cardinality(T) \in Nat
  BY <1>1, FS_CardinalityType
<1>3. QED BY <1>1, <1>2

\* The kill switch counts at least the orders of the window that were sent.
LEMMA CountedBySwitch ==
  ASSUME HistoryInv, MemoryAhead, RecordedInv
  PROVE  LET Old == {k \in IntentsOf(journal) :
                       /\ Known(journal[k].cid) /\ Day(journal[k].at) = Today
                       /\ journal[k].at \in (now - RateWindow)..now}
         IN  /\ IsFiniteSet(Old)
             /\ Cardinality(Old) <= Cardinality(WithinWindow(LoadState.recent))
             /\ Cardinality(WithinWindow(LoadState.recent)) \in Nat
<1> DEFINE Old == {k \in IntentsOf(journal) :
                     /\ Known(journal[k].cid) /\ Day(journal[k].at) = Today
                     /\ journal[k].at \in (now - RateWindow)..now}
           T == WithinWindow(LoadState.recent)
           f == [k \in Old |-> [at |-> journal[k].at, cid |-> journal[k].cid]]
<1>1. TypeOK /\ now \in Nat
  BY DEF HistoryInv, TypeOK
<1>2. IsFiniteSet(T)
  <2>1. IsFiniteSet(LoadState.recent)
    BY FS_EmptySet DEF RecordedInv, LoadState, RollDayIfNeeded, DefaultForToday
  <2>2. T \subseteq LoadState.recent
    BY DEF WithinWindow
  <2>3. QED BY <2>1, <2>2, FS_Subset
<1>3. ASSUME NEW k \in Old PROVE [at |-> journal[k].at, cid |-> journal[k].cid] \in T
  <2>1. journal[k].at \in Nat /\ journal[k].at <= now /\ now - journal[k].at <= RateWindow
    BY <1>1, IntentType, ConstantsAssumption DEF RecordedInv
  <2>2. Recorded(LoadState, journal[k])
    BY <1>1, LoadRecords DEF RecordedInv, Sent
  <2>3. LoadState.day = Today
    BY DEF LoadState, RollDayIfNeeded, DefaultForToday
  <2>4. [at |-> journal[k].at, cid |-> journal[k].cid] \in LoadState.recent
    BY <2>1, <2>2, <2>3 DEF Recorded
  <2>5. QED BY <2>1, <2>4 DEF WithinWindow
<1>4. \A k, l \in Old : f[k] = f[l] => k = l
  BY DEF HistoryInv, IntentsUnique
<1>5. f \in Injection(Old, T)
  <2>1. f \in [Old -> T]
    BY <1>3
  <2>2. QED BY <1>4, <2>1 DEF Injection, IsInjective
<1>6. QED BY <1>2, <1>5, FS_Injection, FS_CardinalityType

\* An order begins: it and the orders of its window are within the limit.
LEMMA BeginRate ==
  ASSUME HistoryInv, MemoryAhead, RecordedInv, RateInv, TypeOK', Begins
  PROVE  RateInv'
<1>1. PICK c \in Cids, s \in Signals, q \in Int :
             \E total, tif, leg, base : PrepareOrder(c, s, q, total, tif, leg, base)
  BY DEF Begins
<1>2. TypeOK /\ now \in Nat
  BY DEF HistoryInv, TypeOK
<1>3. /\ c \notin Intended /\ Log(Entry("order_intent", c, s, "None", 0))
      /\ Cardinality(WithinWindow(LoadState.recent)) < MaxOrdersPerMinute
      /\ pc' = "logged" /\ call'.cid = c /\ UNCHANGED <<now, exch>>
  BY <1>1 DEF PrepareOrder, KillSwitchesAllow
<1>k. PICK k \in Nat : k = Len(journal) + 1
  BY <1>2 DEF TypeOK
<1>4. /\ IntentsOf(journal') = IntentsOf(journal) \cup {k}
      /\ journal'[k].cid = c /\ journal'[k].at = now
      /\ \A i \in IntentsOf(journal) : journal'[i] = journal[i] /\ journal[i].cid # c
  BY <1>2, <1>3, <1>k, AppendIntent DEF Entry, IntentsOf, Intended
<1> DEFINE Old == {l \in IntentsOf(journal) :
                     /\ Known(journal[l].cid) /\ Day(journal[l].at) = Today
                     /\ journal[l].at \in (now - RateWindow)..now}
<1>5. IsFiniteSet(Old \cup {k}) /\ Cardinality(Old \cup {k}) <= MaxOrdersPerMinute
  <2>1. /\ IsFiniteSet(Old)
        /\ Cardinality(Old) <= Cardinality(WithinWindow(LoadState.recent))
        /\ Cardinality(WithinWindow(LoadState.recent)) \in Nat
    BY CountedBySwitch
  <2> HIDE DEF Old
  <2>2. IsFiniteSet(Old \cup {k}) /\ Cardinality(Old \cup {k}) <= Cardinality(Old) + 1
    <3>1. IsFiniteSet(Old \cup {k})
          /\ Cardinality(Old \cup {k}) = IF k \in Old THEN Cardinality(Old) ELSE Cardinality(Old) + 1
      BY <2>1, FS_AddElement
    <3>2. Cardinality(Old) \in Nat
      BY <2>1, FS_CardinalityType
    <3>3. QED BY <3>1, <3>2
  <2>3. Cardinality(Old) \in Nat /\ Cardinality(Old \cup {k}) \in Nat
    BY <2>1, <2>2, FS_CardinalityType
  <2>4. QED BY <1>3, <2>1, <2>2, <2>3, ConstantsAssumption
<1>6. ASSUME NEW l \in IntentsOf(journal)
      PROVE  SentOrSending(journal[l].cid)' => Known(journal[l].cid)
  BY <1>3, <1>4 DEF SentOrSending, Known
<1>7. ASSUME NEW i \in IntentsOf(journal'), SentOrSending(journal[i].cid)'
      PROVE  IsFiniteSet(WindowOf(i)') /\ Cardinality(WindowOf(i)') <= MaxOrdersPerMinute
  <2>1. CASE journal'[i].at = now
    <3>1. WindowOf(i)' \subseteq Old \cup {k}
      <4> SUFFICES ASSUME NEW l \in WindowOf(i)', l # k PROVE l \in Old
        OBVIOUS
      <4>1. l \in IntentsOf(journal) /\ journal'[l] = journal[l]
        BY <1>4 DEF WindowOf
      <4>2. SentOrSending(journal[l].cid)' /\ Near(journal[i], journal[l])'
        BY DEF WindowOf
      <4>3. Day(journal[l].at) = Today /\ journal[l].at \in (now - RateWindow)..now
        BY <1>3, <2>1, <4>1, <4>2 DEF Near, Today
      <4>4. QED BY <1>6, <4>1, <4>2, <4>3
    <3> HIDE DEF Old
    <3>2. QED BY <1>5, <3>1, SmallSubset, ConstantsAssumption
  <2>2. CASE journal'[i].at # now
    <3>1. i \in IntentsOf(journal) /\ journal'[i] = journal[i] /\ Known(journal[i].cid)
      BY <1>4, <1>6, <1>7, <2>2
    <3>2. journal[i].at \in Nat /\ journal[i].at < now
      BY <1>2, <2>2, <3>1, IntentType DEF RecordedInv
    <3>3. WindowOf(i)' \subseteq WindowOf(i)
      <4> SUFFICES ASSUME NEW l \in WindowOf(i)' PROVE l \in WindowOf(i)
        OBVIOUS
      <4>1. SentOrSending(journal[l].cid)' /\ Near(journal[i], journal[l])'
            /\ l \in IntentsOf(journal')
        BY DEF WindowOf
      <4>2. l # k
        BY <1>2, <1>4, <3>1, <3>2, <4>1 DEF Near
      <4>3. l \in IntentsOf(journal) /\ journal'[l] = journal[l]
        BY <1>4, <4>1, <4>2
      <4>4. Known(journal[l].cid) /\ Near(journal[i], journal[l])
        BY <1>6, <3>1, <4>1, <4>3 DEF Near
      <4>5. QED BY <4>3, <4>4 DEF WindowOf, SentOrSending
    <3>4. IsFiniteSet(WindowOf(i)) /\ Cardinality(WindowOf(i)) <= MaxOrdersPerMinute
      BY <3>1 DEF RateInv, SentOrSending
    <3>5. QED BY <3>3, <3>4, SmallSubset, ConstantsAssumption
  <2>3. QED BY <2>1, <2>2
<1>8. QED BY <1>7 DEF RateInv

\* Any other step sends no order that was not on its way already.
LEMMA QuietRate ==
  ASSUME HistoryInv, RateInv, IntentsKept, \A c : SentOrSending(c)' => SentOrSending(c)
  PROVE  RateInv'
<1>1. ASSUME NEW i \in IntentsOf(journal')
      PROVE  /\ i \in IntentsOf(journal) /\ journal'[i] = journal[i]
             /\ SentOrSending(journal[i].cid)' => SentOrSending(journal[i].cid)
  <2>1. i \in IntentsOf(journal) /\ journal'[i] = journal[i]
    BY <1>1 DEF IntentsKept
  <2>2. SentOrSending(journal[i].cid)' <=> \E c : c = journal[i].cid /\ SentOrSending(c)'
    BY <2>1 DEF SentOrSending, Known
  <2>3. QED BY <2>1, <2>2
<1>2. ASSUME NEW i \in IntentsOf(journal'), SentOrSending(journal[i].cid)'
      PROVE  IsFiniteSet(WindowOf(i)') /\ Cardinality(WindowOf(i)') <= MaxOrdersPerMinute
  <2>1. IsFiniteSet(WindowOf(i)) /\ Cardinality(WindowOf(i)) <= MaxOrdersPerMinute
    BY <1>1, <1>2 DEF RateInv
  <2>2. WindowOf(i)' \subseteq WindowOf(i)
    <3> SUFFICES ASSUME NEW l \in WindowOf(i)' PROVE l \in WindowOf(i)
      OBVIOUS
    <3>1. SentOrSending(journal[l].cid)' /\ Near(journal[i], journal[l])'
          /\ l \in IntentsOf(journal')
      BY DEF WindowOf
    <3>2. l \in IntentsOf(journal) /\ journal'[l] = journal[l] /\ journal'[i] = journal[i]
          /\ SentOrSending(journal[l].cid)
      BY <1>1, <1>2, <3>1
    <3>3. Near(journal[i], journal[l])
      BY <3>1, <3>2 DEF Near
    <3>4. QED BY <3>2, <3>3 DEF WindowOf
  <2>3. QED BY <2>1, <2>2, SmallSubset, ConstantsAssumption
<1>3. QED BY <1>2 DEF RateInv

LEMMA RateInvariant ==
  ASSUME "state_lost" \notin Faults PROVE Spec => []RateInv
<1>1. Init => RateInv
  BY DEF Init, RateInv, IntentsOf
<1>2. HistoryInv /\ MemoryAhead /\ RecordedInv /\ RateInv /\ TypeOK' /\ [Next]_vars => RateInv'
  <2> SUFFICES ASSUME HistoryInv, MemoryAhead, RecordedInv, RateInv, TypeOK', [Next]_vars
               PROVE  RateInv'
    OBVIOUS
  <2>1. CASE Begins
    BY <2>1, BeginRate
  <2>2. CASE Continues \/ Returns \/ Saves \/ Settles
    <3>1. IntentsKept /\ \A c : SentOrSending(c)' => SentOrSending(c)
      BY <2>2 DEF Continues, Returns, Saves, Settles, Sent, SentOrSending
    <3>2. QED BY <3>1, QuietRate
  <2>3. QED BY <2>1, <2>2, StepKinds DEF Loses
<1>3. QED
  BY HistoryInvariant, AheadInvariant, RecordedInvariant, TypeCorrect, <1>1, <1>2, PTL DEF Spec

\* The intent of an intended cid is the one there is.
LEMMA IntentOfCid ==
  ASSUME HistoryInv, NEW i \in IntentsOf(journal) PROVE IntentOf(journal[i].cid) = journal[i]
<1>1. \E k \in IntentsOf(journal) : journal[k].cid = journal[i].cid
  OBVIOUS
<1>2. LET k == CHOOSE k \in IntentsOf(journal) : journal[k].cid = journal[i].cid
      IN  k \in IntentsOf(journal) /\ journal[k].cid = journal[i].cid
  BY <1>1
<1>3. QED BY <1>2 DEF IntentOf, HistoryInv, IntentsUnique

\* Where the state file is never lost, no window inside a day sees more orders
\* reach the exchange than the limit, whatever else fails.
THEOREM RateLimited ==
  ASSUME "state_lost" \notin Faults PROVE Spec => []PlacementRateLimited
<1>1. HistoryInv /\ RateInv => PlacementRateLimited
  <2> SUFFICES ASSUME HistoryInv, RateInv, NEW o \in DOMAIN exch
               PROVE  Cardinality(SentInWindow(exch[o].cid)) <= MaxOrdersPerMinute
    BY DEF PlacementRateLimited
  <2>1. PICK i \in IntentsOf(journal) : journal[i].cid = exch[o].cid
    BY DEF HistoryInv, PlacedIntended, Intended
  <2> DEFINE S == SentInWindow(exch[o].cid)
             T == WindowOf(i)
             f == [d \in S |-> CHOOSE k \in T : journal[k].cid = d]
  <2>2. IntentOf(exch[o].cid) = journal[i] /\ SentOrSending(journal[i].cid)
    BY <2>1, IntentOfCid DEF SentOrSending, Known
  <2>3. IsFiniteSet(T) /\ Cardinality(T) <= MaxOrdersPerMinute
    BY <2>2 DEF RateInv
  <2>4. ASSUME NEW d \in S PROVE \E k \in T : journal[k].cid = d
    <3>1. PICK p \in DOMAIN exch : d = exch[p].cid
      BY DEF SentInWindow
    <3>2. PICK k \in IntentsOf(journal) : journal[k].cid = d
      BY <3>1 DEF HistoryInv, PlacedIntended, Intended
    <3>3. IntentOf(d) = journal[k]
      BY <3>2, IntentOfCid
    <3>4. Near(journal[i], journal[k])
      BY <2>2, <3>3 DEF SentInWindow, Near
    <3>5. SentOrSending(journal[k].cid)
      BY <3>1, <3>2 DEF SentOrSending, Known
    <3>6. QED BY <3>2, <3>4, <3>5 DEF WindowOf
  <2> HIDE DEF S, T
  <2>5. \A d \in S : f[d] \in T /\ journal[f[d]].cid = d
    BY <2>4
  <2>6. f \in Injection(S, T)
    <3>1. f \in [S -> T]
      BY <2>5
    <3>2. \A d, e \in S : f[d] = f[e] => d = e
      BY <2>5
    <3> HIDE DEF f
    <3>3. QED BY <3>1, <3>2 DEF Injection, IsInjective
  <2>7. IsFiniteSet(S) /\ Cardinality(S) <= Cardinality(T)
    BY <2>3, <2>6, FS_Injection
  <2>8. Cardinality(S) \in Nat /\ Cardinality(T) \in Nat
    BY <2>3, <2>7, FS_CardinalityType
  <2>9. QED BY <2>3, <2>7, <2>8, ConstantsAssumption DEF S
<1>2. QED BY <1>1, HistoryInvariant, RateInvariant, PTL

(***************************************************************************)
(* An IOC order and its call.  Where every request is answered, an IOC     *)
(* order that rests is the one the call is about to ask about or cancel.   *)
(***************************************************************************)
IocInv ==
  /\ \A o \in DOMAIN exch : Resting(o) /\ exch[o].tif = "ioc"
       => pc \in {"placed", "poll", "cancel"} /\ o = oid
  /\ pc \in {"placed", "poll", "cancel"} => exch[oid].tif = call.tif

\* A report with a final status is about an order that rests no more.
LEMMA FinalReport ==
  ASSUME TypeOK, NEW o \in DOMAIN exch
  PROVE  /\ ReportOf(o).status \in DoneStatus <=> ~Resting(o)
         /\ ReportOf(o).status \in OpenStatus <=> Resting(o)
  BY ReportType DEF ReportOf, Resting, DoneStatus, OpenStatus, ExchangeOrder

LEMMA IocStep ==
  ASSUME Faults \subseteq {"place_failed"}, HistoryInv, IocInv, TypeOK', [Next]_vars
  PROVE  IocInv'
<1> USE DEF InOrder, locals
<1>1. TypeOK
  BY DEF HistoryInv, TypeOK
<1>2. /\ ~PlaceLost /\ ~QueryError /\ ~IoError /\ ~ReconcileError /\ ~Crash
      /\ \A x \in todo : ~ReconcilePrune(x)
      /\ \A o : ~QueryFails(o)
      /\ CancelOrder => exch' = Canceling(oid)
  <2>1. /\ "place_lost" \notin Faults /\ "query_error" \notin Faults /\ "archived" \notin Faults
        /\ "io_error" \notin Faults /\ "crash" \notin Faults /\ "cancel_lost" \notin Faults
    OBVIOUS
  <2>2. QED
    BY <2>1 DEF PlaceLost, QueryError, IoError, ReconcileError, Crash, ReconcilePrune,
       QueryFails, CancelOrder
<1>3. ASSUME exch' = exch, pc \notin {"placed", "poll", "cancel"},
             pc' \notin {"placed", "poll", "cancel"}
      PROVE  IocInv'
  BY <1>3 DEF IocInv, Resting
<1>4. CASE PlaceOrder
  <2>1. call \in Call /\ pc = "saved"
    BY <1>1, <1>4 DEF PlaceOrder, Submits, TypeOK
  <2>2. Taken
    BY <1>4, TakenByPlacement
  <2>3. /\ DOMAIN exch' = DOMAIN exch \cup {Len(exch) + 1}
        /\ exch'[Len(exch) + 1].tif = call.tif
        /\ \A o \in DOMAIN exch : exch'[o] = exch[o]
    BY <1>1, <2>1, <2>2, TakenLast
  <2>4. oid' = Len(exch) + 1 /\ pc' = "placed" /\ call' = call
    BY <1>4 DEF PlaceOrder
  <2>5. QED BY <2>1, <2>3, <2>4 DEF IocInv, Resting
<1>5. CASE FirstReport \/ PollReport
  <2>1. /\ pc \in {"placed", "poll"} /\ UNCHANGED <<exch, call, oid>> /\ oid \in DOMAIN exch
        /\ pc' = "settle" => ReportOf(oid).status \in DoneStatus \/ call.tif # "ioc"
        /\ pc' \in {"poll", "cancel", "settle"}
    BY <1>1, <1>5 DEF FirstReport, PollReport, Received, AfterPolls, TypeOK
  <2>2. pc' = "settle" => ~(Resting(oid) /\ exch[oid].tif = "ioc")
    BY <1>1, <2>1, FinalReport DEF IocInv
  <2>3. QED BY <2>1, <2>2 DEF IocInv, Resting
<1>6. CASE CancelOrder
  <2>1. oid \in DOMAIN exch /\ exch \in Seq(ExchangeOrder)
    BY <1>1, <1>6 DEF CancelOrder, TypeOK
  <2>2. ~Resting(oid)'
    <3> DEFINE x == [exch[oid] EXCEPT !.status = "Canceled"]
    <3>1. \/ ~Resting(oid) /\ exch' = exch
          \/ exch' = [exch EXCEPT ![oid] = x]
      BY <1>2, <1>6 DEF Canceling
    <3>2. x.status = "Canceled"
      BY <1>1, <2>1, ReportType DEF ExchangeOrder
    <3> HIDE DEF x
    <3>3. oid' = oid
      BY <1>6 DEF CancelOrder
    <3>4. QED BY <2>1, <3>1, <3>2, <3>3 DEF Resting
  <2>3. /\ DOMAIN exch' = DOMAIN exch
        /\ \A o \in DOMAIN exch : exch'[o].tif = exch[o].tif /\ (Resting(o)' => Resting(o))
    BY <1>1, <1>6, OrderMoves DEF OrdersKept
  <2>4. /\ oid' = oid /\ pc \in {"cancel", "rcancel"}
        /\ pc' \in {"recheck", "rrecheck"}
    BY <1>6 DEF CancelOrder
  <2>5. QED BY <2>2, <2>3, <2>4 DEF IocInv
<1>7. CASE \E o \in DOMAIN exch : ExchangeFill(o) \/ ExchangeCancel(o)
  <2>1. /\ DOMAIN exch' = DOMAIN exch
        /\ \A o \in DOMAIN exch : exch'[o].tif = exch[o].tif /\ (Resting(o)' => Resting(o))
    BY <1>1, <1>7, OrderMoves DEF OrdersKept
  <2>2. UNCHANGED <<pc, call, oid>>
    BY <1>7 DEF ExchangeFill, ExchangeCancel
  <2>3. pc \in {"placed", "poll", "cancel"} => oid \in DOMAIN exch
    BY <1>1 DEF TypeOK
  <2>4. QED BY <2>1, <2>2, <2>3 DEF IocInv
<1>8. CASE PlaceFailed \/ PlaceDuplicate
  <2>1. pc = "saved" /\ exch' = exch /\ pc' \in {"saved", "idle"}
    BY <1>8 DEF PlaceFailed, PlaceDuplicate, Submits, RetryOrReturn
  <2>2. QED BY <1>3, <2>1
<1>9. CASE RecheckReport \/ SettleReport \/ SaveReport \/ SavePreSubmit \/ PaperFill
           \/ FallbackRefused \/ ReconcileSave \/ Start \/ Stop
  <2>1. exch' = exch /\ pc \notin {"placed", "poll", "cancel"}
        /\ pc' \notin {"placed", "poll", "cancel"}
    BY <1>9 DEF RecheckReport, SettleReport, SaveReport, SavePreSubmit, PaperFill,
       FallbackRefused, ReturnError, ReconcileSave, Start, Stop
  <2>2. QED BY <1>3, <2>1
<1>10. CASE (\E s \in Signals, c \in Cids : ExecuteSignal(s, c)) \/ \E c \in Cids : ExecuteFallback(c)
  BY <1>3, <1>10 DEF ExecuteSignal, ExecuteFallback, PrepareOrder
<1>11. CASE \E x \in todo : ReconcileQuery(x) \/ ReconcileRecheck(x)
  BY <1>3, <1>11 DEF ReconcileQuery, ReconcileRecheck, Decide, Tracked
<1>12. CASE Tick \/ UNCHANGED vars
  BY <1>12 DEF Tick, vars, IocInv, Resting
<1>13. QED
  BY <1>2, <1>4, <1>5, <1>6, <1>7, <1>8, <1>9, <1>10, <1>11, <1>12
     DEF Next, EngineStep, Environment

\* Where nothing fails but placements, an IOC order never outlives its call,
\* although the exchange may leave it resting while it is polled.
THEOREM IocEnds ==
  ASSUME Faults \subseteq {"place_failed"} PROVE Spec => []IocNeverRests
<1>1. Init => IocInv
  BY DEF Init, IocInv
<1>2. HistoryInv /\ IocInv /\ TypeOK' /\ [Next]_vars => IocInv'
  BY IocStep
<1>3. IocInv => IocNeverRests
  BY DEF IocInv, IocNeverRests
<1>4. QED BY HistoryInvariant, TypeCorrect, <1>1, <1>2, <1>3, PTL DEF Spec

(***************************************************************************)
(* Resting orders are tracked.  The state that will be in the file next    *)
(* tracks every reported order that rests: the file itself, or the state   *)
(* in memory once the report of a call is in the journal.                  *)
(***************************************************************************)
OnePerCid == \A o, p \in DOMAIN exch : exch[o].cid = exch[p].cid => o = p

Tracks(st) ==
  \A o \in DOMAIN exch : Resting(o) /\ Reported(exch[o].cid) =>
    \/ \E x \in st.open : x.oid = o
    \/ \E i \in IntentsOf(journal) :
         journal[i].cid = exch[o].cid /\ Day(journal[i].at) # st.day

\* A report that is kept says of a resting order that it is open.
OpenReport ==
  /\ pc \in {"cancel", "recheck", "rcancel", "rrecheck"} => rep.status \in OpenStatus
  /\ pc = "settle" /\ oid \in DOMAIN exch /\ Resting(oid) => rep.status \in OpenStatus

\* The startup reconciliation drops no order that rests.
StillTracked ==
  pc \in InStart => \A x \in mem.open : Resting(x.oid) => \E y \in todo \cup kept : y.oid = x.oid

TrackInv ==
  /\ OnePerCid
  /\ Tracks(mem)
  /\ pc # "reported" => Tracks(disk)
  /\ OpenReport /\ StillTracked

\* What the file tracks, the state loaded from it tracks: the orders of an
\* earlier day are not its business any more.
LEMMA LoadTracks ==
  ASSUME HistoryInv, MemoryAhead, RecordedInv, Tracks(disk) PROVE Tracks(LoadState)
<1>1. TypeOK /\ disk.day \in Nat /\ Today \in Nat /\ mem.day \in Nat
  BY DayNat DEF HistoryInv, TypeOK, RuntimeState, Today
<1>2. CASE LoadState = disk
  BY <1>2
<1>3. CASE LoadState = DefaultForToday /\ disk.day < Today
  <2> SUFFICES ASSUME NEW o \in DOMAIN exch
               PROVE  \E i \in IntentsOf(journal) :
                        journal[i].cid = exch[o].cid /\ Day(journal[i].at) # LoadState.day
    BY DEF Tracks
  <2>1. PICK i \in IntentsOf(journal) : journal[i].cid = exch[o].cid
    BY DEF HistoryInv, PlacedIntended, Intended
  <2>2. Day(journal[i].at) <= disk.day /\ Day(journal[i].at) \in Nat
    BY <1>1, <2>1, IntentType DEF RecordedInv, Sent, Known, Recorded
  <2>3. LoadState.day = Today
    BY DEF LoadState, RollDayIfNeeded, DefaultForToday
  <2>4. QED BY <1>1, <1>3, <2>1, <2>2, <2>3
<1>4. QED BY <1>1, <1>2, <1>3, LoadStateAhead DEF MemoryAhead

\* A step that reports nothing new and lets no order rest again keeps track,
\* in a state that tracks the same orders on the same day.
LEMMA TracksKept ==
  ASSUME TypeOK, JournalKept, OrdersKept, \A o \in DOMAIN exch : Resting(o)' => Resting(o)
  PROVE  /\ mem'.open = mem.open /\ mem'.day = mem.day /\ Tracks(mem) => Tracks(mem)'
         /\ mem'.open = disk.open /\ mem'.day = disk.day /\ Tracks(disk) => Tracks(mem)'
         /\ mem'.open = LoadState.open /\ mem'.day = LoadState.day /\ Tracks(LoadState)
              => Tracks(mem)'
         /\ disk'.open = disk.open /\ disk'.day = disk.day /\ Tracks(disk) => Tracks(disk)'
         /\ disk'.open = mem.open /\ disk'.day = mem.day /\ Tracks(mem) => Tracks(disk)'
<1>1. ASSUME NEW o \in DOMAIN exch
      PROVE  /\ exch'[o].cid = exch[o].cid /\ DOMAIN exch' = DOMAIN exch
             /\ Reported(exch[o].cid)' <=> Reported(exch[o].cid)
  BY DEF JournalKept, OrdersKept, Reported
<1>2. DOMAIN exch' = DOMAIN exch /\ IntentsOf(journal') = IntentsOf(journal)
      /\ \A i \in IntentsOf(journal) : journal'[i] = journal[i]
  BY DEF JournalKept, OrdersKept
<1>3. QED BY <1>1, <1>2 DEF Tracks

LEMMA QuietTracking ==
  ASSUME HistoryInv, TrackInv, TypeOK', JournalKept, OrdersKept,
         \A o \in DOMAIN exch : Resting(o)' => Resting(o),
         Tracks(mem)', pc' # "reported" => Tracks(disk)', OpenReport', StillTracked'
  PROVE  TrackInv'
<1>1. OnePerCid'
  BY DEF TrackInv, OnePerCid, OrdersKept
<1>2. QED BY <1>1 DEF TrackInv

\* A call begins.
LEMMA BeginTracking ==
  ASSUME HistoryInv, MemoryAhead, RecordedInv, TrackInv, TypeOK', Begins, pc # "reported"
  PROVE  TrackInv'
<1> USE DEF InOrder
<1>1. PICK c \in Cids, s \in Signals, q \in Int :
             \E total, tif, leg, base : PrepareOrder(c, s, q, total, tif, leg, base)
  BY DEF Begins
<1>2. TypeOK /\ LoadState \in RuntimeState
  BY LoadStateType DEF HistoryInv, TypeOK
<1>3. /\ c \notin Intended /\ Log(Entry("order_intent", c, s, "None", 0))
      /\ pc' = "logged" /\ UNCHANGED <<disk, exch>>
      /\ mem'.open = LoadState.open /\ mem'.day = LoadState.day
  BY <1>1, <1>2, RecordPreSubmitType DEF PrepareOrder
<1>4. /\ IntentsOf(journal) \subseteq IntentsOf(journal')
      /\ ReportsOf(journal') = ReportsOf(journal)
      /\ \A i \in DOMAIN journal : journal'[i] = journal[i]
  BY <1>2, <1>3, AppendIntent
<1>5. Tracks(disk) /\ Tracks(LoadState)
  BY LoadTracks DEF TrackInv
<1>6. \A o \in DOMAIN exch : Reported(exch[o].cid)' <=> Reported(exch[o].cid)
  BY <1>3, <1>4 DEF Reported, ReportsOf
<1>7. Tracks(disk)' /\ Tracks(mem)'
  BY <1>3, <1>4, <1>5, <1>6 DEF Tracks, Resting, IntentsOf
<1>8. OpenReport' /\ StillTracked' /\ OnePerCid'
  BY <1>3 DEF OpenReport, StillTracked, InStart, TrackInv, OnePerCid
<1>9. QED BY <1>7, <1>8 DEF TrackInv

\* An order is accepted: its cid is new to the exchange, and not reported yet.
LEMMA PlacementTracking ==
  ASSUME DedupsCids, HistoryInv, TrackInv, TypeOK',
         PlaceOrder \/ PlaceFailed \/ PlaceLost \/ PlaceDuplicate
  PROVE  TrackInv'
<1> USE DEF InOrder, locals
<1>1. TypeOK /\ call \in Call /\ pc = "saved" /\ ~Reported(call.cid)
  BY DEF HistoryInv, TypeOK, CallUnderWay, PlaceOrder, PlaceFailed, PlaceLost,
     PlaceDuplicate, Submits
<1>2. Tracks(disk) /\ Tracks(mem) /\ OnePerCid
  BY <1>1 DEF TrackInv
<1>3. /\ JournalKept /\ disk' = disk /\ mem' \in {mem, disk}
      /\ pc' \in {"saved", "idle", "placed"}
  <2>1. CASE PlaceOrder
    BY <2>1 DEF PlaceOrder, JournalKept
  <2>2. ASSUME NEW retryable \in BOOLEAN, RetryOrReturn(retryable)
        PROVE  <1>3
    BY <1>1, <2>2, ErrorKept DEF RetryOrReturn
  <2>3. QED BY <2>1, <2>2 DEF PlaceFailed, PlaceLost, PlaceDuplicate
<1>4. OpenReport' /\ StillTracked'
  BY <1>3 DEF OpenReport, StillTracked, InStart
<1>5. CASE exch' = exch
  <2>1. OrdersKept /\ \A o \in DOMAIN exch : Resting(o)' => Resting(o)
    BY <1>5 DEF OrdersKept, Resting
  <2>2. Tracks(mem)' /\ Tracks(disk)'
    BY <1>1, <1>2, <1>3, <2>1, TracksKept
  <2>3. QED BY <1>3, <1>4, <2>1, <2>2, QuietTracking
<1>6. CASE Taken /\ ~Refused
  <2>1. Taken
    BY <1>6
  <2>2. PICK k \in Nat : k = Len(exch) + 1
    BY <1>1 DEF TypeOK
  <2>3. /\ DOMAIN exch' = DOMAIN exch \cup {k} /\ k \notin DOMAIN exch
        /\ exch'[k].cid = call.cid
        /\ \A o \in DOMAIN exch : exch'[o] = exch[o]
    BY <1>1, <2>1, <2>2, TakenLast
  <2>4. \A o \in DOMAIN exch : exch[o].cid # call.cid
    BY <1>6 DEF Refused, Known
  <2>5. OnePerCid'
    BY <1>2, <2>3, <2>4 DEF OnePerCid
  <2>6. /\ IntentsOf(journal') = IntentsOf(journal)
        /\ \A i \in IntentsOf(journal) : journal'[i] = journal[i]
        /\ \A c : Reported(c)' <=> Reported(c)
    BY <1>3, KeptIntended DEF JournalKept
  <2>7. ASSUME NEW o \in DOMAIN exch', Resting(o)', Reported(exch[o].cid)'
        PROVE  o \in DOMAIN exch /\ exch'[o] = exch[o] /\ Resting(o) /\ Reported(exch[o].cid)
    <3>1. \E c : c = exch'[o].cid /\ Reported(c)
      BY <2>6, <2>7 DEF Reported
    <3>2. o # k
      BY <1>1, <2>3, <3>1
    <3>3. QED BY <2>3, <2>7, <3>1, <3>2 DEF Resting
  <2>8. Tracks(mem)' /\ Tracks(disk)'
    BY <1>2, <1>3, <2>6, <2>7 DEF Tracks
  <2>9. QED BY <1>4, <2>5, <2>8 DEF TrackInv
<1>7. QED BY <1>5, <1>6, TakenByPlacement DEF PlaceOrder, PlaceFailed, PlaceLost, PlaceDuplicate

\* Asking the exchange, canceling, and what the exchange does by itself.
LEMMA ReportingTracking ==
  ASSUME HistoryInv, TrackInv, TypeOK',
         \/ FirstReport \/ PollReport \/ RecheckReport \/ QueryError \/ CancelOrder
         \/ Environment
  PROVE  TrackInv'
<1> USE DEF InOrder, InStart, locals
<1>1. TypeOK
  BY DEF HistoryInv
<1>2. UNCHANGED journal => JournalKept
  BY DEF JournalKept
<1>3. UNCHANGED exch => OrdersKept /\ \A o \in DOMAIN exch : Resting(o)' => Resting(o)
  BY DEF OrdersKept, Resting
<1>4. CASE FirstReport \/ PollReport
  <2>1. /\ pc \in {"placed", "poll"} /\ UNCHANGED <<journal, exch, mem, disk, oid, todo, kept>>
        /\ rep' = ReportOf(oid) /\ oid \in DOMAIN exch
        /\ pc' \in {"poll", "cancel", "settle"}
        /\ pc' # "settle" => rep'.status \notin DoneStatus
    BY <1>1, <1>4 DEF FirstReport, PollReport, Received, AfterPolls, TypeOK
  <2>2. Tracks(mem)' /\ Tracks(disk)'
    BY <1>1, <1>2, <1>3, <2>1, TracksKept DEF TrackInv
  <2>3. OpenReport'
    BY <1>1, <2>1, FinalReport DEF OpenReport, Resting
  <2>4. StillTracked'
    BY <2>1 DEF StillTracked
  <2>5. QED BY <1>2, <1>3, <2>1, <2>2, <2>3, <2>4, QuietTracking
<1>5. CASE RecheckReport
  <2>1. /\ pc = "recheck" /\ UNCHANGED <<journal, exch, mem, disk, oid, todo, kept>>
        /\ rep' \in {ReportOf(oid), rep} /\ oid \in DOMAIN exch /\ pc' = "settle"
    BY <1>1, <1>5 DEF RecheckReport, RecheckedReports, TypeOK
  <2>2. Tracks(mem)' /\ Tracks(disk)'
    BY <1>1, <1>2, <1>3, <2>1, TracksKept DEF TrackInv
  <2>3. OpenReport'
    BY <1>1, <2>1, FinalReport DEF OpenReport, Resting, TrackInv
  <2>4. StillTracked'
    BY <2>1 DEF StillTracked
  <2>5. QED BY <1>2, <1>3, <2>1, <2>2, <2>3, <2>4, QuietTracking
<1>6. CASE QueryError
  <2>1. pc \in {"placed", "poll"} /\ pc' = "idle" /\ mem' = disk
        /\ UNCHANGED <<exch, disk>>
    BY <1>6 DEF QueryError, ReturnError
  <2>2. JournalKept
    BY <1>1, <1>6, QueryErrorKept
  <2>3. Tracks(mem)' /\ Tracks(disk)'
    BY <1>1, <1>3, <2>1, <2>2, TracksKept DEF TrackInv
  <2>4. OpenReport' /\ StillTracked'
    BY <2>1 DEF OpenReport, StillTracked
  <2>5. QED BY <1>3, <2>1, <2>2, <2>3, <2>4, QuietTracking
<1>7. CASE CancelOrder \/ \E o \in DOMAIN exch : ExchangeFill(o) \/ ExchangeCancel(o)
  <2>1. OrdersKept /\ \A o \in DOMAIN exch : Resting(o)' => Resting(o)
    BY <1>1, <1>7, OrderMoves
  <2>2. /\ UNCHANGED <<journal, mem, disk, oid, rep, todo, kept>>
        /\ pc' = pc \/ (pc = "cancel" /\ pc' = "recheck") \/ (pc = "rcancel" /\ pc' = "rrecheck")
    BY <1>7 DEF CancelOrder, ExchangeFill, ExchangeCancel
  <2>3. Tracks(mem)' /\ (pc' # "reported" => Tracks(disk)')
    BY <1>1, <1>2, <2>1, <2>2, TracksKept DEF TrackInv
  <2>4. OpenReport'
    <3>1. pc' = "settle" /\ oid \in DOMAIN exch' /\ Resting(oid)'
            => pc = "settle" /\ oid \in DOMAIN exch /\ Resting(oid)
      BY <2>1, <2>2 DEF OrdersKept
    <3>2. QED BY <2>2, <3>1 DEF OpenReport, TrackInv
  <2>5. StillTracked'
    <3>1. \A x \in mem.open : x.oid \in DOMAIN exch
      BY <1>1 DEF TypeOK
    <3>2. QED BY <2>1, <2>2, <3>1 DEF StillTracked, TrackInv
  <2>6. QED BY <1>2, <2>1, <2>2, <2>3, <2>4, <2>5, QuietTracking
<1>8. CASE Tick
  <2>1. UNCHANGED <<pc, journal, exch, mem, disk, oid, rep, todo, kept>>
    BY <1>8 DEF Tick
  <2>2. Tracks(mem)' /\ (pc' # "reported" => Tracks(disk)')
    BY <1>1, <1>2, <1>3, <2>1, TracksKept DEF TrackInv
  <2>3. OpenReport' /\ StillTracked'
    BY <2>1 DEF OpenReport, StillTracked, TrackInv, Resting
  <2>4. QED BY <1>2, <1>3, <2>1, <2>2, <2>3, QuietTracking
<1>9. QED BY <1>4, <1>5, <1>6, <1>7, <1>8 DEF Environment

\* A report is settled: the order it is about is tracked if it may still rest.
LEMMA SettleTracking ==
  ASSUME HistoryInv, TrackInv, TypeOK', SettleReport
  PROVE  TrackInv'
<1> USE DEF InOrder, InStart, locals
<1>1. /\ TypeOK /\ rep \in Report /\ call \in Call /\ call.cid \in Cids /\ call.sig \in Signals
      /\ oid \in Nat /\ mem \in RuntimeState
  BY DEF HistoryInv, TypeOK, SettleReport, Call
<1>2. PICK k \in Nat : k = Len(journal) + 1
  BY <1>1 DEF TypeOK
<1>3. /\ IntentsOf(journal') = IntentsOf(journal)
      /\ ReportsOf(journal') = ReportsOf(journal) \cup {k}
      /\ journal'[k].cid = call.cid
      /\ \A i \in DOMAIN journal : journal'[i] = journal[i]
  BY <1>1, <1>2, AppendReport DEF SettleReport, Report
<1>4. pc = "settle" /\ pc' = "reported" /\ UNCHANGED <<exch, call, disk, oid, rep, todo, kept>>
  BY DEF SettleReport
<1>5. /\ mem'.day = mem.day
      /\ \A x \in mem.open : x.oid # oid => x \in mem'.open
      /\ rep.status \in OpenStatus => \E x \in mem'.open : x.oid = oid
  <2>1. mem' = FinalizeStateFromReport(mem, oid, rep)
    BY DEF SettleReport
  <2>2. mem'.day = mem.day
    BY <1>1, <2>1, FinalizeType
  <2>3. mem'.open = IF rep.status \in OpenStatus
                    THEN IF \E x \in mem.open : x.oid = oid THEN mem.open
                         ELSE mem.open \cup {[oid |-> oid, cid |-> rep.cid]}
                    ELSE {x \in mem.open : x.oid # oid}
    BY <1>1, <2>1 DEF FinalizeStateFromReport, RuntimeState
  <2>4. CASE rep.status \in OpenStatus
    <3>1. CASE \E x \in mem.open : x.oid = oid
      BY <2>2, <2>3, <2>4, <3>1
    <3>2. CASE ~\E x \in mem.open : x.oid = oid
      <4>1. mem'.open = mem.open \cup {[oid |-> oid, cid |-> rep.cid]}
        BY <2>3, <2>4, <3>2
      <4>2. [oid |-> oid, cid |-> rep.cid].oid = oid
        OBVIOUS
      <4>3. \E x \in mem'.open : x.oid = oid
        BY <4>1, <4>2
      <4>4. QED BY <2>2, <4>1, <4>3
    <3>3. QED BY <3>1, <3>2
  <2>5. CASE rep.status \notin OpenStatus
    BY <2>2, <2>3, <2>5
  <2>6. QED BY <2>4, <2>5
<1>6. ASSUME NEW o \in DOMAIN exch, Resting(o), Reported(exch[o].cid)'
      PROVE  \/ \E x \in mem'.open : x.oid = o
             \/ \E i \in IntentsOf(journal) :
                  journal[i].cid = exch[o].cid /\ Day(journal[i].at) # mem.day
  <2>1. CASE o = oid
    BY <1>4, <1>5, <1>6, <2>1 DEF TrackInv, OpenReport
  <2>2. CASE o # oid
    <3>1. Mode = "Live"
      BY ConstantsAssumption DEF HistoryInv, PaperNeverPlaces
    <3>2. oid \in DOMAIN exch /\ exch[oid].cid = call.cid
      BY <1>4, <3>1 DEF HistoryInv, CallOrder
    <3>3. exch[o].cid # call.cid
      BY <2>2, <3>2 DEF TrackInv, OnePerCid
    <3>4. Reported(exch[o].cid)
      BY <1>3, <1>4, <1>6, <3>3 DEF Reported, ReportsOf
    <3>5. QED BY <1>5, <1>6, <2>2, <3>4 DEF TrackInv, Tracks
  <2>3. QED BY <2>1, <2>2
<1>7. Tracks(mem)'
  <2>1. \A o \in DOMAIN exch : Resting(o)' <=> Resting(o)
    BY <1>4 DEF Resting
  <2>2. QED BY <1>3, <1>4, <1>5, <1>6, <2>1 DEF Tracks, IntentsOf
<1>8. OnePerCid' /\ OpenReport' /\ StillTracked'
  BY <1>4 DEF TrackInv, OnePerCid, OpenReport, StillTracked
<1>9. QED BY <1>4, <1>7, <1>8 DEF TrackInv

\* The states are saved; a paper order fills; a call ends without a report.
LEMMA SettlementTracking ==
  ASSUME HistoryInv, TrackInv, TypeOK',
         SaveReport \/ SavePreSubmit \/ PaperFill \/ FallbackRefused
  PROVE  TrackInv'
<1> USE DEF InOrder, InStart, locals
<1>1. TypeOK /\ UNCHANGED <<journal, exch>>
  BY DEF HistoryInv, SaveReport, SavePreSubmit, PaperFill, FallbackRefused, ReturnError
<1>2. JournalKept /\ OrdersKept /\ \A o \in DOMAIN exch : Resting(o)' => Resting(o)
  BY <1>1 DEF JournalKept, OrdersKept, Resting
<1>3. CASE SaveReport \/ SavePreSubmit
  <2>1. disk' = mem /\ mem' = mem /\ pc' \in {"idle", "fallback", "saved"}
    BY <1>3 DEF SaveReport, SavePreSubmit
  <2>2. Tracks(mem)' /\ Tracks(disk)'
    BY <1>1, <1>2, <2>1, TracksKept DEF TrackInv
  <2>3. OpenReport' /\ StillTracked'
    BY <2>1 DEF OpenReport, StillTracked
  <2>4. QED BY <1>2, <2>2, <2>3, QuietTracking
<1>4. CASE PaperFill
  <2>1. pc = "saved" /\ Mode = "Paper" /\ disk' = disk /\ mem' = mem /\ pc' = "settle"
    BY <1>4 DEF PaperFill
  <2>2. Tracks(mem)' /\ Tracks(disk)'
    BY <1>1, <1>2, <2>1, TracksKept DEF TrackInv
  <2>3. exch' = <<>>
    BY <1>1, <2>1 DEF HistoryInv, PaperNeverPlaces
  <2>4. OpenReport' /\ StillTracked'
    BY <2>1, <2>3 DEF OpenReport, StillTracked
  <2>5. QED BY <1>2, <2>2, <2>4, QuietTracking
<1>5. CASE FallbackRefused
  <2>1. pc = "fallback" /\ pc' = "idle" /\ mem' = disk /\ disk' = disk
    BY <1>5 DEF FallbackRefused, ReturnError
  <2>2. Tracks(mem)' /\ Tracks(disk)'
    BY <1>1, <1>2, <2>1, TracksKept DEF TrackInv
  <2>3. OpenReport' /\ StillTracked'
    BY <2>1 DEF OpenReport, StillTracked
  <2>4. QED BY <1>2, <2>2, <2>3, QuietTracking
<1>6. QED BY <1>3, <1>4, <1>5

\* A tracked order is decided by a report: it is dropped only if it rests no more.
LEMMA DecideTracking ==
  ASSUME StillTracked, pc \in InStart, NEW x \in todo, NEW r, Decide(x, r),
         Resting(x.oid) => r.status \in OpenStatus, UNCHANGED <<mem, exch>>
  PROVE  StillTracked'
<1>1. todo' = todo \ {x} /\ (r.status \in OpenStatus => kept' = kept \cup {x}) /\ kept \subseteq kept'
  BY DEF Decide
<1>2. QED BY <1>1 DEF StillTracked, Resting

\* The life of the process and the startup reconciliation.
LEMMA LifeTracking ==
  ASSUME HistoryInv, MemoryAhead, RecordedInv, TrackInv, TypeOK',
         \/ Start \/ Stop \/ ReconcileError \/ ReconcileSave
         \/ \E x \in todo : ReconcileQuery(x) \/ ReconcileRecheck(x) \/ ReconcilePrune(x)
  PROVE  TrackInv'
<1> USE DEF InOrder, InStart, locals
<1>1. TypeOK /\ UNCHANGED <<journal, exch>> /\ pc # "reported" /\ pc' \notin InOrder
  BY DEF HistoryInv, Start, Stop, ReconcileError, ReturnError, ReconcileSave, ReconcileQuery,
     ReconcileRecheck, ReconcilePrune, Decide, Tracked
<1>2. JournalKept /\ OrdersKept /\ \A o \in DOMAIN exch : Resting(o)' => Resting(o)
  BY <1>1 DEF JournalKept, OrdersKept, Resting
<1>3. Tracks(mem) /\ Tracks(disk) /\ Tracks(LoadState)
  BY <1>1, LoadTracks DEF TrackInv
<1>4. CASE Start
  <2>1. /\ disk' = disk
        /\ \/ pc' = "reconcile" /\ mem' = LoadState /\ todo' = mem'.open
           \/ pc' = "idle" /\ mem' = disk
    BY <1>4 DEF Start
  <2>2. Tracks(disk)'
    BY <1>1, <1>2, <1>3, <2>1, TracksKept
  <2>3. Tracks(mem)'
    BY <1>1, <1>2, <1>3, <2>1, TracksKept
  <2>4. OpenReport' /\ StillTracked'
    BY <2>1 DEF OpenReport, StillTracked
  <2>5. QED BY <1>2, <2>2, <2>3, <2>4, QuietTracking
<1>5. CASE Stop \/ ReconcileError
  <2>1. disk' = disk /\ mem' \in {mem, disk} /\ pc' \in {"idle", "down"}
    BY <1>5 DEF Stop, ReconcileError, ReturnError
  <2>2. Tracks(mem)' /\ Tracks(disk)'
    BY <1>1, <1>2, <1>3, <2>1, TracksKept
  <2>3. OpenReport' /\ StillTracked'
    BY <2>1 DEF OpenReport, StillTracked
  <2>4. QED BY <1>2, <2>2, <2>3, QuietTracking
<1>6. CASE ReconcileSave
  <2>1. /\ disk'.open = kept /\ disk'.day = mem.day /\ mem' = disk'
        /\ pc = "reconcile" /\ pc' = "idle" /\ todo = {}
    BY <1>1, <1>6 DEF ReconcileSave, TypeOK, RuntimeState
  <2>2. \A o \in DOMAIN exch : Resting(o) /\ (\E x \in mem.open : x.oid = o)
          => \E y \in kept : y.oid = o
    BY <2>1 DEF TrackInv, StillTracked
  <2>3. Tracks(disk)' /\ Tracks(mem)'
    <3>1. \A o \in DOMAIN exch : /\ Resting(o)' <=> Resting(o)
                                 /\ Reported(exch[o].cid)' <=> Reported(exch[o].cid)
      BY <1>1 DEF Resting, Reported
    <3>2. QED BY <1>1, <1>3, <2>1, <2>2, <3>1 DEF Tracks
  <2>4. OpenReport' /\ StillTracked'
    BY <2>1 DEF OpenReport, StillTracked
  <2>5. QED BY <1>2, <2>3, <2>4, QuietTracking
<1>7. ASSUME NEW x \in todo, ReconcileQuery(x) \/ ReconcileRecheck(x) \/ ReconcilePrune(x)
      PROVE  TrackInv'
  <2>1. UNCHANGED <<mem, disk>> /\ x.oid \in DOMAIN exch /\ pc \in {"reconcile", "rrecheck"}
    BY <1>1, <1>7 DEF ReconcileQuery, ReconcileRecheck, ReconcilePrune, TypeOK, Tracked
  <2>2. Tracks(mem)' /\ Tracks(disk)'
    BY <1>1, <1>2, <1>3, <2>1, TracksKept
  <2>3. OpenReport' /\ StillTracked'
    <3>1. CASE ReconcileQuery(x)
      <4>1. CASE ReportOf(x.oid).status \in OpenStatus /\ Policy = "ioc"
        <5>1. pc' = "rcancel" /\ rep' = ReportOf(x.oid) /\ UNCHANGED <<todo, kept>>
              /\ pc = "reconcile"
          BY <3>1, <4>1 DEF ReconcileQuery, Tracked
        <5>2. QED
          BY <1>1, <2>1, <4>1, <5>1 DEF OpenReport, StillTracked, TrackInv, Resting
      <4>2. CASE ~(ReportOf(x.oid).status \in OpenStatus /\ Policy = "ioc")
        <5>1. Decide(x, ReportOf(x.oid)) /\ pc' = "reconcile"
          BY <3>1, <4>2 DEF ReconcileQuery, Decide
        <5>2. StillTracked'
          BY <1>1, <2>1, <5>1, FinalReport, DecideTracking DEF TrackInv
        <5>3. QED BY <5>1, <5>2 DEF OpenReport
      <4>3. QED BY <4>1, <4>2
    <3>2. CASE ReconcileRecheck(x)
      <4>1. pc = "rrecheck" /\ x.oid = oid
        BY <3>2 DEF ReconcileRecheck
      <4>2. PICK r \in {ReportOf(oid), rep} : Decide(x, r)
        BY <3>2 DEF ReconcileRecheck, RecheckedReports
      <4>3. Resting(x.oid) => r.status \in OpenStatus
        BY <1>1, <2>1, <4>1, <4>2, FinalReport DEF TrackInv, OpenReport
      <4>4. StillTracked'
        BY <1>1, <2>1, <4>2, <4>3, DecideTracking DEF TrackInv
      <4>5. QED BY <4>2, <4>4 DEF OpenReport, Decide
    <3>3. CASE ReconcilePrune(x)
      <4>1. ~Resting(x.oid) /\ todo' = todo \ {x} /\ kept' = kept /\ pc' = pc
            /\ pc = "reconcile"
        BY <3>3 DEF ReconcilePrune, Tracked
      <4>2. QED BY <1>1, <2>1, <4>1 DEF StillTracked, OpenReport, TrackInv, Resting
    <3>4. QED BY <1>7, <3>1, <3>2, <3>3
  <2>4. QED BY <1>2, <2>2, <2>3, QuietTracking
<1>8. QED BY <1>4, <1>5, <1>6, <1>7

\* Where the process and its files do not fail and the exchange refuses a cid
\* it knows, an order that rests between calls is tracked in the file, unless
\* its call failed before its report or the day has changed since.
THEOREM RestingTracked ==
  ASSUME Faults \cap {"crash", "state_lost", "io_error"} = {}, DedupsCids
  PROVE  Spec => []RestingOrdersTracked
<1>1. "state_lost" \notin Faults /\ ~Crash /\ ~IoError
  BY DEF Crash, IoError
<1>2. Init => TrackInv
  BY DEF Init, TrackInv, OnePerCid, Tracks, OpenReport, StillTracked, InStart
<1>3. HistoryInv /\ MemoryAhead /\ RecordedInv /\ TrackInv /\ TypeOK' /\ [Next]_vars => TrackInv'
  <2> SUFFICES ASSUME HistoryInv, MemoryAhead, RecordedInv, TrackInv, TypeOK', [Next]_vars
               PROVE  TrackInv'
    OBVIOUS
  <2>1. CASE (\E s \in Signals, c \in Cids : ExecuteSignal(s, c)) \/ \E c \in Cids : ExecuteFallback(c)
    <3>1. ASSUME NEW s \in Signals, NEW c \in Cids, ExecuteSignal(s, c)
          PROVE  Begins /\ pc # "reported"
      <4>1. HybridIocQty(s.qty) \in Int /\ s.qty \in Int
        BY SignalArithmetic
      <4>2. QED BY <3>1, <4>1 DEF ExecuteSignal, Begins
    <3>2. ASSUME NEW c \in Cids, ExecuteFallback(c) PROVE Begins /\ pc # "reported"
      <4>1. call.sig \in Signals /\ FallbackQty \in Int
        BY <3>2 DEF ExecuteFallback, HistoryInv, TypeOK, Call, Report, FallbackQty
      <4>2. QED BY <3>2, <4>1 DEF ExecuteFallback, Begins
    <3>3. QED BY <2>1, <3>1, <3>2, BeginTracking
  <2>2. CASE PlaceOrder \/ PlaceFailed \/ PlaceLost \/ PlaceDuplicate
    BY <2>2, PlacementTracking
  <2>3. CASE FirstReport \/ PollReport \/ RecheckReport \/ QueryError \/ CancelOrder
             \/ Environment
    BY <2>3, ReportingTracking
  <2>4. CASE SettleReport
    BY <2>4, SettleTracking
  <2>5. CASE SaveReport \/ SavePreSubmit \/ PaperFill \/ FallbackRefused
    BY <2>5, SettlementTracking
  <2>6. CASE \/ Start \/ Stop \/ ReconcileError \/ ReconcileSave
             \/ \E x \in todo : ReconcileQuery(x) \/ ReconcileRecheck(x) \/ ReconcilePrune(x)
    BY <2>6, LifeTracking
  <2>7. CASE UNCHANGED vars
    BY <2>7 DEF vars, locals, TrackInv, OnePerCid, Tracks, OpenReport, StillTracked, Resting,
       Reported
  <2>8. QED
    BY <1>1, <2>1, <2>2, <2>3, <2>4, <2>5, <2>6, <2>7 DEF Next, EngineStep
<1>4. TrackInv => RestingOrdersTracked
  BY DEF TrackInv, Tracks, RestingOrdersTracked, Reported
<1>5. QED
  BY <1>1, <1>2, <1>3, <1>4, HistoryInvariant, AheadInvariant, RecordedInvariant, TypeCorrect,
     PTL DEF Spec

(***************************************************************************)
(* The recorded exposure is not overstated.  What is recorded of a day is  *)
(* at most what the orders of the day whose report is in the journal have  *)
(* filled, in memory as in the file; and a report that is about to be      *)
(* recorded says no more than what its order has filled by then.           *)
(***************************************************************************)

\* What the orders in x that the journal j reports, and intended on day d, have
\* filled, order by order.
Worth(x, j, d) ==
  [o \in DOMAIN x |->
     IF /\ \E i \in ReportsOf(j) : j[i].cid = x[o].cid
        /\ \A i \in IntentsOf(j) : j[i].cid = x[o].cid => Day(j[i].at) = d
     THEN x[o].filled * x[o].price ELSE 0]

CallDay ==
  pc \in InOrder =>
    \A i \in IntentsOf(journal) : journal[i].cid = call.cid => Day(journal[i].at) = mem.day

ReportTrue ==
  pc \in {"cancel", "recheck", "settle"} =>
    rep.filled <= exch[oid].filled /\ rep.price = exch[oid].price

CountedInv ==
  Mode = "Live" =>
    /\ CallDay /\ ReportTrue
    /\ mem.exposure <= Total(Worth(exch, journal, mem.day))
    /\ disk.exposure <= Total(Worth(exch, journal, disk.day))

\* The orders keep what they are and fill more; the reports stay; and what is
\* intended anew is no order yet.
HistoryGrows ==
  /\ Len(exch) <= Len(exch')
  /\ \A o \in DOMAIN exch :
       /\ exch'[o].cid = exch[o].cid /\ exch'[o].price = exch[o].price
       /\ exch'[o].filled >= exch[o].filled
  /\ \A i \in ReportsOf(journal) : i \in ReportsOf(journal') /\ journal'[i] = journal[i]
  /\ \A i \in IntentsOf(journal') :
       \/ i \in IntentsOf(journal) /\ journal'[i] = journal[i]
       \/ journal'[i].cid \notin Intended

\* The worth of the orders is a list of numbers, one for each order.
LEMMA WorthType ==
  ASSUME NEW x \in Seq(ExchangeOrder), NEW j, NEW d
  PROVE  /\ Worth(x, j, d) \in Seq(Nat) /\ Len(Worth(x, j, d)) = Len(x) /\ Len(x) \in Nat
         /\ DOMAIN x = 1..Len(x)
         /\ Total(Worth(x, j, d)) \in Nat
<1> DEFINE w == Worth(x, j, d)
<1>1. Len(x) \in Nat /\ DOMAIN x = 1..Len(x) /\ \A o \in 1..Len(x) : x[o] \in ExchangeOrder
  BY LenProperties, ElementOfSeq
<1>2. ASSUME NEW o \in 1..Len(x) PROVE x[o].filled * x[o].price \in Nat
  <2>1. x[o].filled \in Nat /\ x[o].price \in Nat
    BY <1>1 DEF ExchangeOrder
  <2>2. \A m \in Nat, n \in Nat : m * n \in Nat
    OBVIOUS
  <2>3. QED BY <2>1, <2>2
<1>3. w \in [1..Len(x) -> Nat]
  BY <1>1, <1>2 DEF Worth
<1> HIDE DEF w
<1>4. w \in Seq(Nat) /\ Len(w) = Len(x)
  BY <1>1, <1>3, SameLength
<1>5. Total(w) \in Nat
  BY <1>4, TotalType
<1>6. QED BY <1>1, <1>4, <1>5 DEF w

\* The fills of a day are never worth less than they were.
LEMMA WorthGrows ==
  ASSUME HistoryInv, TypeOK', HistoryGrows, NEW d
  PROVE  /\ Total(Worth(exch, journal, d)) <= Total(Worth(exch', journal', d))
         /\ \A o \in 1..Len(exch) : Worth(exch, journal, d)[o] <= Worth(exch', journal', d)[o]
<1> DEFINE v == Worth(exch, journal, d)
           w == Worth(exch', journal', d)
<1>1. exch \in Seq(ExchangeOrder) /\ exch' \in Seq(ExchangeOrder)
  BY DEF HistoryInv, TypeOK
<1>2. /\ v \in Seq(Nat) /\ Len(v) = Len(exch) /\ Len(exch) \in Nat /\ DOMAIN exch = 1..Len(exch)
      /\ w \in Seq(Nat) /\ Len(w) = Len(exch') /\ Len(exch') \in Nat
      /\ DOMAIN exch' = 1..Len(exch')
  BY <1>1, WorthType
<1>3. Len(exch) <= Len(exch')
  BY DEF HistoryGrows
<1>4. ASSUME NEW o \in 1..Len(exch) PROVE v[o] <= w[o]
  <2>1. o \in DOMAIN exch /\ o \in DOMAIN exch'
    BY <1>2, <1>3
  <2>2. /\ exch[o].filled \in Nat /\ exch[o].price \in Nat
        /\ exch'[o].filled \in Nat /\ exch'[o].price \in Nat
        /\ exch'[o].price = exch[o].price /\ exch'[o].filled >= exch[o].filled
        /\ exch'[o].cid = exch[o].cid
    <3>1. exch[o] \in ExchangeOrder /\ exch'[o] \in ExchangeOrder
      BY <1>1, <2>1
    <3>2. QED BY <2>1, <3>1 DEF ExchangeOrder, HistoryGrows
  <2> DEFINE a == exch[o].filled * exch[o].price
             b == exch'[o].filled * exch'[o].price
             counts == /\ \E i \in ReportsOf(journal) : journal[i].cid = exch[o].cid
                       /\ \A i \in IntentsOf(journal) :
                            journal[i].cid = exch[o].cid => Day(journal[i].at) = d
             counts2 == /\ \E i \in ReportsOf(journal') : journal'[i].cid = exch'[o].cid
                        /\ \A i \in IntentsOf(journal') :
                             journal'[i].cid = exch'[o].cid => Day(journal'[i].at) = d
  <2>3. a \in Nat /\ b \in Nat /\ a <= b
    <3>1. \A m \in Nat, n \in Nat, p \in Nat : m * p \in Nat /\ (m <= n => m * p <= n * p)
      OBVIOUS
    <3>2. QED BY <2>2, <3>1
  <2>4. v[o] = IF counts THEN a ELSE 0
    BY <2>1 DEF Worth
  <2>5. w[o] = IF counts2 THEN b ELSE 0
    BY <2>1 DEF Worth
  <2>6. counts => counts2
    <3>1. exch[o].cid \in Intended
      BY <2>1 DEF HistoryInv, PlacedIntended
    <3>2. QED BY <2>2, <3>1 DEF HistoryGrows
  <2> HIDE DEF a, b, counts, counts2, v, w
  <2>7. QED BY <2>3, <2>4, <2>5, <2>6
<1> HIDE DEF v, w
<1>5. Total(v) <= Total(w)
  BY <1>2, <1>3, <1>4, TotalLess
<1>6. QED BY <1>4, <1>5 DEF v, w

\* Orders that are kept are as many.
LEMMA KeptLength ==
  ASSUME TypeOK, TypeOK', OrdersKept PROVE Len(exch') = Len(exch) /\ Len(exch) \in Nat
<1>1. exch \in Seq(ExchangeOrder) /\ exch' \in Seq(ExchangeOrder)
  BY DEF TypeOK
<1>2. 1..Len(exch') = 1..Len(exch) /\ Len(exch) \in Nat
  BY <1>1, LenProperties DEF OrdersKept
<1>3. exch' \in [1..Len(exch) -> ExchangeOrder]
  BY <1>1, <1>2, LenProperties
<1>4. QED BY <1>2, <1>3, SameLength

\* The history grows, whatever the step.
LEMMA HistoryStep ==
  ASSUME HistoryInv, TypeOK', [Next]_vars PROVE HistoryGrows
<1> USE DEF locals
<1>1. TypeOK /\ exch \in Seq(ExchangeOrder)
  BY DEF HistoryInv, TypeOK
<1>2. \A o \in DOMAIN exch : exch[o].filled \in Nat
  BY <1>1, ReportType DEF ExchangeOrder
<1> DEFINE ExchGrows == /\ Len(exch) <= Len(exch')
                        /\ \A o \in DOMAIN exch :
                             /\ exch'[o].cid = exch[o].cid /\ exch'[o].price = exch[o].price
                             /\ exch'[o].filled >= exch[o].filled
           ReportsGrow == \A i \in ReportsOf(journal) :
                            i \in ReportsOf(journal') /\ journal'[i] = journal[i]
           NewIntents == \A i \in IntentsOf(journal') :
                           \/ i \in IntentsOf(journal) /\ journal'[i] = journal[i]
                           \/ journal'[i].cid \notin Intended
<1>3. exch' = exch => ExchGrows
  <2>1. Len(exch) \in Nat
    BY <1>1, LenProperties
  <2>2. QED BY <1>2, <2>1
<1>4. journal' = journal => ReportsGrow
  OBVIOUS
<1>5. IntentsKept => NewIntents
  BY DEF IntentsKept
<1>6. ASSUME Taken, call \in Call
      PROVE  ExchGrows
  <2>1. /\ DOMAIN exch' = DOMAIN exch \cup {Len(exch) + 1} /\ Len(exch') = Len(exch) + 1
        /\ \A o \in DOMAIN exch : exch'[o] = exch[o]
    BY <1>1, <1>6, TakenLast
  <2>2. Len(exch) <= Len(exch')
    BY <1>1, <2>1, LenProperties
  <2>3. QED BY <1>2, <2>1, <2>2
<1> HIDE DEF ExchGrows, NewIntents, ReportsGrow
<1>7. CASE Begins
  <2>1. PICK c \in Cids, s \in Signals, q \in Int :
               \E total, tif, leg, base : PrepareOrder(c, s, q, total, tif, leg, base)
    BY <1>7 DEF Begins
  <2>2. Log(Entry("order_intent", c, s, "None", 0)) /\ c \notin Intended /\ exch' = exch
    BY <2>1 DEF PrepareOrder
  <2>3. /\ IntentsOf(journal') = IntentsOf(journal) \cup {Len(journal) + 1}
        /\ journal'[Len(journal) + 1].cid = c
        /\ ReportsOf(journal') = ReportsOf(journal)
        /\ \A i \in DOMAIN journal : journal'[i] = journal[i]
    BY <1>1, <2>2, AppendIntent DEF Entry
  <2>4. NewIntents
    BY <2>2, <2>3 DEF IntentsOf, NewIntents
  <2>5. ReportsGrow
    BY <2>3 DEF ReportsOf, ReportsGrow
  <2>6. QED BY <1>3, <2>2, <2>4, <2>5 DEF HistoryGrows, ExchGrows, NewIntents, ReportsGrow
<1>8. CASE SettleReport
  <2>1. rep \in Report /\ call \in Call /\ call.cid \in Cids /\ call.sig \in Signals
    BY <1>1, <1>8 DEF TypeOK, SettleReport, Call, InOrder
  <2>2. /\ ReportsOf(journal') = ReportsOf(journal) \cup {Len(journal) + 1}
        /\ IntentsOf(journal') = IntentsOf(journal)
        /\ \A i \in DOMAIN journal : journal'[i] = journal[i]
    BY <1>1, <1>8, <2>1, AppendReport DEF SettleReport, Report
  <2>3. ReportsGrow
    BY <2>2 DEF ReportsOf, ReportsGrow
  <2>4. NewIntents
    BY <2>2 DEF IntentsOf, NewIntents
  <2>5. exch' = exch
    BY <1>8 DEF SettleReport
  <2>6. QED BY <1>3, <2>3, <2>4, <2>5 DEF HistoryGrows, ExchGrows, NewIntents, ReportsGrow
<1>9. CASE PlaceOrder \/ PlaceFailed \/ PlaceLost \/ PlaceDuplicate
  <2>1. call \in Call
    BY <1>1, <1>9 DEF TypeOK, PlaceOrder, PlaceFailed, PlaceLost, PlaceDuplicate, Submits, InOrder
  <2>2. ExchGrows
    <3>1. \/ exch' = exch
          \/ Taken
      BY <1>9, TakenByPlacement DEF PlaceFailed, PlaceDuplicate
    <3>2. QED BY <1>3, <1>6, <2>1, <3>1
  <2>3. JournalKept
    <3>1. journal' = journal \/ LogOrderError
      BY <1>9 DEF PlaceOrder, PlaceFailed, PlaceLost, PlaceDuplicate, RetryOrReturn
    <3>2. QED BY <1>1, <2>1, <3>1, ErrorKept
  <2>4. ReportsGrow /\ NewIntents
    BY <2>3 DEF JournalKept, ReportsGrow, NewIntents
  <2>5. QED BY <2>2, <2>4 DEF HistoryGrows, ExchGrows, NewIntents, ReportsGrow
<1>10. CASE CancelOrder \/ \E o \in DOMAIN exch : ExchangeFill(o) \/ ExchangeCancel(o)
  <2>1. /\ OrdersKept
        /\ \A o \in DOMAIN exch : exch'[o].price = exch[o].price /\ exch'[o].filled >= exch[o].filled
    BY <1>1, <1>10, OrderMoves
  <2>2. Len(exch') = Len(exch) /\ Len(exch) \in Nat
    BY <1>1, <2>1, KeptLength
  <2>3. ExchGrows
    BY <2>1, <2>2 DEF ExchGrows, OrdersKept
  <2>4. journal' = journal
    BY <1>10 DEF CancelOrder, ExchangeFill, ExchangeCancel
  <2>5. IntentsKept
    BY <2>4 DEF IntentsKept
  <2>6. QED BY <1>4, <1>5, <2>3, <2>4, <2>5 DEF HistoryGrows, ExchGrows, NewIntents, ReportsGrow
<1>11. ASSUME journal' = journal, exch' = exch PROVE HistoryGrows
  <2>1. IntentsKept
    BY <1>11 DEF IntentsKept
  <2>2. QED BY <1>3, <1>4, <1>5, <1>11, <2>1 DEF HistoryGrows, ExchGrows, NewIntents, ReportsGrow
<1>12. CASE FirstReport \/ PollReport \/ RecheckReport \/ PaperFill \/ Tick \/ Stop \/ UNCHANGED vars
            \/ FallbackRefused \/ IoError \/ ReconcileError \/ Start \/ Crash
            \/ SavePreSubmit \/ SaveReport \/ ReconcileSave
            \/ \E x \in todo : ReconcileQuery(x) \/ ReconcileRecheck(x) \/ ReconcilePrune(x)
  <2>1. journal' = journal /\ exch' = exch
    BY <1>12 DEF FirstReport, PollReport, Received, RecheckReport, PaperFill, Tick, Stop, vars,
       FallbackRefused, IoError, ReconcileError, ReturnError, Start, Crash,
       SavePreSubmit, SaveReport, ReconcileSave, ReconcileQuery, ReconcileRecheck, ReconcilePrune
  <2>2. QED BY <1>11, <2>1
<1>13. CASE (\E s \in Signals, c \in Cids : ExecuteSignal(s, c)) \/ \E c \in Cids : ExecuteFallback(c)
  BY <1>1, <1>7, <1>13, ExecutionBegins
<1>14. CASE QueryError
  <2>1. exch' = exch
    BY <1>14 DEF QueryError, ReturnError
  <2>2. JournalKept
    BY <1>1, <1>14, QueryErrorKept
  <2>3. ReportsGrow /\ NewIntents
    BY <2>2 DEF JournalKept, ReportsGrow, NewIntents
  <2>4. QED BY <1>3, <2>1, <2>3 DEF HistoryGrows, ExchGrows, NewIntents, ReportsGrow
<1>15. QED
  BY <1>8, <1>9, <1>10, <1>12, <1>13, <1>14 DEF Next, EngineStep, Environment

\* A report that is recorded adds no more than its order has filled, and of
\* its order nothing was counted before.
LEMMA SettleCounted ==
  ASSUME HistoryInv, CountedInv, TypeOK', HistoryGrows, SettleReport, Mode = "Live"
  PROVE  mem'.day = mem.day /\ mem'.exposure <= Total(Worth(exch', journal', mem.day))
<1> DEFINE v == Worth(exch, journal, mem.day)
           w == Worth(exch', journal', mem.day)
           n == rep.filled * rep.price
<1>1. TypeOK /\ exch \in Seq(ExchangeOrder) /\ pc = "settle" /\ exch' = exch
  BY DEF HistoryInv, TypeOK, SettleReport
<1>2. oid \in DOMAIN exch /\ exch[oid].cid = call.cid /\ ~Reported(call.cid)
  BY <1>1 DEF HistoryInv, CallOrder, CallUnderWay, InOrder
<1>3. rep \in Report /\ call \in Call /\ call.cid \in Cids /\ call.sig \in Signals
      /\ oid \in Nat /\ mem \in RuntimeState /\ mem.exposure \in Nat
  BY <1>1 DEF TypeOK, Call, InOrder, RuntimeState
<1>4. /\ rep.filled \in Nat /\ rep.price \in Nat /\ n \in Nat
      /\ exch[oid].filled \in Nat /\ exch[oid].price \in Nat
  <2>1. rep.filled \in Nat /\ rep.price \in Nat
    BY <1>3 DEF Report
  <2>2. exch[oid].filled \in Nat /\ exch[oid].price \in Nat
    BY <1>1, <1>2, ReportType DEF ExchangeOrder
  <2>3. \A a \in Nat, b \in Nat : a * b \in Nat
    OBVIOUS
  <2>4. QED BY <2>1, <2>2, <2>3
<1>5. /\ mem'.day = mem.day /\ mem'.exposure <= mem.exposure + n /\ mem'.exposure \in Nat
  <2>1. mem' = FinalizeStateFromReport(mem, oid, rep) /\ mem' \in RuntimeState
    BY DEF SettleReport, TypeOK
  <2>2. QED BY <1>3, <2>1, FinalizeType DEF RuntimeState
<1>6. mem.exposure <= Total(v)
  BY DEF CountedInv
<1>7. /\ v \in Seq(Nat) /\ w \in Seq(Nat) /\ Len(v) = Len(exch) /\ Len(w) = Len(exch)
      /\ Len(exch) \in Nat /\ DOMAIN exch = 1..Len(exch)
      /\ Total(v) \in Nat /\ Total(w) \in Nat
  BY <1>1, WorthType
<1>8. \A o \in 1..Len(exch) : v[o] <= w[o]
  BY WorthGrows
<1>9. v[oid] = 0
  BY <1>2 DEF Worth, Reported
<1>10. w[oid] = exch[oid].filled * exch[oid].price
  <2>1. /\ ReportsOf(journal') = ReportsOf(journal) \cup {Len(journal) + 1}
        /\ IntentsOf(journal') = IntentsOf(journal)
        /\ journal'[Len(journal) + 1].cid = call.cid
        /\ \A i \in DOMAIN journal : journal'[i] = journal[i]
    BY <1>1, <1>3, AppendReport DEF SettleReport, Report
  <2>2. \A i \in IntentsOf(journal) : journal[i].cid = call.cid => Day(journal[i].at) = mem.day
    BY <1>1 DEF CountedInv, CallDay, InOrder
  <2>3. \A i \in IntentsOf(journal') : journal'[i].cid = call.cid => Day(journal'[i].at) = mem.day
    BY <2>1, <2>2 DEF IntentsOf
  <2>4. \E i \in ReportsOf(journal') : journal'[i].cid = call.cid
    BY <2>1
  <2>5. QED BY <1>1, <1>2, <2>3, <2>4 DEF Worth
<1>11. n <= exch[oid].filled * exch[oid].price
  <2>1. rep.filled <= exch[oid].filled /\ rep.price = exch[oid].price
    BY <1>1 DEF CountedInv, ReportTrue
  <2>2. \A a \in Nat, b \in Nat, c \in Nat : a <= b => a * c <= b * c
    OBVIOUS
  <2>3. QED BY <1>4, <2>1, <2>2
<1>12. Total(v) + n <= Total(w)
  <2>1. oid \in 1..Len(v) /\ v[oid] + n <= w[oid]
    BY <1>2, <1>4, <1>7, <1>9, <1>10, <1>11
  <2> HIDE DEF v, w, n
  <2>2. Len(v) <= Len(w) /\ \A o \in 1..Len(v) : v[o] <= w[o]
    BY <1>7, <1>8
  <2>3. QED BY <1>4, <1>7, <2>1, <2>2, TotalPlus
<1> HIDE DEF v, n
<1>13. mem'.exposure <= Total(w)
  <2> HIDE DEF w
  <2>1. QED BY <1>3, <1>4, <1>5, <1>6, <1>7, <1>12
<1>14. QED BY <1>5, <1>13

\* What was recorded stays covered, and so does a day that begins with nothing.
LEMMA StillCounted ==
  ASSUME HistoryInv, CountedInv, TypeOK', HistoryGrows, Mode = "Live",
         NEW st, st.exposure \in Nat,
         \/ st.day = mem.day /\ st.exposure = mem.exposure
         \/ st.day = disk.day /\ st.exposure = disk.exposure
         \/ st.exposure = 0
  PROVE  st.exposure <= Total(Worth(exch', journal', st.day))
<1>1. exch \in Seq(ExchangeOrder) /\ exch' \in Seq(ExchangeOrder)
  BY DEF HistoryInv, TypeOK
<1>2. \A d : /\ Total(Worth(exch, journal, d)) \in Nat /\ Total(Worth(exch', journal', d)) \in Nat
             /\ Total(Worth(exch, journal, d)) <= Total(Worth(exch', journal', d))
  BY <1>1, WorthType, WorthGrows
<1>3. /\ mem.exposure <= Total(Worth(exch, journal, mem.day))
      /\ disk.exposure <= Total(Worth(exch, journal, disk.day))
  BY DEF CountedInv
<1>4. CASE st.exposure = 0
  BY <1>2, <1>4
<1>5. CASE st.day = mem.day /\ st.exposure = mem.exposure
  BY <1>2, <1>3, <1>5
<1>6. CASE st.day = disk.day /\ st.exposure = disk.exposure
  BY <1>2, <1>3, <1>6
<1>7. QED BY <1>4, <1>5, <1>6

\* A step begins a call or goes on with the one it finds.
LEMMA CallGoesOn ==
  ASSUME HistoryInv, [Next]_vars, pc' \in InOrder
  PROVE  Begins \/ (pc \in InOrder /\ call' = call /\ mem'.day = mem.day)
<1> USE DEF InOrder, locals
<1>1. TypeOK
  BY DEF HistoryInv
<1>2. CASE (\E s \in Signals, c \in Cids : ExecuteSignal(s, c)) \/ \E c \in Cids : ExecuteFallback(c)
  BY <1>1, <1>2, ExecutionBegins
<1>3. CASE SettleReport
  <2>1. rep \in Report /\ call \in Call /\ call.cid \in Cids /\ oid \in Nat /\ mem \in RuntimeState
    BY <1>1, <1>3 DEF TypeOK, SettleReport, Call
  <2>2. QED BY <1>3, <2>1, FinalizeType DEF SettleReport
<1>4. CASE PlaceOrder \/ PlaceFailed \/ PlaceLost \/ PlaceDuplicate
  BY <1>4 DEF PlaceOrder, PlaceFailed, PlaceLost, PlaceDuplicate, RetryOrReturn, Submits
<1>5. CASE FirstReport \/ PollReport \/ RecheckReport \/ PaperFill \/ CancelOrder \/ SavePreSubmit
  BY <1>5 DEF FirstReport, PollReport, Received, RecheckReport, PaperFill, CancelOrder, SavePreSubmit
<1>6. CASE Tick \/ UNCHANGED vars \/ \E o \in DOMAIN exch : ExchangeFill(o) \/ ExchangeCancel(o)
  BY <1>6 DEF Tick, vars, ExchangeFill, ExchangeCancel
<1>7. ~(\/ QueryError \/ FallbackRefused \/ IoError \/ ReconcileError \/ Start \/ Crash \/ Stop
        \/ SaveReport \/ ReconcileSave
        \/ \E x \in todo : ReconcileQuery(x) \/ ReconcileRecheck(x) \/ ReconcilePrune(x))
  BY DEF QueryError, FallbackRefused, IoError, ReconcileError, ReturnError, Start, Crash, Stop,
     SaveReport, ReconcileSave, ReconcileQuery, ReconcileRecheck, ReconcilePrune, Decide, Tracked
<1>8. QED
  BY <1>2, <1>3, <1>4, <1>5, <1>6, <1>7 DEF Next, EngineStep, Environment

\* The state in memory is of the day of the intent under way.
LEMMA CallDayStep ==
  ASSUME HistoryInv, CallDay, TypeOK', HistoryGrows, [Next]_vars PROVE CallDay'
<1> SUFFICES ASSUME pc' \in InOrder, NEW i \in IntentsOf(journal'), journal'[i].cid = call'.cid
             PROVE  Day(journal'[i].at) = mem'.day
  BY DEF CallDay
<1>1. TypeOK
  BY DEF HistoryInv
<1>2. CASE Begins
  <2>1. PICK c \in Cids, s \in Signals, q \in Int :
               \E total, tif, leg, base : PrepareOrder(c, s, q, total, tif, leg, base)
    BY <1>2 DEF Begins
  <2>2. /\ Log(Entry("order_intent", c, s, "None", 0)) /\ c \notin Intended
        /\ call'.cid = c /\ mem' = RecordPreSubmitState(LoadState, c)
    BY <2>1 DEF PrepareOrder
  <2>3. /\ IntentsOf(journal') = IntentsOf(journal) \cup {Len(journal) + 1}
        /\ journal'[Len(journal) + 1].at = now
        /\ \A k \in DOMAIN journal : journal'[k] = journal[k]
    BY <1>1, <2>2, AppendIntent DEF Entry
  <2>4. i = Len(journal) + 1
    BY <2>2, <2>3 DEF Intended, IntentsOf
  <2>5. mem'.day = Today
    <3>1. LoadState.day = Today /\ LoadState \in RuntimeState
      BY <1>1, LoadStateType DEF LoadState, RollDayIfNeeded, DefaultForToday
    <3>2. QED BY <2>2, <3>1 DEF RecordPreSubmitState, RuntimeState
  <2>6. QED BY <2>3, <2>4, <2>5 DEF Today
<1>3. CASE ~Begins
  <2>1. pc \in InOrder /\ call' = call /\ mem'.day = mem.day
    BY <1>3, CallGoesOn
  <2>2. call.cid \in Intended
    BY <2>1 DEF HistoryInv, CallUnderWay
  <2>3. i \in IntentsOf(journal) /\ journal'[i] = journal[i]
    BY <2>1, <2>2 DEF HistoryGrows
  <2>4. QED BY <2>1, <2>3 DEF CallDay
<1>4. QED BY <1>2, <1>3

\* What a report says filled, its order has filled: an order never fills less.
LEMMA ReportTrueStep ==
  ASSUME HistoryInv, ReportTrue, TypeOK', Mode = "Live", [Next]_vars PROVE ReportTrue'
<1> USE DEF InOrder, locals
<1>1. TypeOK
  BY DEF HistoryInv, TypeOK
<1>2. \A o \in DOMAIN exch : ReportOf(o).filled <= exch[o].filled /\ ReportOf(o).price = exch[o].price
  BY <1>1, ReportType DEF ExchangeOrder
<1>3. CASE FirstReport \/ PollReport
  <2>1. oid \in DOMAIN exch /\ rep' = ReportOf(oid) /\ UNCHANGED <<exch, oid>>
    BY <1>1, <1>3 DEF FirstReport, PollReport, Received, TypeOK
  <2>2. QED BY <1>2, <2>1 DEF ReportTrue
<1>4. CASE RecheckReport
  <2>1. pc = "recheck" /\ oid \in DOMAIN exch /\ rep' \in {ReportOf(oid), rep} /\ UNCHANGED <<exch, oid>>
    BY <1>1, <1>4 DEF RecheckReport, RecheckedReports, TypeOK
  <2>2. QED BY <1>2, <2>1 DEF ReportTrue
<1>5. CASE CancelOrder \/ \E o \in DOMAIN exch : ExchangeFill(o) \/ ExchangeCancel(o)
  <2>1. /\ DOMAIN exch' = DOMAIN exch
        /\ \A o \in DOMAIN exch : exch'[o].price = exch[o].price /\ exch'[o].filled >= exch[o].filled
    BY <1>1, <1>5, OrderMoves DEF OrdersKept
  <2>2. /\ UNCHANGED <<oid, rep>>
        /\ pc' = pc \/ (pc = "cancel" /\ pc' = "recheck") \/ pc' = "rrecheck"
    BY <1>5 DEF CancelOrder, ExchangeFill, ExchangeCancel
  <2>3. ASSUME pc \in {"cancel", "recheck", "settle"}
        PROVE  /\ oid \in DOMAIN exch /\ rep.filled \in Nat
               /\ exch[oid].filled \in Nat /\ exch'[oid].filled \in Nat
    <3>1. oid \in DOMAIN exch
      BY <1>1, <2>3 DEF TypeOK, HistoryInv, CallOrder
    <3>2. rep \in Report /\ exch[oid] \in ExchangeOrder
      BY <1>1, <2>3, <3>1 DEF TypeOK
    <3>3. exch'[oid] \in ExchangeOrder
      BY <2>1, <3>1 DEF TypeOK
    <3>4. QED BY <3>1, <3>2, <3>3 DEF Report, ExchangeOrder
  <2>4. QED BY <2>1, <2>2, <2>3 DEF ReportTrue
<1>6. CASE Tick \/ UNCHANGED vars
  BY <1>6 DEF Tick, vars, ReportTrue
<1>7. ASSUME pc' \notin {"cancel", "recheck", "settle"} PROVE ReportTrue'
  BY <1>7 DEF ReportTrue
<1>8. CASE \/ PlaceOrder \/ PlaceFailed \/ PlaceLost \/ PlaceDuplicate
           \/ QueryError \/ FallbackRefused \/ IoError \/ ReconcileError \/ Start \/ Crash \/ Stop
           \/ SavePreSubmit \/ SettleReport \/ SaveReport \/ ReconcileSave \/ PaperFill
           \/ \E x \in todo : ReconcileQuery(x) \/ ReconcileRecheck(x) \/ ReconcilePrune(x)
  <2>1. pc' \notin {"cancel", "recheck", "settle"}
    BY <1>8 DEF PlaceOrder, PlaceFailed, PlaceLost, PlaceDuplicate, RetryOrReturn, Submits,
       QueryError, FallbackRefused, IoError, ReconcileError, ReturnError, Start, Crash, Stop,
       SavePreSubmit, SettleReport, SaveReport, ReconcileSave, PaperFill,
       ReconcileQuery, ReconcileRecheck, ReconcilePrune, Decide, Tracked
  <2>2. QED BY <1>7, <2>1
<1>9. CASE (\E s \in Signals, c \in Cids : ExecuteSignal(s, c)) \/ \E c \in Cids : ExecuteFallback(c)
  <2>1. pc' = "logged"
    BY <1>9 DEF ExecuteSignal, ExecuteFallback, PrepareOrder
  <2>2. QED BY <1>7, <2>1
<1>10. QED
  BY <1>3, <1>4, <1>5, <1>6, <1>8, <1>9 DEF Next, EngineStep, Environment

\* Every step keeps what is recorded within what was filled.
LEMMA CountedStep ==
  ASSUME HistoryInv, CountedInv, TypeOK', [Next]_vars PROVE CountedInv'
<1> SUFFICES ASSUME Mode = "Live" PROVE CountedInv'
  BY DEF CountedInv
<1>1. HistoryGrows
  BY HistoryStep
<1>2. CallDay' /\ ReportTrue'
  BY <1>1, CallDayStep, ReportTrueStep DEF CountedInv
<1>3. TypeOK /\ mem' \in RuntimeState /\ disk' \in RuntimeState
      /\ mem'.exposure \in Nat /\ disk'.exposure \in Nat
  BY DEF HistoryInv, TypeOK, RuntimeState
<1> DEFINE Covered(st) == st.exposure <= Total(Worth(exch', journal', st.day))
           FromBook(st) == \/ st.day = mem.day /\ st.exposure = mem.exposure
                           \/ st.day = disk.day /\ st.exposure = disk.exposure
                           \/ st.exposure = 0
<1>4. FromBook(mem') => Covered(mem')
  BY <1>1, <1>3, StillCounted
<1>5. FromBook(disk') => Covered(disk')
  BY <1>1, <1>3, StillCounted
<1>6. FromBook(DefaultForToday) /\ FromBook(LoadState)
  BY DEF LoadState, RollDayIfNeeded, DefaultForToday
<1>7. Covered(mem') /\ Covered(disk') => CountedInv'
  BY <1>2 DEF CountedInv
<1> HIDE DEF Covered
<1>8. CASE SettleReport
  <2>1. mem'.day = mem.day /\ mem'.exposure <= Total(Worth(exch', journal', mem.day))
    BY <1>1, <1>8, SettleCounted
  <2>2. Covered(mem')
    BY <2>1 DEF Covered
  <2>3. disk' = disk
    BY <1>8 DEF SettleReport
  <2>4. QED BY <1>5, <1>7, <2>2, <2>3
<1>9. CASE Begins
  <2>1. PICK c \in Cids, s \in Signals, q \in Int :
               \E total, tif, leg, base : PrepareOrder(c, s, q, total, tif, leg, base)
    BY <1>9 DEF Begins
  <2>2. disk' = disk /\ mem' = RecordPreSubmitState(LoadState, c)
    BY <2>1 DEF PrepareOrder
  <2>3. mem'.day = LoadState.day /\ mem'.exposure = LoadState.exposure
    BY <1>3, <2>2, LoadStateType DEF RecordPreSubmitState, RuntimeState
  <2>4. QED BY <1>4, <1>5, <1>6, <1>7, <2>2, <2>3
<1>10. CASE Continues \/ Returns \/ Saves \/ Loses
  <2>1. FromBook(mem')
    BY <1>6, <1>10 DEF Continues, Returns, Saves, Loses, SameButOpen
  <2>2. FromBook(disk')
    BY <1>6, <1>10 DEF Continues, Returns, Saves, Loses, SameButOpen
  <2>3. QED BY <1>4, <1>5, <1>7, <2>1, <2>2
<1>11. QED BY <1>8, <1>9, <1>10, StepKinds DEF Settles

\* The exposure the file holds of a day is never more than what the orders of
\* that day have filled, whatever fails and whenever the process dies.
THEOREM ExposureTrue == Spec => []ExposureNeverOverstated
<1>1. Init => CountedInv
  <2> SUFFICES ASSUME Init PROVE CountedInv
    OBVIOUS
  <2>1. TypeOK
    BY InitType
  <2>2. \A d : Total(Worth(exch, journal, d)) \in Nat
    BY <2>1, WorthType DEF TypeOK
  <2>3. mem.exposure = 0 /\ disk.exposure = 0
    BY DEF Init, DefaultForToday
  <2>4. CallDay /\ ReportTrue
    BY DEF Init, CallDay, ReportTrue, InOrder
  <2>5. QED BY <2>2, <2>3, <2>4 DEF CountedInv
<1>2. HistoryInv /\ CountedInv /\ TypeOK' /\ [Next]_vars => CountedInv'
  BY CountedStep
<1>3. HistoryInv /\ CountedInv => ExposureNeverOverstated
  <2> SUFFICES ASSUME HistoryInv, CountedInv, Mode = "Live"
               PROVE  disk.exposure <= FilledNotional(OrdersOfDay(disk.day))
    BY DEF ExposureNeverOverstated
  <2> DEFINE v == Worth(exch, journal, disk.day)
             O == OrdersOfDay(disk.day)
             w == [o \in DOMAIN exch |-> IF o \in O THEN exch[o].filled * exch[o].price ELSE 0]
  <2>1. exch \in Seq(ExchangeOrder) /\ TypeOK /\ disk.exposure \in Nat
    BY DEF HistoryInv, TypeOK, RuntimeState
  <2>2. /\ v \in Seq(Nat) /\ Len(v) = Len(exch) /\ Len(exch) \in Nat
        /\ DOMAIN exch = 1..Len(exch) /\ Total(v) \in Nat
    BY <2>1, WorthType
  <2>3. ASSUME NEW o \in 1..Len(exch) PROVE exch[o].filled * exch[o].price \in Nat
    <3>1. exch[o].filled \in Nat /\ exch[o].price \in Nat
      BY <2>1, <2>2, ReportType DEF ExchangeOrder
    <3>2. \A a \in Nat, b \in Nat : a * b \in Nat
      OBVIOUS
    <3>3. QED BY <3>1, <3>2
  <2>4. w \in [1..Len(exch) -> Nat]
    BY <2>2, <2>3
  <2>5. w \in Seq(Nat) /\ Len(w) = Len(exch)
    <3> HIDE DEF w
    <3>1. QED BY <2>2, <2>4, SameLength
  <2>6. ASSUME NEW o \in 1..Len(exch) PROVE v[o] <= w[o]
    <3> DEFINE counts == /\ \E i \in ReportsOf(journal) : journal[i].cid = exch[o].cid
                         /\ \A i \in IntentsOf(journal) :
                              journal[i].cid = exch[o].cid => Day(journal[i].at) = disk.day
               n == exch[o].filled * exch[o].price
    <3>1. n \in Nat
      BY <2>3
    <3>2. v[o] = (IF counts THEN n ELSE 0) /\ w[o] = (IF o \in O THEN n ELSE 0)
      BY <2>2 DEF Worth
    <3>3. counts => o \in O
      <4>1. PICK i \in IntentsOf(journal) : journal[i].cid = exch[o].cid
        BY <2>2 DEF HistoryInv, PlacedIntended, Intended
      <4>2. IntentOf(exch[o].cid) = journal[i]
        BY <4>1, IntentOfCid
      <4>3. QED BY <2>2, <4>1, <4>2 DEF OrdersOfDay
    <3> HIDE DEF counts, n, v, w, O
    <3>4. QED BY <3>1, <3>2, <3>3
  <2>7. FilledNotional(O) = Total(w)
    BY DEF FilledNotional
  <2>8. disk.exposure <= Total(v)
    BY DEF CountedInv
  <2> HIDE DEF v, w, O
  <2>9. Total(v) <= Total(w) /\ Total(w) \in Nat
    BY <2>2, <2>5, <2>6, TotalLess, TotalType
  <2>10. QED BY <2>1, <2>2, <2>7, <2>8, <2>9 DEF O
<1>4. QED
  BY HistoryInvariant, TypeCorrect, <1>1, <1>2, <1>3, PTL DEF Spec

(***************************************************************************)
(* The two legs of a signal.  An order counts no more than the signal, and *)
(* a second one no more than the first has left: the first rests no more   *)
(* once its report sizes the second, and what it filled is final.          *)
(***************************************************************************)
FillsEven == \A o \in DOMAIN exch : \E k \in Nat : exch[o].filled = 2 * k

CallMade == call # Nil \/ pc \in InOrder \cup {"fallback"}

LegsFit ==
  CallMade =>
    /\ call.base <= Len(exch) /\ Len(exch) <= call.base + 2
    /\ Len(exch) >= call.base + 1 => exch[call.base + 1].count <= Rounded(call.total)
    /\ Len(exch) = call.base + 2 =>
         /\ ~Resting(call.base + 1)
         /\ exch[call.base + 1].filled + exch[call.base + 2].count <= Rounded(call.total)

LegUnsent ==
  pc \in {"logged", "saved"} =>
    /\ call.qty <= call.total /\ Len(exch) <= call.base + 1
    /\ call.leg = 1 => Len(exch) = call.base
    /\ Len(exch) = call.base + 1 =>
         ~Resting(call.base + 1) /\ exch[call.base + 1].filled + call.qty <= call.total

FirstLeg ==
  /\ pc \in InOrder \cup {"fallback"} /\ call.leg = 1 =>
       /\ Policy = "hybrid" => call.tif = "ioc"
       /\ pc \notin {"logged", "saved"} /\ Mode = "Live" =>
            oid = Len(exch) /\ Len(exch) = call.base + 1
  /\ pc = "fallback" => call.leg = 1 /\ Policy = "hybrid"

Frozen ==
  Mode = "Live" /\ pc \in {"recheck", "settle", "reported", "fallback"} /\ call.tif = "ioc" =>
    /\ oid \in DOMAIN exch /\ ~Resting(oid)
    /\ pc # "recheck" => rep.filled = exch[oid].filled

LegsInv == FillsEven /\ LegsFit /\ LegUnsent /\ FirstLeg /\ Frozen

\* Whole contracts that are filled leave room for the rest, rounded.
LEMMA RoundedRest ==
  ASSUME NEW k \in Nat, NEW q \in Nat, NEW t \in Nat, 2 * k + q <= t
  PROVE  2 * k + Rounded(q) <= Rounded(t) /\ Rounded(q) \in Nat /\ Rounded(t) \in Nat
<1> DEFINE a == (q + 1) \div 2
           b == (t + 1) \div 2
<1>1. a \in Nat /\ b \in Nat /\ 2 * a <= q + 1 /\ q + 1 < 2 * a + 2
      /\ 2 * b <= t + 1 /\ t + 1 < 2 * b + 2
  OBVIOUS
<1>2. Rounded(q) = 2 * a /\ Rounded(t) = 2 * b
  BY DEF Rounded
<1> HIDE DEF a, b
<1>3. k + a <= b
  BY <1>1
<1>4. QED BY <1>1, <1>2, <1>3

\* Fills, cancels and the end of orders leave the legs as they fit.
LEMMA MovesLegs ==
  ASSUME HistoryInv, LegsInv, TypeOK', FillsEven',
         OrdersKept, UNCHANGED <<call, oid, rep>>,
         \A o \in DOMAIN exch : /\ exch'[o].count = exch[o].count
                                /\ Resting(o)' => Resting(o)
                                /\ ~Resting(o) => exch'[o] = exch[o],
         \/ pc' = pc
         \/ pc = "cancel" /\ pc' = "recheck" /\ ~Resting(oid)'
         \/ pc' \notin InOrder \cup {"fallback"}
  PROVE  LegsInv'
<1> USE DEF InOrder
<1>1. Len(exch') = Len(exch) /\ Len(exch) \in Nat /\ DOMAIN exch' = DOMAIN exch
      /\ DOMAIN exch = 1..Len(exch)
  BY KeptLength, LenProperties DEF HistoryInv, TypeOK, OrdersKept
<1>2. CallMade => call.base \in Nat
  BY DEF CallMade, HistoryInv, TypeOK, Call
<1>3. LegsFit'
  <2>1. CallMade' => CallMade
    BY DEF CallMade
  <2>2. QED BY <1>1, <1>2, <2>1 DEF LegsInv, LegsFit
<1>4. LegUnsent'
  <2>1. pc' \in {"logged", "saved"} => pc' = pc /\ CallMade
    BY DEF CallMade
  <2>2. QED BY <1>1, <1>2, <2>1 DEF LegsInv, LegUnsent
<1>5. FirstLeg'
  BY <1>1 DEF LegsInv, FirstLeg
<1>6. Frozen'
  BY <1>1 DEF LegsInv, Frozen, HistoryInv, TypeOK
<1>7. QED BY <1>3, <1>4, <1>5, <1>6 DEF LegsInv

\* An order that is begun fits: the first leg of a signal, or what is left of it.
LEMMA ExecutionLegs ==
  ASSUME HistoryInv, LegsInv, TypeOK',
         (\E s \in Signals, c \in Cids : ExecuteSignal(s, c)) \/ \E c \in Cids : ExecuteFallback(c)
  PROVE  LegsInv'
<1> USE DEF InOrder
<1>1. TypeOK /\ exch \in Seq(ExchangeOrder) /\ Len(exch) \in Nat /\ DOMAIN exch = 1..Len(exch)
  BY LenProperties DEF HistoryInv, TypeOK
<1>2. exch' = exch /\ pc' = "logged"
  BY DEF ExecuteSignal, ExecuteFallback, PrepareOrder
<1>3. FillsEven' /\ Frozen'
  BY <1>2 DEF LegsInv, FillsEven, Frozen
<1>4. ASSUME NEW s \in Signals, NEW c \in Cids, ExecuteSignal(s, c)
      PROVE  LegsFit' /\ LegUnsent' /\ FirstLeg'
  <2>1. /\ call'.base = Len(exch) /\ call'.total = s.qty /\ call'.leg = 1
        /\ call'.qty = IF Policy = "hybrid" THEN HybridIocQty(s.qty) ELSE s.qty
        /\ Policy = "hybrid" => call'.tif = "ioc"
    BY <1>4 DEF ExecuteSignal, PrepareOrder
  <2>2. call'.qty <= call'.total /\ call'.base \in Nat /\ Len(exch') = call'.base
    <3>1. s.qty \in Nat /\ HybridIocQty(s.qty) \in Int /\ HybridIocQty(s.qty) <= s.qty
      BY SignalArithmetic
    <3>2. QED BY <1>1, <1>2, <2>1, <3>1
  <2>3. LegsFit'
    BY <2>2 DEF LegsFit
  <2>4. LegUnsent'
    BY <2>2, <2>1 DEF LegUnsent
  <2>5. FirstLeg'
    BY <1>2, <2>1 DEF FirstLeg
  <2>6. QED BY <2>3, <2>4, <2>5
<1>5. ASSUME NEW c \in Cids, ExecuteFallback(c) PROVE LegsFit' /\ LegUnsent' /\ FirstLeg'
  <2>1. /\ pc = "fallback" /\ call'.base = call.base /\ call'.total = call.total
        /\ call'.leg = 2 /\ call'.qty = FallbackQty
    BY <1>5 DEF ExecuteFallback, PrepareOrder
  <2>2. call \in Call /\ rep \in Report /\ call.base \in Nat /\ call.total \in Nat /\ rep.filled \in Nat
    BY <1>1, <2>1 DEF TypeOK, Call, Report
  <2>3. LegsFit'
    <3>1. LegsFit /\ CallMade
      BY <2>1 DEF LegsInv, CallMade
    <3>2. QED BY <1>2, <2>1, <3>1 DEF LegsFit, Resting
  <2>4. LegUnsent'
    <3>1. CASE Mode = "Live"
      <4>1. /\ call.leg = 1 /\ call.tif = "ioc" /\ oid = Len(exch) /\ Len(exch) = call.base + 1
            /\ oid \in DOMAIN exch /\ ~Resting(oid) /\ rep.filled = exch[oid].filled
        BY <2>1, <3>1 DEF LegsInv, FirstLeg, Frozen
      <4>2. /\ exch'[call'.base + 1].status # "Resting"
            /\ exch'[call'.base + 1].filled = rep.filled
        BY <1>2, <2>1, <4>1 DEF Resting
      <4>3. QED BY <1>2, <2>1, <2>2, <4>1, <4>2 DEF LegUnsent, FallbackQty, Resting
    <3>2. CASE Mode # "Live"
      <4>1. exch = <<>> /\ Len(exch) = 0
        BY <3>2, ConstantsAssumption DEF HistoryInv, PaperNeverPlaces
      <4>2. QED BY <1>2, <2>1, <2>2, <4>1 DEF LegUnsent, FallbackQty
    <3>3. QED BY <3>1, <3>2
  <2>5. FirstLeg'
    BY <1>2, <2>1 DEF FirstLeg
  <2>6. QED BY <2>3, <2>4, <2>5
<1>6. QED BY <1>3, <1>4, <1>5 DEF LegsInv

\* An order that is accepted counts what the leg asked for.
LEMMA PlacementLegs ==
  ASSUME HistoryInv, LegsInv, TypeOK', PlaceOrder PROVE LegsInv'
<1> USE DEF InOrder
<1>1. /\ TypeOK /\ exch \in Seq(ExchangeOrder) /\ Len(exch) \in Nat /\ DOMAIN exch = 1..Len(exch)
      /\ pc = "saved" /\ call \in Call /\ call.base \in Nat /\ call.qty \in Nat /\ call.total \in Nat
      /\ CallMade
  BY LenProperties DEF HistoryInv, TypeOK, Call, PlaceOrder, Submits, CallMade
<1>2. UNCHANGED call /\ pc' = "placed" /\ oid' = Len(exch) + 1
  BY DEF PlaceOrder
<1>3. Taken
  BY TakenByPlacement
<1>4. /\ DOMAIN exch' = DOMAIN exch \cup {Len(exch) + 1}
      /\ exch'[Len(exch) + 1].count = Rounded(call.qty) /\ exch'[Len(exch) + 1].filled = 0
      /\ \A o \in DOMAIN exch : exch'[o] = exch[o]
      /\ Len(exch') = Len(exch) + 1
  BY <1>1, <1>3, TakenLast
<1>5. FillsEven'
  <2>1. 0 = 2 * 0 /\ 0 \in Nat
    OBVIOUS
  <2>2. QED BY <1>4, <2>1 DEF LegsInv, FillsEven
<1>6. LegsFit'
  <2>1. Len(exch) = call.base \/ Len(exch) = call.base + 1
    BY <1>1 DEF LegsInv, LegsFit, LegUnsent
  <2>2. CASE Len(exch) = call.base
    <3>1. Rounded(call.qty) <= Rounded(call.total)
      <4>1. 0 \in Nat /\ 2 * 0 + call.qty <= call.total
        BY <1>1 DEF LegsInv, LegUnsent
      <4>2. \A q \in Nat : 2 * 0 + q = q
        OBVIOUS
      <4>3. 2 * 0 + Rounded(call.qty) <= Rounded(call.total) /\ Rounded(call.qty) \in Nat
        BY <1>1, <4>1, RoundedRest
      <4>4. QED BY <4>2, <4>3
    <3>2. QED BY <1>1, <1>2, <1>4, <2>2, <3>1 DEF LegsFit
  <2>3. CASE Len(exch) = call.base + 1
    <3>1. /\ ~Resting(call.base + 1) /\ exch[call.base + 1].filled + call.qty <= call.total
          /\ exch[call.base + 1].count <= Rounded(call.total)
          /\ call.base + 1 \in DOMAIN exch
      BY <1>1, <2>3 DEF LegsInv, LegUnsent, LegsFit
    <3>2. PICK k \in Nat : exch[call.base + 1].filled = 2 * k
      BY <3>1 DEF LegsInv, FillsEven
    <3>3. exch[call.base + 1].filled + Rounded(call.qty) <= Rounded(call.total)
      BY <1>1, <3>1, <3>2, RoundedRest
    <3>4. exch'[call.base + 1] = exch[call.base + 1]
      BY <1>4, <3>1
    <3>5. Len(exch') = call.base + 2 /\ Len(exch) + 1 = call.base + 2
      BY <1>1, <1>4, <2>3
    <3>6. exch'[call.base + 2].count = Rounded(call.qty)
      BY <1>4, <3>5
    <3>7. QED BY <1>1, <1>2, <3>1, <3>3, <3>4, <3>5, <3>6 DEF LegsFit, Resting
  <2>4. QED BY <2>1, <2>2, <2>3
<1>7. LegUnsent' /\ Frozen'
  BY <1>2 DEF LegUnsent, Frozen
<1>8. FirstLeg'
  BY <1>1, <1>2, <1>4 DEF LegsInv, FirstLeg, LegUnsent
<1>9. QED BY <1>5, <1>6, <1>7, <1>8 DEF LegsInv

\* The reports of a call: the last one sizes the rest of a hybrid signal.
LEMMA ReportingLegs ==
  ASSUME HistoryInv, LegsInv, ~QueryFails(oid), FirstReport \/ PollReport \/ RecheckReport
  PROVE  LegsInv'
<1> USE DEF InOrder
<1>1. /\ TypeOK /\ UNCHANGED <<exch, call, oid>> /\ rep' = ReportOf(oid) /\ oid \in DOMAIN exch
      /\ pc \in {"placed", "poll", "recheck"} /\ pc' \in {"poll", "cancel", "settle"}
      /\ pc # "recheck" /\ pc' = "settle" => ReportOf(oid).status \in DoneStatus \/ call.tif # "ioc"
      /\ pc = "recheck" => pc' = "settle"
      /\ Mode = "Live"
  BY ConstantsAssumption DEF HistoryInv, TypeOK, PaperNeverPlaces, FirstReport, PollReport,
     RecheckReport, Received, AfterPolls, RecheckedReports
<1>2. FillsEven' /\ LegsFit' /\ LegUnsent' /\ FirstLeg'
  <2>1. CallMade
    BY <1>1 DEF CallMade
  <2>2. QED BY <1>1, <2>1 DEF LegsInv, FillsEven, LegsFit, LegUnsent, FirstLeg, Resting
<1>3. Frozen'
  <2>1. pc' = "settle" /\ call.tif = "ioc" => ~Resting(oid)
    BY <1>1, FinalReport DEF LegsInv, Frozen
  <2>2. rep'.filled = exch[oid].filled
    BY <1>1, ReportType
  <2>3. QED BY <1>1, <2>1, <2>2 DEF Frozen, Resting
<1>4. QED BY <1>2, <1>3 DEF LegsInv

\* Fills come in whole contracts, and nothing else moves them.
LEMMA FillsStayEven ==
  ASSUME TypeOK, FillsEven, CancelOrder \/ \E o \in DOMAIN exch : ExchangeFill(o) \/ ExchangeCancel(o)
  PROVE  FillsEven'
<1>1. exch \in Seq(ExchangeOrder) /\ \A o \in DOMAIN exch : exch[o] \in ExchangeOrder
  BY DEF TypeOK
<1>2. ASSUME NEW o \in DOMAIN exch, exch' = [exch EXCEPT ![o].status = "Canceled"]
      PROVE  FillsEven'
  <2> DEFINE x == [exch[o] EXCEPT !.status = "Canceled"]
  <2>1. x.filled = exch[o].filled /\ exch' = [exch EXCEPT ![o] = x]
    BY <1>1, <1>2 DEF ExchangeOrder
  <2> HIDE DEF x
  <2>2. DOMAIN exch' = DOMAIN exch /\ \A p \in DOMAIN exch : exch'[p].filled = exch[p].filled
    BY <1>1, <2>1
  <2>3. QED BY <2>2 DEF FillsEven
<1>3. ASSUME NEW o \in DOMAIN exch, ExchangeFill(o) PROVE FillsEven'
  <2> DEFINE n == exch[o].filled + 2
             status == IF n = exch[o].count THEN "Filled" ELSE exch[o].status
             x == [exch[o] EXCEPT !.filled = n, !.status = status]
  <2>1. exch' = [exch EXCEPT ![o] = x] /\ x.filled = exch[o].filled + 2
    BY <1>1, <1>3 DEF ExchangeFill, ExchangeOrder
  <2>2. PICK k \in Nat : exch[o].filled = 2 * k
    BY DEF FillsEven
  <2>3. x.filled = 2 * (k + 1) /\ k + 1 \in Nat
    BY <2>1, <2>2
  <2> HIDE DEF x
  <2>4. /\ DOMAIN exch' = DOMAIN exch /\ exch'[o] = x
        /\ \A p \in DOMAIN exch \ {o} : exch'[p] = exch[p]
    BY <1>1, <2>1
  <2>5. QED BY <2>3, <2>4 DEF FillsEven
<1>4. CASE CancelOrder
  <2>1. oid \in DOMAIN exch
    BY <1>4 DEF CancelOrder, TypeOK
  <2>2. exch' = exch \/ exch' = [exch EXCEPT ![oid].status = "Canceled"]
    BY <1>4 DEF CancelOrder, Canceling
  <2>3. exch' = exch => FillsEven'
    BY DEF FillsEven
  <2>4. QED BY <1>2, <2>1, <2>2, <2>3
<1>5. CASE \E o \in DOMAIN exch : ExchangeCancel(o)
  BY <1>2, <1>5 DEF ExchangeCancel
<1>6. QED BY <1>3, <1>4, <1>5

\* Between the reports: the save before the order is sent, the paper fill, the
\* settlement, which leaves a hybrid signal to its second leg.
LEMMA SettlementLegs ==
  ASSUME HistoryInv, LegsInv, SavePreSubmit \/ PaperFill \/ SettleReport \/ SaveReport
  PROVE  LegsInv'
<1> USE DEF InOrder, locals
<1>1. /\ UNCHANGED <<exch, call>> /\ CallMade
  BY DEF SavePreSubmit, PaperFill, SettleReport, SaveReport, CallMade
<1>2. FillsEven' /\ LegsFit'
  BY <1>1 DEF LegsInv, FillsEven, LegsFit, Resting
<1>3. CASE SavePreSubmit
  <2>1. pc = "logged" /\ pc' = "saved"
    BY <1>3 DEF SavePreSubmit
  <2>2. QED BY <1>1, <1>2, <2>1 DEF LegsInv, LegUnsent, FirstLeg, Frozen, Resting
<1>4. CASE PaperFill
  <2>1. pc = "saved" /\ pc' = "settle" /\ Mode # "Live"
    BY <1>4 DEF PaperFill
  <2>2. QED BY <1>1, <1>2, <2>1 DEF LegsInv, LegUnsent, FirstLeg, Frozen
<1>5. CASE SettleReport
  <2>1. pc = "settle" /\ pc' = "reported" /\ UNCHANGED <<oid, rep>>
    BY <1>5 DEF SettleReport
  <2>2. QED BY <1>1, <1>2, <2>1 DEF LegsInv, LegUnsent, FirstLeg, Frozen, Resting
<1>6. CASE SaveReport
  <2>1. /\ pc = "reported"
        /\ \/ pc' = "fallback" /\ UNCHANGED <<oid, rep>> /\ Policy = "hybrid" /\ call.leg = 1
           \/ pc' = "idle"
    BY <1>6 DEF SaveReport, NeedsFallback
  <2>2. QED BY <1>1, <1>2, <2>1 DEF LegsInv, LegUnsent, FirstLeg, Frozen, Resting
<1>7. QED BY <1>3, <1>4, <1>5, <1>6

\* A step that ends the call, or is not about it, leaves the legs alone.
LEMMA QuietLegs ==
  ASSUME LegsInv, UNCHANGED <<exch, call>>,
         \/ pc' \notin InOrder \cup {"fallback"}
         \/ UNCHANGED <<pc, oid, rep>>
  PROVE  LegsInv'
<1>1. FillsEven' /\ LegsFit'
  BY DEF LegsInv, FillsEven, LegsFit, CallMade, Resting
<1>2. LegUnsent' /\ FirstLeg' /\ Frozen'
  BY DEF LegsInv, LegUnsent, FirstLeg, Frozen, Resting, InOrder
<1>3. QED BY <1>1, <1>2 DEF LegsInv

\* Every request is answered, and every cancel arrives.
Answered == Faults \cap {"query_error", "archived", "cancel_lost", "place_lost"} = {}

\* Every step leaves the legs of the last signal as they fit.
LEMMA LegsStep ==
  ASSUME Answered, HistoryInv, LegsInv, TypeOK', [Next]_vars PROVE LegsInv'
<1> USE DEF InOrder, locals
<1>1. TypeOK
  BY DEF HistoryInv
<1>2. ~PlaceLost /\ ~QueryError /\ ~ReconcileError /\ (\A o : ~QueryFails(o))
      /\ (\A x \in todo : ~ReconcilePrune(x)) /\ (CancelOrder => exch' = Canceling(oid))
  <2>1. /\ "place_lost" \notin Faults /\ "query_error" \notin Faults /\ "archived" \notin Faults
        /\ "cancel_lost" \notin Faults
    BY DEF Answered
  <2>2. QED
    BY <2>1 DEF PlaceLost, QueryError, ReconcileError, ReconcilePrune, QueryFails, CancelOrder
<1>3. CASE (\E s \in Signals, c \in Cids : ExecuteSignal(s, c)) \/ \E c \in Cids : ExecuteFallback(c)
  BY <1>3, ExecutionLegs
<1>4. CASE PlaceOrder
  BY <1>4, PlacementLegs
<1>5. CASE FirstReport \/ PollReport \/ RecheckReport
  BY <1>2, <1>5, ReportingLegs
<1>6. CASE CancelOrder \/ \E o \in DOMAIN exch : ExchangeFill(o) \/ ExchangeCancel(o)
  <2>1. FillsEven'
    BY <1>1, <1>6, FillsStayEven DEF LegsInv
  <2>2. /\ OrdersKept
        /\ \A o \in DOMAIN exch : /\ exch'[o].count = exch[o].count
                                  /\ Resting(o)' => Resting(o)
                                  /\ ~Resting(o) => exch'[o] = exch[o]
    BY <1>1, <1>6, OrderMoves
  <2>3. UNCHANGED <<call, oid, rep>>
    BY <1>6 DEF CancelOrder, ExchangeFill, ExchangeCancel
  <2>4. \/ pc' = pc
        \/ pc = "cancel" /\ pc' = "recheck" /\ ~Resting(oid)'
        \/ pc' \notin InOrder \cup {"fallback"}
    <3>1. CASE CancelOrder
      <4>1. oid \in DOMAIN exch /\ exch \in Seq(ExchangeOrder) /\ oid' = oid
        BY <1>1, <3>1 DEF CancelOrder, TypeOK
      <4> DEFINE x == [exch[oid] EXCEPT !.status = "Canceled"]
      <4>2. (~Resting(oid) /\ exch' = exch) \/ exch' = [exch EXCEPT ![oid] = x]
        BY <1>2, <3>1 DEF Canceling
      <4>3. x.status = "Canceled"
        BY <1>1, <4>1, ReportType DEF ExchangeOrder
      <4> HIDE DEF x
      <4>4. ~Resting(oid)'
        BY <4>1, <4>2, <4>3 DEF Resting
      <4>5. (pc = "cancel" /\ pc' = "recheck") \/ pc' = "rrecheck"
        BY <3>1 DEF CancelOrder
      <4>6. QED BY <4>4, <4>5
    <3>2. CASE \E o \in DOMAIN exch : ExchangeFill(o) \/ ExchangeCancel(o)
      BY <3>2 DEF ExchangeFill, ExchangeCancel
    <3>3. QED BY <1>6, <3>1, <3>2
  <2>5. QED BY <2>1, <2>2, <2>3, <2>4, MovesLegs
<1>7. CASE SavePreSubmit \/ PaperFill \/ SettleReport \/ SaveReport
  BY <1>7, SettlementLegs
<1>8. CASE PlaceFailed \/ PlaceDuplicate
  <2>1. /\ UNCHANGED <<exch, call>>
        /\ UNCHANGED <<pc, oid, rep>> \/ pc' \notin InOrder \cup {"fallback"}
    BY <1>8 DEF PlaceFailed, PlaceDuplicate, RetryOrReturn
  <2>2. QED BY <2>1, QuietLegs
<1>9. CASE FallbackRefused \/ IoError \/ ReconcileSave \/ Start \/ Stop \/ Crash
  <2>1. UNCHANGED <<exch, call>> /\ pc' \notin InOrder \cup {"fallback"}
    BY <1>9 DEF FallbackRefused, IoError, ReturnError, ReconcileSave, Start, Stop, Crash
  <2>2. QED BY <2>1, QuietLegs
<1>10. CASE \E x \in todo : ReconcileQuery(x) \/ ReconcileRecheck(x)
  <2>1. UNCHANGED <<exch, call>> /\ pc' \notin InOrder \cup {"fallback"}
    BY <1>10 DEF ReconcileQuery, ReconcileRecheck, Decide
  <2>2. QED BY <2>1, QuietLegs
<1>11. CASE Tick \/ UNCHANGED vars
  <2>1. UNCHANGED <<exch, call, pc, oid, rep>>
    BY <1>11 DEF Tick, vars
  <2>2. QED BY <2>1, QuietLegs
<1>12. QED
  BY <1>2, <1>3, <1>4, <1>5, <1>6, <1>7, <1>8, <1>9, <1>10, <1>11 DEF Next, EngineStep, Environment

\* The legs of the last signal always fit it.
LEMMA LegsInvariant == ASSUME Answered PROVE Spec => []LegsInv
<1>1. Init => LegsInv
  BY DEF Init, LegsInv, FillsEven, LegsFit, LegUnsent, FirstLeg, Frozen, CallMade, InOrder
<1>2. LegsInv /\ HistoryInv /\ HistoryInv' /\ [Next]_vars => LegsInv'
  BY LegsStep DEF HistoryInv
<1>3. QED BY <1>1, <1>2, HistoryInvariant, PTL DEF Spec

\* Where cancels arrive and every request is answered, the legs of a signal
\* together never fill more than the signal asked for.
THEOREM HybridFits == ASSUME Answered PROVE Spec => []HybridNeverOverfills
<1>1. HistoryInv /\ LegsInv /\ ExposureInv => HybridNeverOverfills
  <2> SUFFICES ASSUME HistoryInv, LegsInv, ExposureInv, call # Nil PROVE LegsFilled <= Rounded(call.total)
    BY DEF HybridNeverOverfills
  <2>1. /\ exch \in Seq(ExchangeOrder) /\ call \in Call /\ CallMade
        /\ Len(exch) \in Nat /\ DOMAIN exch = 1..Len(exch)
    BY LenProperties DEF HistoryInv, TypeOK, CallMade
  <2>2. call.base \in Nat /\ call.total \in Nat /\ Rounded(call.total) \in Nat
    BY <2>1, SignalArithmetic DEF Call
  <2> DEFINE filled == [o \in DOMAIN exch |-> IF o > call.base THEN exch[o].filled ELSE 0]
  <2>3. /\ \A o \in DOMAIN exch : /\ exch[o].filled \in Nat /\ exch[o].count \in Nat
                                  /\ exch[o].filled <= exch[o].count
    <3>1. \A o \in DOMAIN exch : exch[o] \in ExchangeOrder
      BY <2>1
    <3>2. QED BY <3>1 DEF ExposureInv, FillsWithinCount, ExchangeOrder
  <2>4. filled \in [1..Len(exch) -> Nat]
    BY <2>1, <2>3
  <2>5. filled \in Seq(Nat) /\ Len(filled) = Len(exch)
    BY <2>1, <2>4, SeqDef, LenProperties
  <2>6. call.base <= Len(exch) /\ Len(exch) <= call.base + 2
    BY <2>1 DEF LegsInv, LegsFit
  <2>7. \A i \in 1..call.base : filled[i] = 0
    BY <2>1, <2>2, <2>6
  <2>8. \A i \in DOMAIN exch : i > call.base => filled[i] = exch[i].filled
    OBVIOUS
  <2> HIDE DEF filled
  <2>9. /\ Len(exch) = call.base => Total(filled) = 0
        /\ Len(exch) = call.base + 1 => Total(filled) = filled[call.base + 1]
        /\ Len(exch) = call.base + 2 => Total(filled) = filled[call.base + 1] + filled[call.base + 2]
    BY <2>2, <2>5, <2>6, <2>7, TotalOfTwo
  <2>10. Total(filled) <= Rounded(call.total)
    <3> DEFINE k == call.base
               t == Rounded(call.total)
               L == Len(exch)
    <3>1. k \in Nat /\ t \in Nat /\ L \in Nat /\ DOMAIN exch = 1..L /\ k <= L /\ L <= k + 2
      BY <2>1, <2>2, <2>6
    <3>2. L >= k + 1 => exch[k + 1].count <= t
      BY <2>1 DEF LegsInv, LegsFit
    <3>3. L = k + 2 => exch[k + 1].filled + exch[k + 2].count <= t
      BY <2>1 DEF LegsInv, LegsFit
    <3>4. /\ L = k => Total(filled) = 0
          /\ L = k + 1 => Total(filled) = filled[k + 1]
          /\ L = k + 2 => Total(filled) = filled[k + 1] + filled[k + 2]
      BY <2>9
    <3> SUFFICES Total(filled) <= t
      OBVIOUS
    <3> HIDE DEF k, t, L
    <3>5. CASE L = k
      BY <3>1, <3>4, <3>5
    <3>6. CASE L = k + 1
      <4>1. k + 1 \in DOMAIN exch /\ k + 1 > k
        BY <3>1, <3>6
      <4>2. Total(filled) = exch[k + 1].filled
        BY <4>1, <3>4, <3>6, <2>8 DEF k
      <4>3. QED BY <4>1, <4>2, <3>1, <3>2, <3>6, <2>3
    <3>7. CASE L = k + 2
      <4>1. k + 1 \in DOMAIN exch /\ k + 2 \in DOMAIN exch /\ k + 1 > k /\ k + 2 > k
        BY <3>1, <3>7
      <4>2. Total(filled) = exch[k + 1].filled + exch[k + 2].filled
        BY <4>1, <3>4, <3>7, <2>8 DEF k
      <4>3. QED BY <4>1, <4>2, <3>1, <3>3, <3>7, <2>3
    <3>8. QED BY <3>1, <3>5, <3>6, <3>7
  <2>11. QED BY <2>10 DEF LegsFilled, filled
<1>2. QED BY <1>1, HistoryInvariant, LegsInvariant, ExposureInvariant, PTL

(***************************************************************************)
(* The engine implements OrderLedger: beginning an order is Intend, its    *)
(* acceptance by the exchange Place, the settled report Settle, an error   *)
(* or a crash under way Abandon, and everything else a stutter.            *)
(***************************************************************************)
Stage  == [c \in Cids |-> StageOf(c)]
Active == IF pc \in InOrder \ {"reported"} THEN call.cid ELSE Nil

StageIs(c, stage) == Stage' = [Stage EXCEPT ![c] = stage]

\* The stage of an order is that of its intent, its place on the exchange and
\* its report: a step that adds none of them changes no stage.
LEMMA StageKept ==
  ASSUME JournalKept, OrdersKept PROVE Stage' = Stage
<1>1. Intended' = Intended /\ \A c : Reported(c)' <=> Reported(c)
  BY KeptIntended
<1>2. \A c : Known(c)' <=> Known(c)
  BY DEF Known, OrdersKept
<1>3. \A c : StageOf(c)' = StageOf(c)
  BY <1>1, <1>2 DEF StageOf, Reported
<1>4. QED BY <1>3 DEF Stage

\* Beginning an order is Intend: its id is fresh, and no order is active.
LEMMA BeginLedger ==
  ASSUME HistoryInv, NEW c \in Cids, NEW s \in Signals, NEW q, NEW total,
         NEW tif, NEW leg, NEW base, PrepareOrder(c, s, q, total, tif, leg, base)
  PROVE  Stage[c] = "fresh" /\ StageIs(c, "intended") /\ Active' = c
<1>1. /\ Intended' = Intended \cup {c}
      /\ ReportsOf(journal') = ReportsOf(journal)
      /\ \A i \in DOMAIN journal : journal'[i] = journal[i]
  BY AppendIntent DEF PrepareOrder, HistoryInv
<1>2. c \notin Intended /\ exch' = exch /\ call'.cid = c /\ pc' = "logged"
  BY DEF PrepareOrder
<1>3. ~Known(c) /\ ~Reported(c)
  BY <1>2 DEF HistoryInv, PlacedIntended, ReportsIntended, Known, Reported
<1>4. \A d : (Reported(d)' <=> Reported(d)) /\ (Known(d)' <=> Known(d))
  BY <1>1, <1>2 DEF Reported, Known, ReportsOf
<1>5. StageOf(c) = "fresh" /\ StageOf(c)' = "intended"
      /\ \A d : d # c => StageOf(d)' = StageOf(d)
  BY <1>1, <1>2, <1>3, <1>4 DEF StageOf, Reported
<1>6. QED BY <1>2, <1>5 DEF Stage, StageIs, Active, InOrder

\* The exchange takes the order of the call: it is placed, once more or for the
\* first time.
LEMMA PlaceLedger ==
  ASSUME HistoryInv, JournalKept, pc = "saved", Taken
  PROVE  /\ call.cid \in Cids /\ Active = call.cid
         /\ Stage[call.cid] \in {"intended", "placed"} /\ StageIs(call.cid, "placed")
<1>1. TypeOK /\ call \in Call /\ call.cid \in Cids /\ call.cid \in Intended
      /\ ~Reported(call.cid)
  BY DEF HistoryInv, TypeOK, CallUnderWay, Call, InOrder
<1>2. /\ DOMAIN exch' = DOMAIN exch \cup {Len(exch) + 1}
      /\ exch'[Len(exch) + 1].cid = call.cid
      /\ \A o \in DOMAIN exch : exch'[o] = exch[o]
  BY <1>1, TakenLast
<1>3. \A d : Known(d)' <=> Known(d) \/ d = call.cid
  BY <1>2 DEF Known
<1>4. Intended' = Intended /\ \A d : Reported(d)' <=> Reported(d)
  BY KeptIntended
<1>5. \A d : StageOf(d)' = IF d = call.cid THEN "placed" ELSE StageOf(d)
  BY <1>1, <1>3, <1>4 DEF StageOf, Reported
<1>6. StageOf(call.cid) \in {"intended", "placed"}
  BY <1>1 DEF StageOf, Reported
<1>7. QED BY <1>1, <1>5, <1>6 DEF Stage, StageIs, Active, InOrder

\* A settled report reports an order that was placed, or a paper order.
LEMMA SettleLedger ==
  ASSUME HistoryInv, SettleReport
  PROVE  /\ call.cid \in Cids /\ Active = call.cid /\ Active' = Nil
         /\ Stage[call.cid] = (IF Mode = "Paper" THEN "intended" ELSE "placed")
         /\ StageIs(call.cid, "reported")
<1>1. TypeOK /\ call \in Call /\ call.cid \in Cids /\ call.sig \in Signals /\ rep \in Report
      /\ call.cid \in Intended /\ ~Reported(call.cid)
  BY DEF HistoryInv, TypeOK, CallUnderWay, Call, InOrder, SettleReport
<1>2. /\ Intended' = Intended
      /\ ReportsOf(journal') = ReportsOf(journal) \cup {Len(journal) + 1}
      /\ Len(journal) + 1 \notin DOMAIN journal
      /\ journal'[Len(journal) + 1].cid = call.cid
      /\ \A i \in DOMAIN journal : journal'[i] = journal[i]
  BY <1>1, AppendReport DEF SettleReport, Report
<1>3. pc = "settle" /\ pc' = "reported" /\ exch' = exch
  BY DEF SettleReport
<1>4. \A d : Reported(d)' <=> Reported(d) \/ d = call.cid
  BY <1>2 DEF Reported, ReportsOf
<1>5. \A d : StageOf(d)' = IF d = call.cid THEN "reported" ELSE StageOf(d)
  BY <1>2, <1>3, <1>4 DEF StageOf, Reported, Known
<1>6. Known(call.cid) <=> Mode = "Live"
  BY <1>3, ConstantsAssumption DEF HistoryInv, CallOrder, PaperNeverPlaces, Known
<1>7. StageOf(call.cid) = IF Mode = "Paper" THEN "intended" ELSE "placed"
  BY <1>1, <1>6, ConstantsAssumption DEF StageOf, Reported
<1>8. QED BY <1>1, <1>3, <1>5, <1>7 DEF Stage, StageIs, Active, InOrder

\* A step that adds no intent, order or report goes on with the active order,
\* or abandons it.
LEMMA QuietLedger ==
  ASSUME JournalKept, OrdersKept,
         pc' \in InOrder \ {"reported"} => pc \in InOrder \ {"reported"} /\ call' = call
  PROVE  Stage' = Stage /\ Active' \in {Active, Nil}
  BY StageKept DEF Active

\* What the four actions of OrderLedger say of the engine.
LEMMA LedgerActions ==
  /\ Stage' = Stage /\ Active' \in {Active, Nil} => [Ledger!Next]_(Ledger!vars)
  /\ \A c \in Cids :
       /\ Active = Nil /\ Stage[c] = "fresh" /\ StageIs(c, "intended") /\ Active' = c
            => Ledger!Intend(c)
       /\ Active = c /\ Stage[c] \in {"intended", "placed"} /\ Mode = "Live"
          /\ StageIs(c, "placed") /\ Active' \in {c, Nil}
            => Ledger!Place(c)
       /\ Active = c /\ Stage[c] = (IF Mode = "Paper" THEN "intended" ELSE "placed")
          /\ StageIs(c, "reported") /\ Active' = Nil
            => Ledger!Settle(c)
<1>1. Stage' = Stage /\ Active' \in {Active, Nil} => [Ledger!Next]_(Ledger!vars)
  BY DEF Stage, Active, Ledger!Next, Ledger!Abandon, Ledger!vars
<1>2. ASSUME NEW c \in Cids
      PROVE  Active = Nil /\ Stage[c] = "fresh" /\ StageIs(c, "intended") /\ Active' = c
               => Ledger!Intend(c)
  BY DEF Stage, Active, StageIs, Ledger!Intend
<1>3. ASSUME NEW c \in Cids
      PROVE  Active = c /\ Stage[c] \in {"intended", "placed"} /\ Mode = "Live"
             /\ StageIs(c, "placed") /\ Active' \in {c, Nil}
               => Ledger!Place(c)
  BY DEF Stage, Active, StageIs, Ledger!Place
<1>4. ASSUME NEW c \in Cids
      PROVE  Active = c /\ Stage[c] = (IF Mode = "Paper" THEN "intended" ELSE "placed")
             /\ StageIs(c, "reported") /\ Active' = Nil
               => Ledger!Settle(c)
  BY DEF Stage, Active, StageIs, Ledger!Settle
<1>5. QED BY <1>1, <1>2, <1>3, <1>4

\* A placement is Place when the exchange takes the order, and goes on or
\* abandons it when not.
LEMMA PlacementLedger ==
  ASSUME HistoryInv, PlaceOrder \/ PlaceFailed \/ PlaceLost \/ PlaceDuplicate
  PROVE  [Ledger!Next]_(Ledger!vars)
<1> USE DEF InOrder
<1>1. TypeOK /\ call \in Call /\ pc = "saved" /\ Mode = "Live"
  BY DEF HistoryInv, TypeOK, PlaceOrder, PlaceFailed, PlaceLost, PlaceDuplicate, Submits
<1>2. ASSUME NEW retryable \in BOOLEAN, RetryOrReturn(retryable)
      PROVE  JournalKept /\ call' = call /\ pc' \in {"saved", "idle"}
  <2>1. JournalKept
    BY <1>1, <1>2, ErrorKept DEF RetryOrReturn
  <2>2. QED BY <1>1, <1>2, <2>1 DEF RetryOrReturn
<1>3. ASSUME Taken,
             JournalKept, call' = call, pc' \in {"saved", "idle", "placed"}
      PROVE  [Ledger!Next]_(Ledger!vars)
  <2>1. /\ call.cid \in Cids /\ Active = call.cid
        /\ Stage[call.cid] \in {"intended", "placed"} /\ StageIs(call.cid, "placed")
    BY <1>1, <1>3, PlaceLedger
  <2>2. Active' \in {call.cid, Nil}
    BY <1>3 DEF Active
  <2>3. Ledger!Place(call.cid)
    BY <1>1, <2>1, <2>2, LedgerActions
  <2>4. QED BY <2>1, <2>3 DEF Ledger!Next
<1>4. CASE PlaceOrder
  BY <1>3, <1>4, TakenByPlacement DEF PlaceOrder, JournalKept
<1>5. CASE PlaceLost
  BY <1>2, <1>3, <1>5, TakenByPlacement DEF PlaceLost
<1>6. CASE PlaceFailed \/ PlaceDuplicate
  <2>1. exch' = exch /\ JournalKept /\ call' = call /\ pc' \in {"saved", "idle"}
    BY <1>2, <1>6 DEF PlaceFailed, PlaceDuplicate
  <2>2. OrdersKept
    BY <2>1 DEF OrdersKept
  <2>3. QED BY <1>1, <2>1, <2>2, QuietLedger, LedgerActions
<1>7. QED BY <1>4, <1>5, <1>6

\* Every step of the engine is a step of OrderLedger or a stutter.
LEMMA LedgerStep ==
  ASSUME HistoryInv, [Next]_vars PROVE [Ledger!Next]_(Ledger!vars)
<1> USE DEF InOrder, locals
<1>1. TypeOK
  BY DEF HistoryInv
<1>2. ASSUME UNCHANGED journal, OrdersKept,
             pc' \in InOrder \ {"reported"} => pc \in InOrder \ {"reported"} /\ call' = call
      PROVE  [Ledger!Next]_(Ledger!vars)
  <2>1. JournalKept
    BY <1>2 DEF JournalKept
  <2>2. QED BY <1>2, <2>1, QuietLedger, LedgerActions
<1>3. exch' = exch => OrdersKept
  BY DEF OrdersKept
<1>4. ASSUME NEW c \in Cids, NEW s \in Signals, NEW q, NEW total, NEW tif, NEW leg, NEW base,
             PrepareOrder(c, s, q, total, tif, leg, base), pc \in {"idle", "fallback"}
      PROVE  [Ledger!Next]_(Ledger!vars)
  <2>1. Ledger!Intend(c)
    BY <1>4, BeginLedger, LedgerActions DEF Active
  <2>2. QED BY <2>1 DEF Ledger!Next
<1>5. CASE \E s \in Signals, c \in Cids : ExecuteSignal(s, c)
  BY <1>4, <1>5 DEF ExecuteSignal
<1>6. CASE \E c \in Cids : ExecuteFallback(c)
  <2>1. call.sig \in Signals
    BY <1>1, <1>6 DEF ExecuteFallback, TypeOK, Call
  <2>2. QED BY <1>4, <1>6, <2>1 DEF ExecuteFallback
<1>7. CASE PlaceOrder \/ PlaceFailed \/ PlaceLost \/ PlaceDuplicate
  BY <1>7, PlacementLedger
<1>8. CASE SettleReport
  <2>1. Ledger!Settle(call.cid) /\ call.cid \in Cids
    BY <1>8, SettleLedger, LedgerActions
  <2>2. QED BY <2>1 DEF Ledger!Next
<1>14. CASE QueryError
  <2>1. UNCHANGED <<exch, call>> /\ pc' = "idle"
    BY <1>14 DEF QueryError, ReturnError
  <2>2. JournalKept
    BY <1>1, <1>14, QueryErrorKept
  <2>3. QED BY <1>3, <2>1, <2>2, QuietLedger, LedgerActions
<1>9. CASE FirstReport \/ PollReport \/ RecheckReport \/ PaperFill \/ SavePreSubmit \/ SaveReport
           \/ FallbackRefused \/ IoError
  <2>1. UNCHANGED <<journal, exch, call>>
        /\ (pc' \in InOrder \ {"reported"} => pc \in InOrder \ {"reported"})
    BY <1>9 DEF FirstReport, PollReport, RecheckReport, PaperFill, SavePreSubmit, SaveReport,
       FallbackRefused, IoError, ReturnError, Received, AfterPolls
  <2>2. QED BY <1>2, <1>3, <2>1
<1>10. CASE CancelOrder \/ \E o \in DOMAIN exch : ExchangeFill(o) \/ ExchangeCancel(o)
  <2>1. OrdersKept
    BY <1>1, <1>10, OrderMoves
  <2>2. UNCHANGED <<journal, call>>
        /\ (pc' \in InOrder \ {"reported"} => pc \in InOrder \ {"reported"})
    BY <1>10 DEF CancelOrder, ExchangeFill, ExchangeCancel
  <2>3. QED BY <1>2, <2>1, <2>2
<1>11. CASE Start \/ Stop \/ Crash \/ ReconcileError \/ ReconcileSave \/ Tick \/ UNCHANGED vars
  <2>1. UNCHANGED <<journal, exch, call>>
        /\ (pc' \in InOrder \ {"reported"} => pc \in InOrder \ {"reported"})
    BY <1>11 DEF Start, Stop, Crash, ReconcileError, ReconcileSave, ReturnError, Tick, vars
  <2>2. QED BY <1>2, <1>3, <2>1
<1>12. ASSUME NEW x \in todo, ReconcileQuery(x) \/ ReconcileRecheck(x) \/ ReconcilePrune(x)
       PROVE  [Ledger!Next]_(Ledger!vars)
  <2>1. UNCHANGED <<journal, exch, call>> /\ pc' \in {"reconcile", "rcancel"}
    BY <1>12 DEF ReconcileQuery, ReconcileRecheck, ReconcilePrune, Decide, Tracked
  <2>2. QED BY <1>2, <1>3, <2>1
<1>13. QED
  BY <1>5, <1>6, <1>7, <1>8, <1>9, <1>10, <1>11, <1>12, <1>14 DEF Next, EngineStep, Environment

\* The engine implements OrderLedger, through every fault: one order at a time,
\* an id is never used for a second order, and an order whose call is over is
\* never sent again.
THEOREM LedgerImplemented == Spec => ImplementsOrderLedger
<1>1. Init => Ledger!Init
  <2> SUFFICES ASSUME Init PROVE Ledger!Init
    OBVIOUS
  <2>1. \A c \in Cids : StageOf(c) = "fresh"
    BY DEF Init, StageOf, ReportsOf, Known, Intended, IntentsOf
  <2>2. QED BY <2>1 DEF Init, Ledger!Init, InOrder
<1>2. HistoryInv /\ [Next]_vars => [Ledger!Next]_(Ledger!vars)
  BY LedgerStep
<1>3. QED BY HistoryInvariant, <1>1, <1>2, PTL DEF Spec, ImplementsOrderLedger, Ledger!Spec
==============================================================================
