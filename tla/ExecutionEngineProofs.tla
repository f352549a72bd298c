----------------------- MODULE ExecutionEngineProofs -----------------------
(***************************************************************************)
(* Proofs about the execution engine, for every value of the constants.    *)
(***************************************************************************)
EXTENDS ExecutionEngine, TLAPS

(***************************************************************************)
(* Arithmetic.                                                             *)
(***************************************************************************)

\* The day of a time is a natural number.
LEMMA DayNat == ASSUME NEW t \in Nat PROVE Day(t) \in Nat
<1>1. \A n \in Nat, d \in Nat \ {0} : n \div d \in Nat
  OBVIOUS
<1>2. QED BY <1>1, ConstantsAssumption DEF Day

\* A later time is not on an earlier day.
LEMMA DayMonotone ==
  ASSUME NEW t \in Nat, NEW u \in Nat, t <= u PROVE Day(t) <= Day(u)
<1>1. \A a \in Nat, b \in Nat, d \in Nat \ {0} : a <= b => a \div d <= b \div d
  OBVIOUS
<1>2. QED BY <1>1, ConstantsAssumption DEF Day

\* A price moved to a market's grid is a price of that market.
LEMMA NormalizedInGrid ==
  ASSUME NEW p \in Nat, NEW g \in Grids
  PROVE  NormalizePriceCents(p, g) \in g.min..g.max /\ g.min \in 1..99 /\ g.max \in 1..99
<1>1. g \in Grid /\ g.min <= g.max
  BY ConstantsAssumption
<1>2. g.min \in 1..99 /\ g.max \in 1..99 /\ g.tick \in Nat \ {0}
  BY <1>1 DEF Grid
<1>3. ASSUME NEW q \in Int PROVE Clamp(q, g) \in g.min..g.max
  BY <1>1, <1>2 DEF Clamp
<1>4. \A a \in Int, t \in Nat \ {0} : ((a + t \div 2) \div t) * t \in Int
  <2>1. \A a \in Int, t \in Nat \ {0} : a \div t \in Int
    OBVIOUS
  <2>2. \A a \in Int, b \in Int : a * b \in Int
    OBVIOUS
  <2>3. QED BY <2>1, <2>2
<1>5. ((Clamp(p, g) + g.tick \div 2) \div g.tick) * g.tick \in Int
  BY <1>2, <1>3, <1>4
<1>6. QED BY <1>2, <1>3, <1>5 DEF NormalizePriceCents

\* The pricing and sizing of a signal are natural numbers.
LEMMA SignalArithmetic ==
  ASSUME NEW s \in Signals
  PROVE  /\ s.qty \in Nat \ {0} /\ s.ask \in 0..100
         /\ Limit(s) \in Nat /\ \A p \in YesPrices(s) : p \in Nat
         /\ HybridIocQty(s.qty) \in Int /\ HybridIocQty(s.qty) <= s.qty
         /\ \A q \in Nat : Rounded(q) \in Nat
<1>1. s \in Signal
  BY ConstantsAssumption
<1>2. s.qty \in Nat \ {0} /\ s.ask \in 0..100
  BY <1>1 DEF Signal, Price
<1>3. Limit(s) \in 1..99
  BY <1>2 DEF Limit
<1>4. \A p \in YesPrices(s) : p \in Nat
  <2>1. ASSUME NEW g \in Grids PROVE NormalizePriceCents(Limit(s), g) \in 1..99
    <3>1. Limit(s) \in Nat
      BY <1>3
    <3>2. /\ NormalizePriceCents(Limit(s), g) \in g.min..g.max
          /\ g.min \in 1..99 /\ g.max \in 1..99
      BY <3>1, NormalizedInGrid
    <3>3. QED BY <3>2
  <2>2. \A p \in SentPrices(s) : p \in 1..99
    BY <1>3, <2>1 DEF SentPrices
  <2>3. QED BY <2>2 DEF YesPrices
<1>5. \A q \in Nat, p \in 0..100 : (q * p) \div 100 \in Int
  OBVIOUS
<1>6. HybridIocQty(s.qty) \in Int /\ HybridIocQty(s.qty) <= s.qty
  BY <1>2, <1>5, ConstantsAssumption DEF HybridIocQty, Lesser, Greater
<1>7. \A q \in Nat : Rounded(q) \in Nat
  BY DEF Rounded
<1>8. QED BY <1>2, <1>3, <1>4, <1>6, <1>7

(***************************************************************************)
(* The operators the actions are built from.                               *)
(***************************************************************************)

\* Loading the state gives a state of the day or of an earlier one.
LEMMA LoadStateType ==
  ASSUME TypeOK
  PROVE  /\ DefaultForToday \in RuntimeState /\ LoadState \in RuntimeState
         /\ LoadState.open \subseteq disk.open
         /\ DefaultForToday.open = {}
<1>1. Today \in Nat
  BY DayNat DEF TypeOK, Today
<1>2. DefaultForToday \in RuntimeState
  BY <1>1 DEF DefaultForToday, RuntimeState
<1>3. QED
  BY <1>2 DEF TypeOK, LoadState, RollDayIfNeeded, DefaultForToday

LEMMA RecordPreSubmitType ==
  ASSUME TypeOK, NEW st \in RuntimeState, NEW c \in Cids
  PROVE  /\ RecordPreSubmitState(st, c) \in RuntimeState
         /\ RecordPreSubmitState(st, c).open = st.open
         /\ RecordPreSubmitState(st, c).day = st.day
         /\ RecordPreSubmitState(st, c).exposure = st.exposure
         /\ RecordPreSubmitState(st, c).seen = st.seen \cup {c}
<1> DEFINE rc == WithinWindow(st.recent \cup {[at |-> now, cid |-> c]})
           sn == st.seen \cup {c}
<1>1. rc \in SUBSET [at : Nat, cid : Cids] /\ sn \in SUBSET Cids
  BY DEF TypeOK, RuntimeState, WithinWindow
<1>2. RecordPreSubmitState(st, c) = [st EXCEPT !.recent = rc, !.seen = sn]
  BY DEF RecordPreSubmitState
<1> HIDE DEF rc
<1>3. QED BY <1>1, <1>2 DEF RuntimeState

\* A report moves a state to a state; it can only add the reported order to
\* the tracked ones, and at most the reported fill to the exposure.
LEMMA FinalizeType ==
  ASSUME NEW st \in RuntimeState, NEW o \in Nat, NEW r \in Report
  PROVE  /\ FinalizeStateFromReport(st, o, r) \in RuntimeState
         /\ FinalizeStateFromReport(st, o, r).day = st.day
         /\ FinalizeStateFromReport(st, o, r).seen = st.seen
         /\ FinalizeStateFromReport(st, o, r).exposure <= st.exposure + r.filled * r.price
         /\ \A x \in FinalizeStateFromReport(st, o, r).open :
              x \in st.open \/ (r.status \in OpenStatus /\ x.oid = o)
<1>1. r.filled * r.price \in Nat /\ r.fee \in Nat
  BY DEF Report
<1> DEFINE e == IF r.status \in OpenStatus \cup {"Filled"}
                THEN st.exposure + r.filled * r.price ELSE st.exposure
           op == IF r.status \in OpenStatus
                 THEN IF \E x \in st.open : x.oid = o THEN st.open
                      ELSE st.open \cup {[oid |-> o, cid |-> r.cid]}
                 ELSE {x \in st.open : x.oid # o}
           new == [st EXCEPT !.loss = st.loss + r.fee, !.exposure = e, !.open = op]
<1>2. FinalizeStateFromReport(st, o, r) = new
  BY DEF FinalizeStateFromReport
<1>3. e \in Nat /\ e <= st.exposure + r.filled * r.price
  BY <1>1 DEF RuntimeState
<1>4. op \in SUBSET TrackedOrder
  BY DEF RuntimeState, TrackedOrder, Report
<1>5. st.loss + r.fee \in Nat
  BY <1>1 DEF RuntimeState
<1> HIDE DEF e, op
<1>6. new \in RuntimeState /\ new.day = st.day /\ new.seen = st.seen
      /\ new.exposure = e /\ new.open = op
  BY <1>3, <1>4, <1>5 DEF RuntimeState
<1>7. \A x \in op : x \in st.open \/ (r.status \in OpenStatus /\ x.oid = o)
  BY DEF op
<1>8. QED BY <1>2, <1>3, <1>6, <1>7

\* What get_order answers is a report; so is what is left after a cancel.
LEMMA ReportType ==
  ASSUME TypeOK, NEW o \in DOMAIN exch
  PROVE  /\ exch[o] \in ExchangeOrder
         /\ ReportOf(o) \in Report
         /\ ReportOf(o).filled = exch[o].filled
         /\ ReportOf(o).price = exch[o].price
<1>1. exch[o] \in ExchangeOrder
  BY DEF TypeOK
<1>2. (exch[o].filled \div 2) * FeePerContract \in Nat
  <2>1. \A n \in Nat : n \div 2 \in Nat
    OBVIOUS
  <2>2. \A a \in Nat, b \in Nat : a * b \in Nat
    OBVIOUS
  <2>3. QED BY <1>1, <2>1, <2>2, ConstantsAssumption DEF ExchangeOrder
<1>3. QED
  BY <1>1, <1>2
     DEF ReportOf, EchoedCid, Report, ExchangeOrder, OrderStatus, OpenStatus, DoneStatus

\* An entry an action appends to the journal is a journal entry.
LEMMA EntryType ==
  ASSUME TypeOK, NEW ev \in {"order_intent", "order_report", "order_error"},
         NEW c \in Cids \cup {Nil}, NEW s \in Signals,
         NEW status \in OrderStatus \cup {"None"}, NEW n \in Nat
  PROVE  /\ Entry(ev, c, s, status, n) \in JournalEntry
         /\ Append(journal, Entry(ev, c, s, status, n)) \in Seq(JournalEntry)
  BY DEF TypeOK, Entry, JournalEntry

\* An order the current call submits is an order of the exchange.
LEMMA NewOrderType ==
  ASSUME TypeOK, call \in Call, NEW status \in {"Resting", "Rejected"},
         NEW price \in YesPrices(call.sig)
  PROVE  /\ NewOrder(status, price) \in ExchangeOrder
         /\ Append(exch, NewOrder(status, price)) \in Seq(ExchangeOrder)
         /\ DOMAIN exch \subseteq DOMAIN Append(exch, NewOrder(status, price))
         /\ Len(exch) + 1 \in DOMAIN Append(exch, NewOrder(status, price))
         /\ Len(exch) + 1 \in Nat
<1>1. NewOrder(status, price) \in ExchangeOrder
  BY SignalArithmetic DEF NewOrder, ExchangeOrder, Call, DoneStatus
<1>2. QED BY <1>1 DEF TypeOK

\* What the exchange accepts it appends to its orders.
LEMMA AcceptsType ==
  ASSUME TypeOK, call \in Call, NEW statuses \in SUBSET {"Resting", "Rejected"},
         Accepts(statuses)
  PROVE  /\ exch' \in Seq(ExchangeOrder)
         /\ DOMAIN exch \subseteq DOMAIN exch'
         /\ Len(exch) + 1 \in DOMAIN exch' /\ Len(exch) + 1 \in Nat
<1>1. PICK status \in statuses, price \in YesPrices(call.sig) :
        exch' = Append(exch, NewOrder(status, price))
  BY DEF Accepts
<1>2. QED BY <1>1, NewOrderType

\* Returning with an error leaves well-typed variables.
LEMMA ReturnErrorType ==
  ASSUME TypeOK, ReturnError, journal' \in Seq(JournalEntry) PROVE TypeOK'
  BY DEF TypeOK, ReturnError, ClearLocals, Phases, InOrder, InStart

\* Beginning an order leaves well-typed variables.
LEMMA PrepareOrderType ==
  ASSUME TypeOK, NEW c \in Cids, NEW s \in Signals, NEW q \in Int, NEW total \in Nat,
         NEW tif \in {"ioc", "gtc"}, NEW leg \in {1, 2}, NEW base \in Nat,
         PrepareOrder(c, s, q, total, tif, leg, base)
  PROVE  TypeOK'
<1>1. LoadState \in RuntimeState /\ LoadState.open \subseteq disk.open
  BY LoadStateType
<1>2. mem' \in RuntimeState /\ mem'.open \subseteq disk.open
  BY <1>1, RecordPreSubmitType DEF PrepareOrder
<1>3. journal' \in Seq(JournalEntry)
  BY EntryType DEF PrepareOrder, Log
<1>4. q \in Nat
  BY ConstantsAssumption DEF PrepareOrder
<1>5. call' \in Call
  BY <1>4 DEF PrepareOrder, Call
<1>6. QED
  BY <1>2, <1>3, <1>5
     DEF TypeOK, PrepareOrder, ClearLocals, Phases, InOrder, InStart

(***************************************************************************)
(* Type correctness.                                                       *)
(***************************************************************************)
LEMMA InitType == Init => TypeOK
<1> SUFFICES ASSUME Init PROVE TypeOK
  OBVIOUS
<1>1. Day(now) \in Nat
  BY DayNat DEF Init
<1>2. DefaultForToday \in RuntimeState /\ DefaultForToday.open = {}
  BY <1>1 DEF DefaultForToday, RuntimeState, Today
<1>3. QED
  BY <1>2 DEF Init, TypeOK, Phases, InOrder, InStart

\* A placement keeps the types, however it ends.
LEMMA PlacementType ==
  ASSUME TypeOK, PlaceOrder \/ PlaceFailed \/ PlaceLost \/ PlaceDuplicate
  PROVE  TypeOK'
<1> USE DEF Phases, InOrder, InStart
<1>1. call \in Call /\ call.sig \in Signals
  BY DEF TypeOK, PlaceOrder, PlaceFailed, PlaceLost, PlaceDuplicate, Submits, Call
<1>2. CASE PlaceOrder
  BY <1>1, <1>2, AcceptsType DEF PlaceOrder, Submits, TypeOK
<1>3. ASSUME NEW retryable \in BOOLEAN, RetryOrReturn(retryable), Submits,
             exch' \in Seq(ExchangeOrder), DOMAIN exch \subseteq DOMAIN exch'
      PROVE  TypeOK'
  <2>1. CASE retryable /\ tries < MaxRetries
    BY <1>3, <2>1 DEF RetryOrReturn, TypeOK, Submits
  <2>2. CASE ~(retryable /\ tries < MaxRetries)
    <3>1. journal' \in Seq(JournalEntry)
      BY <1>1, <1>3, <2>2, EntryType DEF RetryOrReturn, LogOrderError, Log, TypeOK
    <3>2. QED
      BY <1>3, <2>2, <3>1 DEF RetryOrReturn, TypeOK, ClearLocals
  <2>3. QED BY <2>1, <2>2
<1>4. CASE PlaceFailed
  BY <1>3, <1>4 DEF PlaceFailed, TypeOK
<1>5. CASE PlaceLost
  BY <1>1, <1>3, <1>5, AcceptsType DEF PlaceLost
<1>6. CASE PlaceDuplicate
  BY <1>3, <1>6 DEF PlaceDuplicate, TypeOK
<1>7. QED BY <1>2, <1>4, <1>5, <1>6

\* Receiving reports keeps the types.
LEMMA ReportingType ==
  ASSUME TypeOK, FirstReport \/ PollReport \/ RecheckReport \/ QueryError \/ CancelOrder
  PROVE  TypeOK'
<1> USE DEF Phases, InOrder, InStart
<1>1. CASE FirstReport
  BY <1>1, ReportType DEF FirstReport, Received, AfterPolls, TypeOK
<1>2. CASE PollReport
  BY <1>2, ReportType DEF PollReport, Received, AfterPolls, TypeOK
<1>3. CASE RecheckReport
  BY <1>3, ReportType DEF RecheckReport, RecheckedReports, TypeOK
<1>4. CASE QueryError
  <2>1. call \in Call /\ call.sig \in Signals
    BY <1>4 DEF QueryError, TypeOK, Call
  <2>2. journal' \in Seq(JournalEntry)
    BY <1>4, <2>1, EntryType DEF QueryError, LogOrderError, Log, TypeOK
  <2>3. QED BY <1>4, <2>2, ReturnErrorType DEF QueryError
<1>5. CASE CancelOrder
  <2>1. exch' \in Seq(ExchangeOrder) /\ DOMAIN exch' = DOMAIN exch
    <3>1. CASE exch' = Canceling(oid)
      <4>1. oid \in DOMAIN exch
        BY <1>5 DEF CancelOrder, TypeOK
      <4> DEFINE x == [exch[oid] EXCEPT !.status = "Canceled"]
      <4>2. x \in ExchangeOrder
        BY <4>1, ReportType DEF ExchangeOrder, DoneStatus
      <4>3. exch' = exch \/ exch' = [exch EXCEPT ![oid] = x]
        BY <3>1 DEF Canceling
      <4> HIDE DEF x
      <4>4. QED BY <4>1, <4>2, <4>3 DEF TypeOK
    <3>2. CASE UNCHANGED exch
      BY <3>2 DEF TypeOK
    <3>3. QED BY <1>5, <3>1, <3>2 DEF CancelOrder
  <2>2. QED BY <1>5, <2>1 DEF CancelOrder, TypeOK, locals
<1>6. QED BY <1>1, <1>2, <1>3, <1>4, <1>5

\* Settling a report keeps the types.
LEMMA SettlementType ==
  ASSUME TypeOK, SettleReport \/ SaveReport \/ SavePreSubmit \/ PaperFill
                 \/ FallbackRefused \/ IoError
  PROVE  TypeOK'
<1> USE DEF Phases, InOrder, InStart, locals
<1>1. CASE SettleReport
  <2>1. rep \in Report /\ call \in Call /\ call.cid \in Cids /\ call.sig \in Signals
    BY <1>1 DEF TypeOK, SettleReport, Call
  <2>2. mem' \in RuntimeState
    BY <1>1, <2>1, FinalizeType DEF SettleReport, TypeOK
  <2>3. journal' \in Seq(JournalEntry)
    BY <1>1, <2>1, EntryType DEF SettleReport, Log, Report
  <2>4. \A x \in mem'.open : x.oid \in DOMAIN exch
    <3>1. mem \in RuntimeState /\ oid \in Nat
      BY DEF TypeOK
    <3>2. \A x \in mem'.open : x \in mem.open \/ (rep.status \in OpenStatus /\ x.oid = oid)
      BY <1>1, <2>1, <3>1, FinalizeType DEF SettleReport
    <3>3. rep.status \in OpenStatus => oid \in DOMAIN exch
      BY <1>1 DEF SettleReport, TypeOK, OpenStatus, DoneStatus
    <3>4. QED BY <3>2, <3>3 DEF TypeOK
  <2>5. QED BY <1>1, <2>2, <2>3, <2>4 DEF SettleReport, TypeOK
<1>2. CASE SaveReport
  <2>1. CASE NeedsFallback
    BY <1>2, <2>1 DEF SaveReport, TypeOK
  <2>2. CASE ~NeedsFallback
    BY <1>2, <2>2 DEF SaveReport, TypeOK, ClearLocals
  <2>3. QED BY <2>1, <2>2
<1>3. CASE SavePreSubmit
  BY <1>3 DEF SavePreSubmit, TypeOK
<1>4. CASE PaperFill
  <2>1. call \in Call /\ call.qty \in Nat /\ call.sig \in Signals
    BY <1>4 DEF PaperFill, TypeOK, Call
  <2>2. call.sig.ask \in Nat /\ Limit(call.sig) \in Nat
    BY <2>1, SignalArithmetic
  <2>3. rep' \in Report /\ rep'.status \in DoneStatus
    BY <1>4, <2>1, <2>2 DEF PaperFill, Report, Call, OrderStatus, DoneStatus
  <2>4. QED BY <1>4, <2>3 DEF PaperFill, TypeOK
<1>5. CASE FallbackRefused
  BY <1>5, ReturnErrorType DEF FallbackRefused, TypeOK
<1>6. CASE IoError
  BY <1>6, ReturnErrorType DEF IoError, TypeOK
<1>7. QED BY <1>1, <1>2, <1>3, <1>4, <1>5, <1>6

\* Beginning an order, by a signal or as the second leg of one.
LEMMA ExecutionType ==
  ASSUME TypeOK,
         \/ \E s \in Signals, c \in Cids : ExecuteSignal(s, c)
         \/ \E c \in Cids : ExecuteFallback(c)
  PROVE  TypeOK'
<1>1. ASSUME NEW s \in Signals, NEW c \in Cids, ExecuteSignal(s, c) PROVE TypeOK'
  <2> DEFINE q == IF Policy = "hybrid" THEN HybridIocQty(s.qty) ELSE s.qty
             tif == IF Policy = "gtc" THEN "gtc" ELSE "ioc"
  <2>1. q \in Int /\ s.qty \in Nat
    BY SignalArithmetic
  <2>2. Len(exch) \in Nat
    BY DEF TypeOK
  <2>3. tif \in {"ioc", "gtc"}
    OBVIOUS
  <2>4. PrepareOrder(c, s, q, s.qty, tif, 1, Len(exch))
    BY <1>1 DEF ExecuteSignal
  <2> HIDE DEF q, tif
  <2>5. QED BY <2>1, <2>2, <2>3, <2>4, PrepareOrderType
<1>2. ASSUME NEW c \in Cids, ExecuteFallback(c) PROVE TypeOK'
  <2>1. call \in Call /\ rep \in Report
    BY <1>2 DEF ExecuteFallback, TypeOK
  <2>2. call.sig \in Signals /\ call.total \in Nat /\ call.base \in Nat /\ FallbackQty \in Int
    BY <2>1 DEF Call, Report, FallbackQty
  <2>3. QED BY <1>2, <2>2, PrepareOrderType DEF ExecuteFallback
<1>3. QED BY <1>1, <1>2

\* Starting, stopping and dying.
LEMMA LifeType ==
  ASSUME TypeOK, Start \/ Stop \/ Crash PROVE TypeOK'
<1> USE DEF Phases, InOrder, InStart, locals
<1>1. DefaultForToday \in RuntimeState /\ LoadState \in RuntimeState
      /\ LoadState.open \subseteq disk.open /\ DefaultForToday.open = {}
  BY LoadStateType
<1>2. CASE Start
  <2>1. LoadState.open \in SUBSET TrackedOrder
    BY <1>1 DEF RuntimeState
  <2>2. QED BY <1>1, <1>2, <2>1 DEF Start, TypeOK
<1>3. CASE Stop
  BY <1>3 DEF Stop, TypeOK
<1>4. CASE Crash
  BY <1>1, <1>4 DEF Crash, TypeOK, ClearLocals
<1>5. QED BY <1>2, <1>3, <1>4

\* The startup reconciliation.
LEMMA ReconcileType ==
  ASSUME TypeOK,
         \/ \E x \in todo : ReconcileQuery(x) \/ ReconcileRecheck(x) \/ ReconcilePrune(x)
         \/ ReconcileError \/ ReconcileSave
  PROVE  TypeOK'
<1> USE DEF Phases, InOrder, InStart, locals
<1>1. ASSUME NEW x \in todo, NEW r, Decide(x, r)
      PROVE  /\ todo' \in SUBSET TrackedOrder /\ kept' \in SUBSET TrackedOrder
             /\ todo' \cup kept' \subseteq todo \cup kept /\ pc' = "reconcile"
  BY <1>1 DEF Decide, TypeOK
<1>2. ASSUME NEW x \in todo, ReconcileQuery(x) PROVE TypeOK'
  <2>1. x.oid \in DOMAIN exch /\ ReportOf(x.oid) \in Report /\ x.oid \in Nat
    BY ReportType DEF TypeOK, TrackedOrder
  <2>2. CASE ReportOf(x.oid).status \in OpenStatus /\ Policy = "ioc"
    BY <1>2, <2>1, <2>2 DEF ReconcileQuery, TypeOK
  <2>3. CASE ~(ReportOf(x.oid).status \in OpenStatus /\ Policy = "ioc")
    <3>1. Decide(x, ReportOf(x.oid)) /\ UNCHANGED <<oid, rep>>
      BY <1>2, <2>3 DEF ReconcileQuery
    <3>2. QED BY <1>1, <1>2, <3>1 DEF ReconcileQuery, TypeOK
  <2>4. QED BY <2>2, <2>3
<1>3. ASSUME NEW x \in todo, ReconcileRecheck(x) PROVE TypeOK'
  BY <1>1, <1>3 DEF ReconcileRecheck, TypeOK
<1>4. ASSUME NEW x \in todo, ReconcilePrune(x) PROVE TypeOK'
  BY <1>4 DEF ReconcilePrune, TypeOK, Tracked
<1>5. CASE ReconcileError
  BY <1>5, ReturnErrorType DEF ReconcileError, TypeOK
<1>6. CASE ReconcileSave
  <2>1. [mem EXCEPT !.open = kept] \in RuntimeState
        /\ [mem EXCEPT !.open = kept].open = kept
    BY DEF TypeOK, RuntimeState
  <2>2. QED BY <1>6, <2>1 DEF ReconcileSave, TypeOK, ClearLocals
<1>7. QED BY <1>2, <1>3, <1>4, <1>5, <1>6

\* What the exchange and the clock do by themselves.
LEMMA EnvironmentType ==
  ASSUME TypeOK, Environment PROVE TypeOK'
<1> USE DEF locals
<1>1. ASSUME NEW o \in DOMAIN exch, NEW x \in ExchangeOrder,
             exch' = [exch EXCEPT ![o] = x],
             UNCHANGED <<pc, now, mem, disk, journal, call, locals>>
      PROVE  TypeOK'
  BY <1>1 DEF TypeOK
<1>2. ASSUME NEW o \in DOMAIN exch, ExchangeFill(o) PROVE TypeOK'
  <2> DEFINE n == exch[o].filled + 2
             status == IF n = exch[o].count THEN "Filled" ELSE exch[o].status
             x == [exch[o] EXCEPT !.filled = n, !.status = status]
  <2>1. exch[o] \in ExchangeOrder
    BY ReportType
  <2>2. n \in Nat /\ status \in {"Resting"} \cup DoneStatus
    BY <2>1 DEF ExchangeOrder, DoneStatus
  <2>3. exch' = [exch EXCEPT ![o] = x]
    BY <1>2 DEF ExchangeFill, TypeOK
  <2> HIDE DEF n, status
  <2>4. x \in ExchangeOrder
    BY <2>1, <2>2 DEF ExchangeOrder
  <2> HIDE DEF x
  <2>5. QED BY <1>1, <1>2, <2>3, <2>4 DEF ExchangeFill
<1>3. ASSUME NEW o \in DOMAIN exch, ExchangeCancel(o) PROVE TypeOK'
  <2> DEFINE x == [exch[o] EXCEPT !.status = "Canceled"]
  <2>1. x \in ExchangeOrder
    BY ReportType DEF ExchangeOrder, DoneStatus
  <2>2. exch' = [exch EXCEPT ![o] = x]
    BY <1>3 DEF ExchangeCancel
  <2> HIDE DEF x
  <2>3. QED BY <1>1, <1>3, <2>1, <2>2 DEF ExchangeCancel
<1>4. CASE Tick
  BY <1>4 DEF Tick, TypeOK
<1>5. QED BY <1>2, <1>3, <1>4 DEF Environment

\* The variables of the engine hold values of their types in every behaviour.
THEOREM TypeCorrect == Spec => []TypeOK
<1>1. TypeOK /\ [Next]_vars => TypeOK'
  <2> SUFFICES ASSUME TypeOK, [Next]_vars PROVE TypeOK'
    OBVIOUS
  <2>1. CASE EngineStep
    BY <2>1, PlacementType, ReportingType, SettlementType, ExecutionType, ReconcileType
       DEF EngineStep
  <2>2. CASE \E s \in Signals, c \in Cids : ExecuteSignal(s, c)
    BY <2>2, ExecutionType
  <2>3. CASE Start \/ Stop \/ Crash
    BY <2>3, LifeType
  <2>4. CASE Environment
    BY <2>4, EnvironmentType
  <2>5. CASE UNCHANGED vars
    BY <2>5 DEF vars, locals, TypeOK
  <2>6. QED BY <2>1, <2>2, <2>3, <2>4, <2>5 DEF Next
<1>2. QED BY InitType, <1>1, PTL DEF Spec

(***************************************************************************)
(* The recorded exposure stays bounded, for every value of the constants.  *)
(*                                                                         *)
(* The bound on the file is not inductive by itself: a report is added to  *)
(* an exposure that was checked several steps earlier, for an order whose  *)
(* size and price the report is then about.  The invariant carries the     *)
(* result of that check through the call (CheckedInFull), ties the order   *)
(* on the exchange to the call that placed it (PlacedAsCalled), bounds     *)
(* what any report about it can say (ReportWithinCall), and keeps the size *)
(* of a second leg within the signal's (CallSized).                        *)
(***************************************************************************)

Notional(c) == c.qty * Limit(c.sig)

CallSized ==
  pc \in InOrder \cup {"fallback"} =>
    call.total = call.sig.qty /\ 1 <= call.qty /\ call.qty <= call.sig.qty

CheckedInFull ==
  pc \in InOrder \ {"reported"} => mem.exposure + Notional(call) <= MaxOpenExposure

PlacedAsCalled ==
  pc \in {"placed", "poll", "cancel", "recheck"} =>
    exch[oid].price \in YesPrices(call.sig) /\ exch[oid].count = Rounded(call.qty)

FillsWithinCount == \A o \in DOMAIN exch : exch[o].filled <= exch[o].count

ReportWithinCall ==
  pc \in {"cancel", "recheck", "settle"} =>
    rep.filled * rep.price <= Notional(call) + Overshoot

ExposureInv ==
  /\ TypeOK
  /\ RecordedExposureBounded /\ mem.exposure <= MaxOpenExposure + Overshoot
  /\ CallSized /\ CheckedInFull
  /\ PlacedAsCalled /\ FillsWithinCount /\ ReportWithinCall

\* A product grows with its first factor.
LEMMA MulMono ==
  ASSUME NEW a \in Nat, NEW b \in Nat, NEW c \in Nat, a <= b PROVE a * c <= b * c
  OBVIOUS

\* A report about the order of the current call is within the call.
LEMMA ReportBound ==
  ASSUME ExposureInv, pc \in {"placed", "poll", "cancel", "recheck"}
  PROVE  /\ ReportOf(oid) \in Report
         /\ ReportOf(oid).filled * ReportOf(oid).price <= Notional(call) + Overshoot
<1>1. call \in Call /\ oid \in DOMAIN exch /\ exch[oid] \in ExchangeOrder
  BY ReportType DEF ExposureInv, TypeOK, InOrder
<1>2. call.sig \in Signals /\ call.qty \in 1..call.sig.qty
  BY <1>1, SignalArithmetic DEF ExposureInv, CallSized, Call, InOrder
<1> DEFINE p == exch[oid].price
           n == Rounded(call.qty)
           f == exch[oid].filled
<1>3. p \in Nat /\ n \in Nat /\ f \in Nat /\ p \in YesPrices(call.sig)
  BY <1>1, <1>2, SignalArithmetic DEF ExposureInv, PlacedAsCalled, ExchangeOrder, Call
<1>4. ReportOf(oid) \in Report /\ ReportOf(oid).filled = f /\ ReportOf(oid).price = p
  BY <1>1, ReportType DEF ExposureInv
<1>5. f <= n
  BY <1>1 DEF ExposureInv, FillsWithinCount, PlacedAsCalled
<1>6. f * p <= n * p
  BY <1>3, <1>5, MulMono
<1>7. n * p <= Notional(call) + Overshoot
  BY <1>2, <1>3, OvershootAssumption DEF Notional
<1>8. Notional(call) \in Nat /\ f * p \in Nat /\ n * p \in Nat
  <2>1. \A a \in Nat, b \in Nat : a * b \in Nat
    OBVIOUS
  <2>2. Limit(call.sig) \in Nat /\ call.qty \in Nat
    BY <1>1, <1>2, SignalArithmetic DEF Call
  <2>3. QED BY <1>3, <2>1, <2>2 DEF Notional
<1>9. QED BY <1>4, <1>6, <1>7, <1>8, ConstantsAssumption

\* The numbers the invariant speaks of are natural numbers.
LEMMA ExposureNumbers ==
  ASSUME TypeOK
  PROVE  /\ mem.exposure \in Nat /\ disk.exposure \in Nat
         /\ LoadState.exposure \in Nat /\ DefaultForToday.exposure = 0
         /\ LoadState.exposure \in {0, disk.exposure}
         /\ call \in Call => Notional(call) \in Nat
<1>1. LoadState \in RuntimeState
  BY LoadStateType
<1>2. call \in Call => Notional(call) \in Nat
  <2>1. \A a \in Nat, b \in Nat : a * b \in Nat
    OBVIOUS
  <2>2. QED BY <2>1, SignalArithmetic DEF Notional, Call
<1>3. QED
  BY <1>1, <1>2 DEF TypeOK, RuntimeState, LoadState, RollDayIfNeeded, DefaultForToday

(***************************************************************************)
(* One lemma per group of actions; TypeOK' comes from TypeCorrect's lemmas.*)
(***************************************************************************)

\* An order begins: the kill switch has just been asked about its full size.
LEMMA PrepareExposure ==
  ASSUME ExposureInv, TypeOK', NEW c \in Cids, NEW s \in Signals, NEW q \in Int,
         q <= s.qty, NEW tif, NEW leg, NEW base,
         PrepareOrder(c, s, q, s.qty, tif, leg, base)
  PROVE  ExposureInv'
<1>1. LoadState \in RuntimeState
  BY LoadStateType DEF ExposureInv
<1>2. mem'.exposure = LoadState.exposure
  BY <1>1, RecordPreSubmitType DEF ExposureInv, PrepareOrder
<1>3. /\ mem'.exposure + q * Limit(s) <= MaxOpenExposure
      /\ call'.sig = s /\ call'.qty = q /\ call'.total = s.qty
      /\ q >= 1
      /\ pc' = "logged" /\ exch' = exch /\ disk' = disk
  BY <1>2, ConstantsAssumption DEF PrepareOrder, KillSwitchesAllow
<1>4. Notional(call)' = q * Limit(s) /\ q * Limit(s) \in Nat
  <2>1. \A a \in Nat, b \in Nat : a * b \in Nat
    OBVIOUS
  <2>2. QED BY <1>3, <2>1, SignalArithmetic DEF Notional, Limit
<1>5. mem'.exposure \in Nat
  BY <1>1, <1>2 DEF RuntimeState
<1>6. mem'.exposure <= MaxOpenExposure + Overshoot
  BY <1>3, <1>4, <1>5, ConstantsAssumption
<1>7. CallSized' /\ CheckedInFull'
  BY <1>3, <1>4 DEF CallSized, CheckedInFull
<1>8. PlacedAsCalled' /\ FillsWithinCount' /\ ReportWithinCall'
  BY <1>3 DEF PlacedAsCalled, FillsWithinCount, ReportWithinCall, ExposureInv
<1>9. QED BY <1>3, <1>6, <1>7, <1>8 DEF ExposureInv, RecordedExposureBounded

LEMMA ExecutionExposure ==
  ASSUME ExposureInv, TypeOK',
         \/ \E s \in Signals, c \in Cids : ExecuteSignal(s, c)
         \/ \E c \in Cids : ExecuteFallback(c)
  PROVE  ExposureInv'
<1>1. ASSUME NEW s \in Signals, NEW c \in Cids, ExecuteSignal(s, c) PROVE ExposureInv'
  <2> DEFINE q == IF Policy = "hybrid" THEN HybridIocQty(s.qty) ELSE s.qty
             tif == IF Policy = "gtc" THEN "gtc" ELSE "ioc"
  <2>1. q \in Int /\ q <= s.qty
    BY SignalArithmetic
  <2>2. PrepareOrder(c, s, q, s.qty, tif, 1, Len(exch))
    BY <1>1 DEF ExecuteSignal
  <2> HIDE DEF q, tif
  <2>3. QED BY <2>1, <2>2, PrepareExposure
<1>2. ASSUME NEW c \in Cids, ExecuteFallback(c) PROVE ExposureInv'
  <2>1. call \in Call /\ rep \in Report /\ call.total = call.sig.qty
    BY <1>2 DEF ExecuteFallback, ExposureInv, TypeOK, CallSized
  <2>2. call.sig \in Signals /\ FallbackQty \in Int /\ FallbackQty <= call.sig.qty
    BY <2>1 DEF Call, Report, FallbackQty
  <2>3. PrepareOrder(c, call.sig, FallbackQty, call.sig.qty, "gtc", 2, call.base)
    BY <1>2, <2>1 DEF ExecuteFallback
  <2>4. QED BY <2>2, <2>3, PrepareExposure
<1>3. QED BY <1>1, <1>2

\* A call that returns, is stopped or dies leaves the file's exposure, or none.
LEMMA ReturnExposure ==
  ASSUME ExposureInv, TypeOK', pc' \in {"idle", "down"},
         disk'.exposure \in {0, disk.exposure, mem.exposure},
         mem'.exposure \in {0, disk.exposure, mem.exposure}, FillsWithinCount'
  PROVE  ExposureInv'
<1>1. MaxOpenExposure + Overshoot >= 0
  BY ConstantsAssumption
<1>2. RecordedExposureBounded' /\ mem'.exposure <= MaxOpenExposure + Overshoot
  BY <1>1 DEF ExposureInv, RecordedExposureBounded
<1>3. CallSized' /\ CheckedInFull' /\ PlacedAsCalled' /\ ReportWithinCall'
  BY DEF CallSized, CheckedInFull, PlacedAsCalled, ReportWithinCall, InOrder
<1>4. QED BY <1>2, <1>3 DEF ExposureInv

\* A placement: the order it adds is the one the call describes.
LEMMA PlacementExposure ==
  ASSUME ExposureInv, TypeOK', PlaceOrder \/ PlaceFailed \/ PlaceLost \/ PlaceDuplicate
  PROVE  ExposureInv'
<1> USE DEF InOrder
<1>1. TypeOK /\ call \in Call /\ pc = "saved"
  BY DEF ExposureInv, TypeOK, PlaceOrder, PlaceFailed, PlaceLost, PlaceDuplicate, Submits
<1>2. exch \in Seq(ExchangeOrder)
  BY <1>1 DEF TypeOK
<1>3. Rounded(call.qty) \in Nat
  BY <1>1, SignalArithmetic DEF Call
<1>4. ASSUME NEW statuses, Accepts(statuses)
      PROVE  /\ FillsWithinCount'
             /\ exch'[Len(exch) + 1].price \in YesPrices(call.sig)
             /\ exch'[Len(exch) + 1].count = Rounded(call.qty)
  <2>1. PICK status \in statuses, price \in YesPrices(call.sig) :
          exch' = Append(exch, NewOrder(status, price))
    BY <1>4 DEF Accepts
  <2> DEFINE x == NewOrder(status, price)
  <2>2. x.price = price /\ x.count = Rounded(call.qty) /\ x.filled = 0
    BY DEF NewOrder
  <2> HIDE DEF x
  <2>3. exch' = Append(exch, x)
    BY <2>1 DEF x
  <2>4. QED BY <1>2, <1>3, <2>2, <2>3 DEF ExposureInv, FillsWithinCount
<1>5. CASE PlaceOrder
  <2>1. FillsWithinCount' /\ exch'[oid'].price \in YesPrices(call.sig)
        /\ exch'[oid'].count = Rounded(call.qty)
    BY <1>4, <1>5 DEF PlaceOrder
  <2>2. pc' = "placed" /\ UNCHANGED <<mem, disk, call>>
    BY <1>5 DEF PlaceOrder
  <2>3. CallSized' /\ CheckedInFull' /\ PlacedAsCalled' /\ ReportWithinCall'
    BY <1>1, <2>1, <2>2
       DEF ExposureInv, CallSized, CheckedInFull, Notional, PlacedAsCalled, ReportWithinCall
  <2>4. QED BY <2>1, <2>2, <2>3 DEF ExposureInv, RecordedExposureBounded
<1>6. ASSUME NEW retryable \in BOOLEAN, RetryOrReturn(retryable), FillsWithinCount'
      PROVE  ExposureInv'
  <2>1. CASE retryable /\ tries < MaxRetries
    <3>1. UNCHANGED <<pc, mem, disk, call>>
      BY <1>6, <2>1 DEF RetryOrReturn
    <3>2. QED
      BY <1>1, <1>6, <3>1 DEF ExposureInv, RecordedExposureBounded, CallSized,
         CheckedInFull, Notional, PlacedAsCalled, ReportWithinCall
  <2>2. CASE ~(retryable /\ tries < MaxRetries)
    BY <1>6, <2>2, ReturnExposure DEF RetryOrReturn
  <2>3. QED BY <2>1, <2>2
<1>7. CASE PlaceFailed
  BY <1>6, <1>7 DEF PlaceFailed, ExposureInv, FillsWithinCount
<1>8. CASE PlaceLost
  BY <1>4, <1>6, <1>8 DEF PlaceLost
<1>9. CASE PlaceDuplicate
  BY <1>6, <1>9 DEF PlaceDuplicate, ExposureInv, FillsWithinCount
<1>10. QED BY <1>5, <1>7, <1>8, <1>9

\* A report is received: it is within the call.
LEMMA ReportingExposure ==
  ASSUME ExposureInv, TypeOK', FirstReport \/ PollReport \/ RecheckReport \/ QueryError
  PROVE  ExposureInv'
<1> USE DEF InOrder
<1>1. ASSUME pc \in {"placed", "poll", "cancel", "recheck"},
             pc' \in {"poll", "cancel", "settle"},
             rep'.filled * rep'.price <= Notional(call) + Overshoot,
             UNCHANGED <<mem, disk, exch, call, oid>>
      PROVE  ExposureInv'
  BY <1>1 DEF ExposureInv, RecordedExposureBounded, CallSized, CheckedInFull, Notional,
     PlacedAsCalled, FillsWithinCount, ReportWithinCall
<1>2. CASE FirstReport
  BY <1>1, <1>2, ReportBound DEF FirstReport, Received, AfterPolls
<1>3. CASE PollReport
  BY <1>1, <1>3, ReportBound DEF PollReport, Received, AfterPolls
<1>4. CASE RecheckReport
  <2>1. rep'.filled * rep'.price <= Notional(call) + Overshoot
    BY <1>4, ReportBound
       DEF RecheckReport, RecheckedReports, ExposureInv, ReportWithinCall
  <2>2. QED BY <1>1, <1>4, <2>1 DEF RecheckReport
<1>5. CASE QueryError
  BY <1>5, ReturnExposure
     DEF QueryError, ReturnError, ExposureInv, FillsWithinCount
<1>6. QED BY <1>2, <1>3, <1>4, <1>5

\* A cancel, a fill or the end of an order leaves its size and price alone.
LEMMA ExchangeExposure ==
  ASSUME ExposureInv, TypeOK',
         CancelOrder \/ \E o \in DOMAIN exch : ExchangeFill(o) \/ ExchangeCancel(o)
  PROVE  ExposureInv'
<1> USE DEF InOrder, locals
<1>1. TypeOK /\ exch \in Seq(ExchangeOrder)
  BY DEF ExposureInv, TypeOK
<1>2. /\ DOMAIN exch' = DOMAIN exch
      /\ \A o \in DOMAIN exch : /\ exch'[o].price = exch[o].price
                                /\ exch'[o].count = exch[o].count
                                /\ exch'[o].filled <= exch'[o].count
  <2>1. \A o \in DOMAIN exch :
          exch[o] \in ExchangeOrder /\ exch[o].filled <= exch[o].count
    BY <1>1 DEF ExposureInv, FillsWithinCount
  <2>2. CASE CancelOrder
    <3>1. oid \in DOMAIN exch
      BY <1>1, <2>2 DEF CancelOrder, TypeOK
    <3> DEFINE x == [exch[oid] EXCEPT !.status = "Canceled"]
    <3>2. exch' = exch \/ exch' = [exch EXCEPT ![oid] = x]
      BY <2>2 DEF CancelOrder, Canceling
    <3>3. x.price = exch[oid].price /\ x.count = exch[oid].count
          /\ x.filled = exch[oid].filled
      BY <2>1, <3>1 DEF ExchangeOrder
    <3> HIDE DEF x
    <3>4. QED BY <1>1, <2>1, <3>1, <3>2, <3>3
  <2>3. ASSUME NEW o \in DOMAIN exch, ExchangeFill(o) PROVE <1>2
    <3> DEFINE n == exch[o].filled + 2
               status == IF n = exch[o].count THEN "Filled" ELSE exch[o].status
               x == [exch[o] EXCEPT !.filled = n, !.status = status]
    <3>1. n <= exch[o].count /\ exch' = [exch EXCEPT ![o] = x]
      BY <2>3 DEF ExchangeFill
    <3> HIDE DEF n, status
    <3>2. x.price = exch[o].price /\ x.count = exch[o].count /\ x.filled = n
      BY <2>1 DEF ExchangeOrder
    <3> HIDE DEF x
    <3>3. QED BY <1>1, <2>1, <3>1, <3>2
  <2>4. ASSUME NEW o \in DOMAIN exch, ExchangeCancel(o) PROVE <1>2
    BY <1>1, <2>1, <2>4 DEF ExchangeCancel, ExchangeOrder
  <2>5. QED BY <2>2, <2>3, <2>4
<1>3. /\ UNCHANGED <<mem, disk, call, oid, rep>>
      /\ pc' = pc \/ (pc = "cancel" /\ pc' = "recheck") \/ (pc = "rcancel" /\ pc' = "rrecheck")
  BY DEF CancelOrder, ExchangeFill, ExchangeCancel
<1>4. oid \in DOMAIN exch \/ pc \notin {"placed", "poll", "cancel", "recheck"}
  BY <1>1 DEF TypeOK
<1>5. FillsWithinCount' /\ PlacedAsCalled'
  BY <1>2, <1>3, <1>4 DEF ExposureInv, FillsWithinCount, PlacedAsCalled
<1>6. CallSized' /\ CheckedInFull' /\ ReportWithinCall'
  BY <1>3 DEF ExposureInv, CallSized, CheckedInFull, ReportWithinCall, Notional
<1>7. QED BY <1>3, <1>5, <1>6 DEF ExposureInv, RecordedExposureBounded

\* An order leaves the process, a report is settled, the state is saved.
LEMMA SettlementExposure ==
  ASSUME ExposureInv, TypeOK', SettleReport \/ SaveReport \/ SavePreSubmit \/ PaperFill
                               \/ FallbackRefused \/ IoError
  PROVE  ExposureInv'
<1> USE DEF InOrder, locals
<1>1. TypeOK /\ mem \in RuntimeState
  BY DEF ExposureInv, TypeOK
<1>2. CASE SettleReport
  <2>1. rep \in Report /\ call \in Call /\ call.cid \in Cids /\ oid \in Nat
    BY <1>1, <1>2 DEF TypeOK, SettleReport, Call
  <2>2. mem'.exposure <= mem.exposure + rep.filled * rep.price
    BY <1>1, <1>2, <2>1, FinalizeType DEF SettleReport
  <2>3. rep.filled * rep.price <= Notional(call) + Overshoot
        /\ mem.exposure + Notional(call) <= MaxOpenExposure
    BY <1>2 DEF SettleReport, ExposureInv, ReportWithinCall, CheckedInFull
  <2>4. rep.filled * rep.price \in Nat
    <3>1. \A a \in Nat, b \in Nat : a * b \in Nat
      OBVIOUS
    <3>2. QED BY <2>1, <3>1 DEF Report
  <2>5. mem'.exposure \in Nat
    BY DEF TypeOK, RuntimeState
  <2>6. mem'.exposure <= MaxOpenExposure + Overshoot
    <3>1. \A m \in Nat, e \in Nat, r \in Nat, n \in Nat, cap \in Nat, over \in Nat :
            m <= e + r /\ r <= n + over /\ e + n <= cap => m <= cap + over
      OBVIOUS
    <3>2. QED BY <1>1, <2>1, <2>2, <2>3, <2>4, <2>5, <3>1, ExposureNumbers, ConstantsAssumption
  <2>7. CallSized' /\ CheckedInFull' /\ PlacedAsCalled' /\ FillsWithinCount' /\ ReportWithinCall'
    BY <1>2 DEF SettleReport, ExposureInv, CallSized, CheckedInFull, PlacedAsCalled,
       FillsWithinCount, ReportWithinCall
  <2>8. QED BY <1>2, <2>6, <2>7 DEF SettleReport, ExposureInv, RecordedExposureBounded
<1>3. CASE SaveReport
  <2>1. pc' \in {"fallback", "idle"} /\ disk' = mem /\ pc = "reported"
        /\ UNCHANGED <<mem, exch, call>>
    BY <1>3 DEF SaveReport
  <2>2. QED
    BY <2>1 DEF ExposureInv, RecordedExposureBounded, CallSized, CheckedInFull,
       PlacedAsCalled, FillsWithinCount, ReportWithinCall
<1>4. CASE SavePreSubmit
  BY <1>4 DEF SavePreSubmit, ExposureInv, RecordedExposureBounded, CallSized, CheckedInFull,
     Notional, PlacedAsCalled, FillsWithinCount, ReportWithinCall
<1>5. CASE PaperFill
  <2>1. call \in Call /\ call.qty \in Nat /\ call.sig \in Signals
    BY <1>1, <1>5 DEF PaperFill, TypeOK, Call
  <2>2. call.sig.ask \in Nat /\ Limit(call.sig) \in Nat
    BY <2>1, SignalArithmetic, SMTT(30)
  <2>3. rep'.filled * rep'.price <= Notional(call) + Overshoot
    <3>1. CASE Limit(call.sig) >= call.sig.ask
      <4>1. rep'.filled = call.qty /\ rep'.price = call.sig.ask
        BY <1>5, <3>1 DEF PaperFill
      <4>2. call.sig.ask * call.qty <= Limit(call.sig) * call.qty
        BY <2>1, <2>2, <3>1, MulMono
      <4>3. \A a \in Nat, b \in Nat : a * b = b * a
        OBVIOUS
      <4>4. call.qty * call.sig.ask <= call.qty * Limit(call.sig)
        BY <2>1, <2>2, <4>2, <4>3
      <4>5. rep'.filled * rep'.price <= Notional(call)
        BY <4>1, <4>4 DEF Notional
      <4>6. \A a \in Nat, b \in Nat : a * b \in Nat
        OBVIOUS
      <4>7. rep'.filled * rep'.price \in Nat /\ Notional(call) \in Nat
        BY <2>1, <2>2, <4>1, <4>6 DEF Notional
      <4>8. \A m \in Nat, n \in Nat, over \in Nat : m <= n => m <= n + over
        OBVIOUS
      <4>9. QED BY <4>5, <4>7, <4>8, ConstantsAssumption
    <3>2. CASE ~(Limit(call.sig) >= call.sig.ask)
      <4>1. rep'.filled = 0 /\ rep'.price = Limit(call.sig)
        BY <1>5, <3>2 DEF PaperFill
      <4>2. 0 * Limit(call.sig) = 0
        BY <2>2
      <4>3. QED BY <1>1, <2>1, <4>1, <4>2, ExposureNumbers, ConstantsAssumption
    <3>3. QED BY <3>1, <3>2
  <2>4. QED
    BY <1>5, <2>3 DEF PaperFill, ExposureInv, RecordedExposureBounded, CallSized,
       CheckedInFull, Notional, PlacedAsCalled, FillsWithinCount, ReportWithinCall
<1>6. ReturnError => ExposureInv'
  BY ReturnExposure DEF ReturnError, ExposureInv, FillsWithinCount
<1>7. CASE FallbackRefused \/ IoError
  BY <1>6, <1>7 DEF FallbackRefused, IoError
<1>8. QED BY <1>2, <1>3, <1>4, <1>5, <1>7

\* The life of the process and the startup reconciliation.
LEMMA LifeExposure ==
  ASSUME ExposureInv, TypeOK',
         \/ Start \/ Stop \/ Crash \/ Tick \/ ReconcileError \/ ReconcileSave
         \/ \E x \in todo : ReconcileQuery(x) \/ ReconcileRecheck(x) \/ ReconcilePrune(x)
  PROVE  ExposureInv'
<1> USE DEF locals
<1>1. TypeOK
  BY DEF ExposureInv
<1>2. ASSUME pc' \in {"reconcile", "rcancel", "rrecheck"},
             mem'.exposure \in {0, disk.exposure, mem.exposure}, UNCHANGED <<disk, exch>>
      PROVE  ExposureInv'
  <2>1. mem'.exposure <= MaxOpenExposure + Overshoot
    BY <1>2, ConstantsAssumption DEF ExposureInv, RecordedExposureBounded
  <2>2. QED
    BY <1>2, <2>1 DEF ExposureInv, RecordedExposureBounded, CallSized, CheckedInFull,
       PlacedAsCalled, FillsWithinCount, ReportWithinCall, InOrder
<1>3. CASE Start
  <2>1. \/ pc' = "reconcile" /\ mem' = LoadState
        \/ pc' = "idle" /\ mem' = disk
    BY <1>3 DEF Start
  <2>2. UNCHANGED <<disk, exch>>
    BY <1>3 DEF Start
  <2>3. CASE pc' = "reconcile" /\ mem' = LoadState
    BY <1>1, <1>2, <2>2, <2>3, ExposureNumbers
  <2>4. CASE pc' = "idle" /\ mem' = disk
    BY <2>2, <2>4, ReturnExposure DEF ExposureInv, FillsWithinCount
  <2>5. QED BY <2>1, <2>3, <2>4
<1>4. CASE Stop
  BY <1>4, ReturnExposure DEF Stop, ExposureInv, FillsWithinCount
<1>5. CASE Crash
  BY <1>1, <1>5, ReturnExposure, ExposureNumbers DEF Crash, ExposureInv, FillsWithinCount
<1>6. CASE Tick
  BY <1>6 DEF Tick, ExposureInv, RecordedExposureBounded, CallSized, CheckedInFull, Notional,
     PlacedAsCalled, FillsWithinCount, ReportWithinCall
<1>7. CASE ReconcileError
  BY <1>7, ReturnExposure DEF ReconcileError, ReturnError, ExposureInv, FillsWithinCount
<1>8. CASE ReconcileSave
  <2>1. disk'.exposure = mem.exposure /\ mem' = disk'
    BY <1>1, <1>8 DEF ReconcileSave, TypeOK, RuntimeState
  <2>2. QED
    BY <1>8, <2>1, ReturnExposure DEF ReconcileSave, ExposureInv, FillsWithinCount
<1>9. ASSUME NEW x \in todo, ReconcileQuery(x) \/ ReconcileRecheck(x) \/ ReconcilePrune(x)
      PROVE  ExposureInv'
  <2>1. pc' \in {"reconcile", "rcancel"} /\ UNCHANGED <<mem, disk, exch>>
    BY <1>9 DEF ReconcileQuery, ReconcileRecheck, ReconcilePrune, Decide, Tracked
  <2>2. QED BY <1>2, <2>1
<1>10. QED BY <1>3, <1>4, <1>5, <1>6, <1>7, <1>8, <1>9

LEMMA InitExposure == Init => ExposureInv
<1> SUFFICES ASSUME Init PROVE ExposureInv
  OBVIOUS
<1>1. TypeOK
  BY InitType
<1>2. disk.exposure = 0 /\ mem.exposure = 0
  BY DEF Init, DefaultForToday
<1>3. RecordedExposureBounded /\ mem.exposure <= MaxOpenExposure + Overshoot
  BY <1>2, ConstantsAssumption DEF RecordedExposureBounded
<1>4. CallSized /\ CheckedInFull /\ PlacedAsCalled /\ FillsWithinCount /\ ReportWithinCall
  BY DEF Init, CallSized, CheckedInFull, PlacedAsCalled, FillsWithinCount, ReportWithinCall,
     InOrder
<1>5. QED BY <1>1, <1>3, <1>4 DEF ExposureInv

LEMMA ExposureInvariant == Spec => []ExposureInv
<1>1. ExposureInv /\ [Next]_vars /\ TypeOK' => ExposureInv'
  <2> SUFFICES ASSUME ExposureInv, [Next]_vars, TypeOK' PROVE ExposureInv'
    OBVIOUS
  <2>1. CASE EngineStep
    BY <2>1, PlacementExposure, ReportingExposure, ExchangeExposure, SettlementExposure,
       ExecutionExposure, LifeExposure DEF EngineStep
  <2>2. CASE \E s \in Signals, c \in Cids : ExecuteSignal(s, c)
    BY <2>2, ExecutionExposure
  <2>3. CASE Start \/ Stop \/ Crash
    BY <2>3, LifeExposure
  <2>4. CASE Environment
    BY <2>4, ExchangeExposure, LifeExposure DEF Environment
  <2>5. CASE UNCHANGED vars
    BY <2>5 DEF vars, locals, ExposureInv, RecordedExposureBounded, CallSized, CheckedInFull,
       Notional, PlacedAsCalled, FillsWithinCount, ReportWithinCall
  <2>6. QED BY <2>1, <2>2, <2>3, <2>4, <2>5 DEF Next
<1>2. QED BY InitExposure, TypeCorrect, <1>1, PTL DEF Spec

\* The exposure in the state file never passes the limit of the kill switch by
\* more than the overshoot of one order, in any behaviour with any faults.
THEOREM ExposureBounded == Spec => []RecordedExposureBounded
<1>1. ExposureInv => RecordedExposureBounded
  BY DEF ExposureInv
<1>2. QED BY ExposureInvariant, <1>1, PTL
==============================================================================
