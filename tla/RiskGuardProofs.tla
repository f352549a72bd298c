--------------------------- MODULE RiskGuardProofs ---------------------------
(***************************************************************************)
(* Proofs about the risk guards, for every value of the constants.         *)
(***************************************************************************)
EXTENDS RiskGuard, FiniteSetTheorems, SequenceTheorems, WellFoundedInduction, TLAPS

(***************************************************************************)
(* What a step adds to the journal.                                        *)
(***************************************************************************)

\* An entry is appended after all the others, which stay as they are.
LEMMA AppendEntry ==
  ASSUME TypeOK, NEW e \in JournalEntry, journal' = Append(journal, e)
  PROVE  /\ journal' \in Seq(JournalEntry)
         /\ Len(journal) + 1 \in Nat /\ Len(journal) + 1 \notin DOMAIN journal
         /\ \A i \in DOMAIN journal : i \in Nat /\ i < Len(journal) + 1
         /\ DOMAIN journal' = DOMAIN journal \cup {Len(journal) + 1}
         /\ journal'[Len(journal) + 1] = e
         /\ \A i \in DOMAIN journal : journal'[i] = journal[i]
  BY DEF TypeOK

IntentEntry(a, c, leg) ==
  [event |-> "order_intent", cid |-> c, ticker |-> a.ticker, outcome |-> a.outcome,
   leg |-> leg, status |-> "None", value |-> 0, invalid |-> FALSE, at |-> now]

\* Another intent leaves the reports, the fills and the errors of every market
\* alone: a report counts for the intents before it only.
LEMMA AppendIntent ==
  ASSUME TypeOK, NEW a, NEW c \in Cids, NEW leg \in {1, 2},
         a.ticker \in Tickers, a.outcome \in Outcomes,
         journal' = Append(journal, IntentEntry(a, c, leg))
  PROVE  /\ journal' \in Seq(JournalEntry)
         /\ Len(journal) + 1 \in Nat /\ Len(journal) + 1 \notin DOMAIN journal
         /\ \A i \in DOMAIN journal : i \in Nat /\ i < Len(journal) + 1
         /\ journal'[Len(journal) + 1] = IntentEntry(a, c, leg)
         /\ \A i \in DOMAIN journal : journal'[i] = journal[i]
         /\ Events("order_intent")' = Events("order_intent") \cup {Len(journal) + 1}
         /\ Events("order_report")' = Events("order_report")
         /\ Used' = Used \cup {c}
         /\ \A t : /\ ReportsOn(t)' = ReportsOn(t) /\ InvalidsOn(t)' = InvalidsOn(t)
                   /\ FillsOn(t)' = FillsOn(t)
<1> DEFINE e == IntentEntry(a, c, leg)
           n == Len(journal) + 1
<1>1. e \in JournalEntry /\ e.event = "order_intent" /\ e.cid = c
  BY DEF IntentEntry, JournalEntry, TypeOK
<1>2. journal' = Append(journal, e)
  OBVIOUS
<1> HIDE DEF e
<1>3. /\ journal' \in Seq(JournalEntry)
      /\ n \in Nat /\ n \notin DOMAIN journal
      /\ \A i \in DOMAIN journal : i \in Nat /\ i < n
      /\ DOMAIN journal' = DOMAIN journal \cup {n}
      /\ journal'[n] = e
      /\ \A i \in DOMAIN journal : journal'[i] = journal[i]
  BY <1>1, <1>2, AppendEntry
<1> HIDE DEF n
<1>4. /\ Events("order_intent")' = Events("order_intent") \cup {n}
      /\ Events("order_report")' = Events("order_report")
      /\ Events("order_error")' = Events("order_error")
  BY <1>1, <1>3 DEF Events
<1>5. Used' = Used \cup {c}
  BY <1>1, <1>3, <1>4 DEF Used, Events
<1>6. ASSUME NEW t PROVE ReportsOn(t)' = ReportsOn(t)
  <2>1. ASSUME NEW i \in Events("order_report")
        PROVE  /\ i \in DOMAIN journal /\ i \in Nat /\ ~(n < i)
               /\ journal'[i] = journal[i]
    BY <1>3 DEF Events
  <2>2. \A j \in Events("order_intent") : journal'[j] = journal[j]
    BY <1>3 DEF Events
  <2>3. QED BY <1>4, <2>1, <2>2 DEF ReportsOn
<1>7. ASSUME NEW t PROVE InvalidsOn(t)' = InvalidsOn(t)
  BY <1>3, <1>4 DEF InvalidsOn, Events
<1>8. ASSUME NEW t PROVE FillsOn(t)' = FillsOn(t)
  BY <1>3, <1>6, SMTT(30) DEF FillsOn, ReportsOn, Events
<1>9. QED BY <1>3, <1>4, <1>5, <1>6, <1>7, <1>8 DEF e, n

\* An id is intended once; the order being submitted is intended, for the
\* market of its trade.
IntentsOnce ==
  \A i, j \in Events("order_intent") :
    journal[i].cid \in Cids /\ (journal[i].cid = journal[j].cid => i = j)

OwnIntent ==
  Submitting => \E i \in Events("order_intent") :
                  journal[i].cid = call.cid /\ journal[i].ticker = call.ticker

\* A report or an error of the order being submitted is one more for its
\* market, and changes nothing for the others.
LEMMA AppendOutcome ==
  ASSUME TypeOK, IntentsOnce, OwnIntent, Submitting, NEW e \in JournalEntry,
         e.event \in {"order_report", "order_error"}, e.cid \in {call.cid, Nil},
         e.ticker = call.ticker, journal' = Append(journal, e)
  PROVE  /\ Len(journal) + 1 \in Nat /\ Len(journal) + 1 \notin DOMAIN journal
         /\ \A i \in DOMAIN journal : i \in Nat /\ i < Len(journal) + 1
         /\ journal' \in Seq(JournalEntry)
         /\ journal'[Len(journal) + 1] = e
         /\ \A i \in DOMAIN journal : journal'[i] = journal[i]
         /\ Events("order_intent")' = Events("order_intent")
         /\ Events("order_report")' = IF e.event = "order_report"
                                      THEN Events("order_report") \cup {Len(journal) + 1}
                                      ELSE Events("order_report")
         /\ Used' = Used
         /\ \A t : /\ ReportsOn(t) \subseteq ReportsOn(t)'
                   /\ ReportsOn(t)' \subseteq ReportsOn(t) \cup {Len(journal) + 1}
                   /\ InvalidsOn(t)' \subseteq InvalidsOn(t) \cup {Len(journal) + 1}
                   /\ t # call.ticker \/ e.event # "order_report" => ReportsOn(t)' = ReportsOn(t)
                   /\ t # call.ticker => InvalidsOn(t)' = InvalidsOn(t)
<1> DEFINE n == Len(journal) + 1
<1>1. /\ journal' \in Seq(JournalEntry)
      /\ n \in Nat /\ n \notin DOMAIN journal
      /\ \A i \in DOMAIN journal : i \in Nat /\ i < n
      /\ DOMAIN journal' = DOMAIN journal \cup {n}
      /\ journal'[n] = e
      /\ \A i \in DOMAIN journal : journal'[i] = journal[i]
  BY AppendEntry
<1> HIDE DEF n
<1>2. /\ Events("order_intent")' = Events("order_intent")
      /\ Events("order_report")' = IF e.event = "order_report"
                                   THEN Events("order_report") \cup {n}
                                   ELSE Events("order_report")
      /\ Events("order_error")' = IF e.event = "order_error"
                                  THEN Events("order_error") \cup {n}
                                  ELSE Events("order_error")
  BY <1>1 DEF Events
<1>3. Used' = Used
  BY <1>1, <1>2 DEF Used, Events
<1>4. PICK k \in Events("order_intent") :
        /\ journal[k].cid = call.cid /\ journal[k].ticker = call.ticker
        /\ \A j \in Events("order_intent") : journal[j].cid = e.cid => j = k
  BY GuardAssumption DEF OwnIntent, IntentsOnce
<1>5. ASSUME NEW t PROVE /\ ReportsOn(t) \subseteq ReportsOn(t)'
                         /\ ReportsOn(t)' \subseteq ReportsOn(t) \cup {n}
                         /\ t # call.ticker \/ e.event # "order_report" => ReportsOn(t)' = ReportsOn(t)
  <2>1. \A j \in Events("order_intent") : journal'[j] = journal[j] /\ j < n
    BY <1>1 DEF Events
  <2>2. \A i \in Events("order_report") : journal'[i] = journal[i] /\ i # n
    BY <1>1 DEF Events
  <2>3. \A i \in Events("order_report") : i \in ReportsOn(t)' <=> i \in ReportsOn(t)
    BY <1>2, <2>1, <2>2 DEF ReportsOn
  <2>4. n \in ReportsOn(t)' => t = call.ticker /\ e.event = "order_report"
    BY <1>1, <1>2, <1>4, <2>1, <2>2 DEF ReportsOn, Events
  <2>5. ReportsOn(t) \subseteq Events("order_report") /\ ReportsOn(t)' \subseteq Events("order_report")'
    BY DEF ReportsOn
  <2>6. QED BY <1>2, <2>3, <2>4, <2>5
<1>6. ASSUME NEW t PROVE /\ InvalidsOn(t)' \subseteq InvalidsOn(t) \cup {n}
                         /\ t # call.ticker => InvalidsOn(t)' = InvalidsOn(t)
  <2>1. \A i \in Events("order_error") : journal'[i] = journal[i]
    BY <1>1 DEF Events
  <2>2. QED BY <1>1, <1>2, <2>1 DEF InvalidsOn, Events
<1>7. QED BY <1>1, <1>2, <1>3, <1>5, <1>6 DEF n

(***************************************************************************)
(* Types.                                                                  *)
(***************************************************************************)

\* What the allocator proposes are trades.
LEMMA TradesType == Trades \subseteq Trade
BY GuardAssumption DEF Trades, Trade

LEMMA ProposalsType == Proposals \subseteq Seq(Trades)
<1>1. \A a \in Trades : <<a>> \in Seq(Trades)
  OBVIOUS
<1>2. \A A \in {<<a>> : a \in Trades} : A \in Seq(Trades)
  BY <1>1
<1>3. ASSUME NEW A \in {<<a, b>> : a, b \in Trades} PROVE A \in Seq(Trades)
  <2>1. PICK a \in Trades, b \in Trades : A = <<a, b>>
    OBVIOUS
  <2>2. QED BY <2>1
<1>4. QED BY <1>2, <1>3 DEF Proposals

\* What the guards admit are proposed trades, each of them once.
LEMMA CycleAdmits ==
  ASSUME NEW A \in Seq(Trades), NEW f \in Ordered(Admitted(A))
  PROVE  /\ DOMAIN f = 1..Cardinality(Admitted(A)) /\ Cardinality(Admitted(A)) \in Nat
         /\ \A i \in DOMAIN f : f[i] \in DOMAIN A /\ A[f[i]] \in Trades /\ Admits(A[f[i]])
         /\ \A i, j \in DOMAIN f : f[i] = f[j] => i = j
         /\ [i \in DOMAIN f |-> A[f[i]]] \in Seq(Trade)
<1>3. Admitted(A) \subseteq 1..Len(A) /\ Len(A) \in Nat /\ DOMAIN A = 1..Len(A)
  BY DEF Admitted
<1>4. Cardinality(Admitted(A)) \in Nat
  <2>1. IsFiniteSet(1..Len(A))
    BY <1>3, FS_Interval
  <2>2. IsFiniteSet(Admitted(A))
    BY <1>3, <2>1, FS_Subset
  <2>3. QED BY <2>2, FS_CardinalityType
<1> DEFINE m == Cardinality(Admitted(A))
<1>5. f \in [1..m -> Admitted(A)] /\ \A i, j \in 1..m : i < j => f[i] < f[j]
  BY DEF Ordered
<1>6. m \in Nat
  BY <1>4
<1> HIDE DEF m
<1>7. \A i \in 1..m : f[i] \in DOMAIN A /\ A[f[i]] \in Trades /\ Admits(A[f[i]])
  BY <1>5 DEF Admitted
<1>8. \A i, j \in 1..m : f[i] = f[j] => i = j
  <2>1. \A i \in 1..m : f[i] \in Nat
    BY <1>3, <1>5
  <2>2. QED BY <1>5, <1>6, <2>1
<1>9. [i \in 1..m |-> A[f[i]]] \in Seq(Trade)
  <2>1. [i \in 1..m |-> A[f[i]]] \in [1..m -> Trade]
    BY <1>7, TradesType
  <2>2. QED BY <1>6, <2>1, SeqDef
<1>10. DOMAIN f = 1..m
  BY <1>5
<1>11. QED BY <1>4, <1>7, <1>8, <1>9, <1>10 DEF m

(***************************************************************************)
(* The shape of the state.  The order being submitted is new to the        *)
(* exchange and has no report, and no two trades under way, in the queue   *)
(* or in the call, are on one market.                                      *)
(***************************************************************************)
NotReported(c) == \A i \in Events("order_report") : journal[i].cid # c

CallFresh == Submitting => call.cid \notin DOMAIN orders /\ NotReported(call.cid)

ReportsUsed == \A i \in Events("order_report") : journal[i].cid \in Used \cup {Nil}

Apart ==
  /\ \A i, j \in DOMAIN queue : queue[i].ticker = queue[j].ticker => i = j
  /\ call # Nil => \A i \in DOMAIN queue : queue[i].ticker # call.ticker

ShapeInv == TypeOK /\ IntentsOnce /\ OwnIntent /\ CallFresh /\ ReportsUsed /\ Apart

\* An order that is accepted is added under the id of the call.
LEMMA AcceptAdds ==
  ASSUME ShapeInv, Submitting, NEW filled \in 0..call.size, NEW rests \in BOOLEAN,
         Accept(filled, rests)
  PROVE  /\ DOMAIN orders' = DOMAIN orders \cup {call.cid} /\ call.cid \in Used
         /\ \A c \in DOMAIN orders : orders'[c] = orders[c]
         /\ orders'[call.cid].rests = rests
         /\ \A c \in DOMAIN orders' : orders'[c] \in Order /\ orders'[c].filled <= orders'[c].size
<1>1. call \in Call /\ call.cid \notin DOMAIN orders
  BY DEF ShapeInv, TypeOK, Submitting, CallFresh
<1>2. call.cid \in Used
  BY DEF ShapeInv, OwnIntent, Used
<1> DEFINE new == [ticker |-> call.ticker, outcome |-> call.outcome, size |-> call.size,
                   filled |-> filled, rests |-> rests]
<1>3. new.rests = rests /\ new.filled = filled /\ new.size = call.size /\ filled <= call.size
  BY <1>1 DEF Call
<1>4. new \in Order
  <2>1. call.ticker \in Tickers /\ call.outcome \in Outcomes /\ call.size \in Nat /\ filled \in Nat
    BY <1>1 DEF Call
  <2>2. QED BY <2>1 DEF Order
<1>5. orders' = [c \in DOMAIN orders \cup {call.cid} |->
                   IF c \in DOMAIN orders THEN orders[c] ELSE new]
  BY DEF Accept
<1> HIDE DEF new
<1>6. \A c \in DOMAIN orders : orders'[c] = orders[c]
  BY <1>5
<1>7. orders'[call.cid] = new /\ DOMAIN orders' = DOMAIN orders \cup {call.cid}
  BY <1>1, <1>5
<1>8. \A c \in DOMAIN orders' : orders'[c] \in Order /\ orders'[c].filled <= orders'[c].size
  BY <1>3, <1>4, <1>6, <1>7 DEF ShapeInv, TypeOK
<1>9. QED BY <1>2, <1>3, <1>6, <1>7, <1>8

\* The trades of the queue stay where they were when trades leave it.
LEMMA QueueShrinks ==
  ASSUME queue \in Seq(Trade), queue' \in {queue, <<>>} \/ (queue # <<>> /\ queue' = Tail(queue))
  PROVE  /\ queue' \in Seq(Trade)
         /\ \A i \in DOMAIN queue' : \E k \in DOMAIN queue : queue'[i] = queue[k]
         /\ (\A i, j \in DOMAIN queue : queue[i].ticker = queue[j].ticker => i = j)
              => \A i, j \in DOMAIN queue' : queue'[i].ticker = queue'[j].ticker => i = j
<1>1. CASE queue' = queue
  BY <1>1
<1>2. CASE queue' = <<>>
  BY <1>2
<1>3. CASE queue # <<>> /\ queue' = Tail(queue)
  <2>1. /\ queue' \in Seq(Trade) /\ Len(queue') = Len(queue) - 1
        /\ \A i \in 1..Len(queue') : queue'[i] = queue[i + 1]
    BY <1>3, HeadTailProperties
  <2>2. DOMAIN queue = 1..Len(queue) /\ DOMAIN queue' = 1..Len(queue') /\ Len(queue) \in Nat
        /\ Len(queue') \in Nat
    BY <2>1, LenProperties
  <2>3. \A i \in DOMAIN queue' : i \in Nat /\ i + 1 \in DOMAIN queue /\ queue'[i] = queue[i + 1]
    BY <2>1, <2>2
  <2>4. QED BY <2>1, <2>3
<1>4. QED BY <1>1, <1>2, <1>3

\* A trade that begins was the first of the queue, and on a market of its own.
LEMMA HeadApart ==
  ASSUME ShapeInv, queue # <<>>, queue' = Tail(queue)
  PROVE  /\ Head(queue) \in Trade /\ 1 \in DOMAIN queue /\ Head(queue) = queue[1]
         /\ queue' \in Seq(Trade)
         /\ \A i \in DOMAIN queue' : queue'[i].ticker # Head(queue).ticker
<1>1. queue \in Seq(Trade)
  BY DEF ShapeInv, TypeOK
<1>2. /\ queue' \in Seq(Trade) /\ Len(queue') = Len(queue) - 1 /\ Head(queue) \in Trade
      /\ \A i \in 1..Len(queue') : queue'[i] = queue[i + 1]
  BY <1>1, HeadTailProperties
<1>3. DOMAIN queue = 1..Len(queue) /\ DOMAIN queue' = 1..Len(queue') /\ Len(queue) \in Nat \ {0}
  BY <1>1, <1>2, LenProperties, EmptySeq
<1>4. 1 \in DOMAIN queue /\ Head(queue) = queue[1]
  BY <1>1, <1>3
<1>5. \A i \in DOMAIN queue' : i \in Nat /\ i + 1 \in DOMAIN queue /\ i + 1 # 1
                               /\ queue'[i] = queue[i + 1]
  BY <1>2, <1>3
<1>6. QED BY <1>2, <1>4, <1>5 DEF ShapeInv, Apart

\* The call an intent is made for.
LEMMA IntendCall ==
  ASSUME NEW a, NEW c \in Cids, NEW n \in Nat, NEW leg \in {1, 2},
         a.ticker \in Tickers, a.outcome \in Outcomes, Intend(a, c, n, leg)
  PROVE  /\ call' \in Call /\ call'.cid = c /\ call'.ticker = a.ticker
         /\ call'.outcome = a.outcome /\ call'.leg = leg /\ call'.left = n
         /\ call'.size = LegSize(n, leg)
         /\ Policy = "hybrid" /\ leg = 1 => call'.ioc
<1> DEFINE ioc == Policy = "ioc" \/ (Policy = "hybrid" /\ leg = 1)
           d == [ticker |-> a.ticker, outcome |-> a.outcome, cid |-> c, leg |-> leg,
                 left |-> n, size |-> LegSize(n, leg), ioc |-> ioc]
<1>1. LegSize(n, leg) \in Nat
  <2>1. \A m \in Nat : (m + 1) \div 2 \in Nat
    OBVIOUS
  <2>2. QED BY <2>1 DEF LegSize
<1>2. call' = d
  BY DEF Intend
<1>3. ioc \in BOOLEAN /\ (Policy = "hybrid" /\ leg = 1 => ioc)
  OBVIOUS
<1> HIDE DEF ioc
<1>4. d \in Call
  BY <1>1, <1>3 DEF Call
<1>5. /\ d.cid = c /\ d.ticker = a.ticker /\ d.outcome = a.outcome /\ d.leg = leg
      /\ d.left = n /\ d.size = LegSize(n, leg)
  OBVIOUS
<1>6. d.ioc = ioc
  OBVIOUS
<1> HIDE DEF d
<1>7. Policy = "hybrid" /\ leg = 1 => d.ioc
  BY <1>3, <1>6
<1>8. QED BY <1>2, <1>4, <1>5, <1>7

\* An intent takes a new id, for a market the queue has no other trade on.
LEMMA IntendShape ==
  ASSUME ShapeInv, NEW a, NEW c \in Cids, NEW n \in Nat, NEW leg \in {1, 2},
         a.ticker \in Tickers, a.outcome \in Outcomes, Intend(a, c, n, leg),
         UNCHANGED <<now, orders>>, queue' \in Seq(Trade),
         \A i, j \in DOMAIN queue' : queue'[i].ticker = queue'[j].ticker => i = j,
         \A i \in DOMAIN queue' : queue'[i].ticker # a.ticker
  PROVE  ShapeInv'
<1>1. TypeOK /\ c \notin Used /\ journal' = Append(journal, IntentEntry(a, c, leg))
  BY DEF ShapeInv, Intend, IntentEntry
<1> DEFINE k == Len(journal) + 1
<1> DEFINE e == IntentEntry(a, c, leg)
<1>0. e.cid = c /\ e.ticker = a.ticker
  BY DEF IntentEntry
<1> HIDE DEF e
<1>2. /\ journal' \in Seq(JournalEntry) /\ k \notin DOMAIN journal
      /\ journal'[k].cid = c /\ journal'[k].ticker = a.ticker
      /\ \A i \in DOMAIN journal : journal'[i] = journal[i]
      /\ Events("order_intent")' = Events("order_intent") \cup {k}
      /\ Events("order_report")' = Events("order_report")
      /\ Used' = Used \cup {c}
  <2>1. journal'[k] = e
    BY <1>1, AppendIntent DEF e
  <2>2. QED BY <1>0, <1>1, <2>1, AppendIntent
<1> HIDE DEF k
<1>3. call' \in Call /\ call'.cid = c /\ call'.ticker = a.ticker
  BY IntendCall
<1>4. TypeOK'
  BY <1>1, <1>2, <1>3 DEF TypeOK
<1>5. IntentsOnce'
  BY <1>1, <1>2 DEF ShapeInv, IntentsOnce, Used, Events
<1>6. OwnIntent'
  BY <1>2, <1>3 DEF OwnIntent
<1>7. CallFresh' /\ ReportsUsed'
  <2>1. c \notin DOMAIN orders /\ c # Nil
    BY <1>1, GuardAssumption DEF TypeOK
  <2>2. \A i \in Events("order_report") : journal'[i].cid \in Used \cup {Nil}
    BY <1>2 DEF ShapeInv, ReportsUsed, Events
  <2>3. QED BY <1>1, <1>2, <1>3, <2>1, <2>2 DEF CallFresh, NotReported, ReportsUsed
<1>8. Apart'
  BY <1>3 DEF Apart
<1>9. QED BY <1>4, <1>5, <1>6, <1>7, <1>8 DEF ShapeInv

OrdersTyped ==
  /\ DOMAIN orders' \subseteq Used
  /\ \A c \in DOMAIN orders' : orders'[c] \in Order /\ orders'[c].filled <= orders'[c].size

\* A report or an error ends the submission; a second leg may be left to do.
LEMMA OutcomeShape ==
  ASSUME ShapeInv, Submitting, NEW e \in JournalEntry,
         e.event \in {"order_report", "order_error"}, e.cid \in {call.cid, Nil},
         e.ticker = call.ticker, journal' = Append(journal, e),
         UNCHANGED <<now, queue>>, OrdersTyped,
         call' = Nil \/ (call' \in Call /\ call'.cid = Nil /\ call'.ticker = call.ticker)
  PROVE  ShapeInv'
<1> DEFINE k == Len(journal) + 1
<1>1. /\ journal' \in Seq(JournalEntry) /\ k \notin DOMAIN journal
      /\ journal'[k] = e
      /\ \A i \in DOMAIN journal : journal'[i] = journal[i]
      /\ Events("order_intent")' = Events("order_intent")
      /\ Events("order_report")' \subseteq Events("order_report") \cup {k}
      /\ Used' = Used
  BY AppendOutcome DEF ShapeInv
<1> HIDE DEF k
<1>2. TypeOK'
  BY <1>1 DEF ShapeInv, TypeOK, OrdersTyped
<1>3. IntentsOnce'
  BY <1>1 DEF ShapeInv, IntentsOnce, Events
<1>4. OwnIntent' /\ CallFresh'
  BY DEF OwnIntent, CallFresh, Submitting
<1>5. ReportsUsed'
  <2>1. call.cid \in Used
    BY DEF ShapeInv, OwnIntent, Used
  <2>2. journal'[k].cid \in Used' \cup {Nil}
    BY <1>1, <2>1
  <2>3. ASSUME NEW i \in Events("order_report") PROVE journal'[i].cid \in Used' \cup {Nil}
    BY <1>1 DEF ShapeInv, ReportsUsed, Events
  <2>4. QED BY <1>1, <2>2, <2>3 DEF ReportsUsed
<1>6. Apart'
  BY DEF ShapeInv, Apart, Submitting
<1>7. QED BY <1>2, <1>3, <1>4, <1>5, <1>6 DEF ShapeInv

\* A step that journals nothing: time passes, orders fill, trades are dropped.
LEMMA QuietShape ==
  ASSUME ShapeInv, journal' = journal, now' \in Nat, OrdersTyped,
         queue' \in {queue, <<>>} \/ (queue # <<>> /\ queue' = Tail(queue)),
         call' = Nil \/ (call' = call /\ DOMAIN orders' = DOMAIN orders)
  PROVE  ShapeInv'
<1>1. /\ queue' \in Seq(Trade)
      /\ \A i \in DOMAIN queue' : \E k \in DOMAIN queue : queue'[i] = queue[k]
      /\ \A i, j \in DOMAIN queue' : queue'[i].ticker = queue'[j].ticker => i = j
  BY QueueShrinks DEF ShapeInv, TypeOK, Apart
<1>2. Used' = Used /\ \A ev : Events(ev)' = Events(ev)
  BY DEF Used, Events
<1>3. TypeOK'
  BY <1>1, <1>2 DEF ShapeInv, TypeOK, OrdersTyped
<1>4. IntentsOnce' /\ OwnIntent' /\ CallFresh' /\ ReportsUsed'
  BY <1>2 DEF ShapeInv, IntentsOnce, OwnIntent, CallFresh, ReportsUsed, NotReported, Submitting
<1>5. Apart'
  BY <1>1 DEF ShapeInv, Apart
<1>6. QED BY <1>3, <1>4, <1>5 DEF ShapeInv

\* What a step does, to the parts of the state the properties are about: the
\* guards admit the trades of a cycle, an intent is journaled, the submission
\* of an order comes to an end in the journal, or nothing is journaled.
Admission ==
  /\ queue = <<>> /\ call = Nil /\ UNCHANGED <<now, journal, orders, call>>
  /\ \E A \in Seq(Trades) :
       /\ \A i, j \in DOMAIN A : A[i].ticker = A[j].ticker => i = j
       /\ \E f \in Ordered(Admitted(A)) : queue' = [i \in DOMAIN f |-> A[f[i]]]

Quiet ==
  /\ journal' = journal /\ now' \in Nat /\ now <= now' /\ OrdersTyped
  /\ queue' \in {queue, <<>>} \/ (queue # <<>> /\ queue' = Tail(queue))
  /\ call' = Nil \/ (call' = call /\ DOMAIN orders' = DOMAIN orders)
  /\ \A c \in DOMAIN orders' :
       (c \in DOMAIN orders /\ (orders'[c].rests => orders[c].rests))
         \/ (Submitting /\ c = call.cid)

Ends(e, filled) ==
  /\ Submitting /\ e \in JournalEntry /\ journal' = Append(journal, e)
  /\ e.event \in {"order_report", "order_error"} /\ e.cid \in {call.cid, Nil}
  /\ e.ticker = call.ticker /\ e.outcome = call.outcome /\ e.at = now
  /\ UNCHANGED <<now, queue>> /\ OrdersTyped
  /\ DOMAIN orders' \subseteq DOMAIN orders \cup {call.cid}
  /\ \A c \in DOMAIN orders : c \in DOMAIN orders' /\ orders'[c] = orders[c]
  /\ filled \in 0..call.size
  /\ e.event = "order_report" =>
       /\ e.value <= NoPriceFactor * filled
       /\ call.cid \in DOMAIN orders' /\ orders'[call.cid].rests =>
            e.status \in OpenStatus /\ (call.ioc => "cancel_lost" \in Faults)
  /\ \/ call' = Nil
     \/ /\ Policy = "hybrid" /\ call.leg = 1
        /\ call' = [call EXCEPT !.leg = 2, !.left = call.left - filled, !.cid = Nil]
        /\ call' \in Call /\ call'.cid = Nil /\ call'.ticker = call.ticker
        /\ call'.outcome = call.outcome /\ call'.left = call.left - filled

\* The parameters of a call: a leg asks for no more than what is left of its
\* trade, and the first leg of a hybrid signal is an IOC order.
CallSized ==
  call # Nil =>
    /\ call.cid # Nil => call.size <= call.left
    /\ Policy = "hybrid" /\ call.leg = 1 => call.ioc

\* The second leg is left to do when the first filled less than the trade.
LEMMA AfterReportCall ==
  ASSUME call \in Call, NEW status, NEW filled \in Nat, AfterReport(status, filled)
  PROVE  \/ call' = Nil
         \/ /\ Policy = "hybrid" /\ call.leg = 1
            /\ call' = [call EXCEPT !.leg = 2, !.left = call.left - filled, !.cid = Nil]
            /\ call' \in Call /\ call'.cid = Nil /\ call'.ticker = call.ticker
            /\ call'.outcome = call.outcome /\ call'.left = call.left - filled
<1> DEFINE left == call.left - filled
           d == [call EXCEPT !.leg = 2, !.left = left, !.cid = Nil]
<1>1. CASE call.left > filled
  <2>1. left \in Nat
    BY <1>1 DEF Call
  <2> HIDE DEF left
  <2>2. d \in Call /\ d.cid = Nil /\ d.ticker = call.ticker /\ d.outcome = call.outcome
        /\ d.left = left
    BY <2>1 DEF Call
  <2>3. call' = Nil \/ (Policy = "hybrid" /\ call.leg = 1 /\ call' = d)
    BY DEF AfterReport, left
  <2> HIDE DEF d
  <2>4. QED BY <2>2, <2>3 DEF d, left
<1>2. CASE ~(call.left > filled)
  BY <1>2 DEF AfterReport
<1>3. QED BY <1>1, <1>2

\* A submission ends with a report.
LEMMA ReportEnds ==
  ASSUME ShapeInv, Submitting, UNCHANGED <<now, queue>>, NEW filled \in 0..call.size,
         NEW rests \in BOOLEAN, NEW e \in JournalEntry, journal' = Append(journal, e),
         e.event = "order_report", e.cid \in {call.cid, Nil},
         e.ticker = call.ticker, e.outcome = call.outcome, e.at = now,
         e.value <= NoPriceFactor * filled,
         rests => e.status \in OpenStatus /\ (call.ioc => "cancel_lost" \in Faults),
         Accept(filled, rests), NEW status, AfterReport(status, filled)
  PROVE  Ends(e, filled)
<1>1. call \in Call /\ filled \in Nat
  BY DEF ShapeInv, TypeOK, Submitting, Call
<1>2. /\ DOMAIN orders' = DOMAIN orders \cup {call.cid} /\ call.cid \in Used
      /\ \A d \in DOMAIN orders : orders'[d] = orders[d]
      /\ orders'[call.cid].rests = rests
      /\ \A d \in DOMAIN orders' : orders'[d] \in Order /\ orders'[d].filled <= orders'[d].size
  BY AcceptAdds
<1>3. OrdersTyped
  BY <1>2 DEF OrdersTyped, ShapeInv, TypeOK
<1>4. \/ call' = Nil
      \/ /\ Policy = "hybrid" /\ call.leg = 1
         /\ call' = [call EXCEPT !.leg = 2, !.left = call.left - filled, !.cid = Nil]
         /\ call' \in Call /\ call'.cid = Nil /\ call'.ticker = call.ticker
         /\ call'.outcome = call.outcome /\ call'.left = call.left - filled
  BY <1>1, AfterReportCall
<1>5. QED BY <1>2, <1>3, <1>4 DEF Ends

\* What the orders become when nobody reports: nothing, or one more.
LEMMA UnreportedOrders ==
  ASSUME ShapeInv, Submitting, Unreported
  PROVE  /\ OrdersTyped
         /\ DOMAIN orders' \subseteq DOMAIN orders \cup {call.cid}
         /\ \A c \in DOMAIN orders : c \in DOMAIN orders' /\ orders'[c] = orders[c]
<1>1. CASE UNCHANGED orders
  BY <1>1 DEF OrdersTyped, ShapeInv, TypeOK
<1>2. ASSUME NEW filled \in 0..call.size, NEW rests \in BOOLEAN, Accept(filled, rests)
      PROVE  /\ OrdersTyped
             /\ DOMAIN orders' \subseteq DOMAIN orders \cup {call.cid}
             /\ \A c \in DOMAIN orders : c \in DOMAIN orders' /\ orders'[c] = orders[c]
  BY <1>2, AcceptAdds DEF OrdersTyped, ShapeInv, TypeOK
<1>3. QED BY <1>1, <1>2 DEF Unreported

\* A resting order fills further or is over.
LEMMA RestedQuiet ==
  ASSUME ShapeInv, NEW c \in DOMAIN orders, Rested(c) PROVE Quiet
<1>1. orders[c] \in Order /\ now \in Nat
  BY DEF ShapeInv, TypeOK
<1>2. PICK filled \in orders[c].filled..orders[c].size, rests \in BOOLEAN :
        orders' = [orders EXCEPT ![c].filled = filled, ![c].rests = rests]
  BY DEF Rested
<1> DEFINE x == [orders[c] EXCEPT !.filled = filled, !.rests = rests]
<1>3. x \in Order /\ x.filled <= x.size
  <2>1. filled \in Nat /\ filled <= orders[c].size
    BY <1>1, <1>2 DEF Order
  <2>2. x \in Order
    BY <1>1, <2>1 DEF Order
  <2>3. x.filled = filled /\ x.size = orders[c].size
    BY <1>1 DEF Order
  <2>4. QED BY <2>1, <2>2, <2>3
<1>4. orders' = [orders EXCEPT ![c] = x]
  BY <1>2
<1> HIDE DEF x
<1>5. DOMAIN orders' = DOMAIN orders /\ orders'[c] = x
      /\ \A d \in DOMAIN orders : d # c => orders'[d] = orders[d]
  BY <1>4
<1>6. OrdersTyped
  BY <1>3, <1>5 DEF OrdersTyped, ShapeInv, TypeOK
<1>7. orders[c].rests /\ UNCHANGED <<now, journal, queue, call>>
  BY DEF Rested
<1>8. QED BY <1>1, <1>5, <1>6, <1>7 DEF Quiet

Begins == \E c \in Cids : BeginTrade(c) \/ BeginSecondLeg(c)
EndsCall == \E e, filled : Ends(e, filled)

\* Every step is of one of the four kinds.
LEMMA StepKinds ==
  ASSUME ShapeInv, [Next]_vars PROVE Admission \/ Quiet \/ Begins \/ EndsCall
<1>1. TypeOK /\ now \in Nat /\ (call # Nil => call \in Call)
  BY DEF ShapeInv, TypeOK
<1>2. UNCHANGED orders => /\ OrdersTyped
                          /\ \A c \in DOMAIN orders' :
                               c \in DOMAIN orders /\ (orders'[c].rests => orders[c].rests)
  BY <1>1 DEF OrdersTyped, TypeOK
<1>3. CASE Cycle
  BY <1>3, ProposalsType DEF Cycle, BeginCycle, Admission
<1>4. CASE SkipTrade \/ SkipSecondLeg \/ UNCHANGED vars
  BY <1>1, <1>2, <1>4 DEF SkipTrade, SkipSecondLeg, vars, Quiet
<1>5. CASE Tick
  BY <1>1, <1>2, <1>5 DEF Tick, Quiet
<1>6. CASE \E c \in DOMAIN orders : Rested(c)
  BY <1>6, RestedQuiet
<1>7. CASE EndSilently
  <2>1. Submitting /\ Unreported /\ call' = Nil /\ queue' \in {queue, <<>>}
        /\ UNCHANGED <<now, journal>>
    BY <1>7 DEF EndSilently
  <2>2. QED BY <1>1, <2>1, UnreportedOrders DEF Quiet
<1>8. CASE SubmitError
  <2>1. Submitting /\ Unreported /\ call' = Nil /\ UNCHANGED <<now, queue>> /\ call \in Call
    BY <1>1, <1>8 DEF SubmitError, Submitting
  <2>2. PICK invalid \in BOOLEAN :
          journal' = Append(journal, [Entry("order_error", "None", 0, invalid) EXCEPT !.cid = Nil])
    BY <1>8 DEF SubmitError
  <2> DEFINE e == [Entry("order_error", "None", 0, invalid) EXCEPT !.cid = Nil]
  <2>3. /\ e \in JournalEntry /\ e.event = "order_error" /\ e.cid = Nil
        /\ e.ticker = call.ticker /\ e.outcome = call.outcome /\ e.at = now
    BY <1>1, <2>1 DEF Entry, JournalEntry, Call
  <2>4. journal' = Append(journal, e)
    BY <2>2
  <2> HIDE DEF e
  <2>5. 0 \in 0..call.size
    BY <2>1 DEF Call
  <2>6. Ends(e, 0)
    BY <2>1, <2>3, <2>4, <2>5, UnreportedOrders DEF Ends
  <2>7. QED BY <2>6 DEF EndsCall
<1>9. CASE SettleRejected
  <2>1. Submitting /\ Accept(0, FALSE) /\ AfterReport("Rejected", 0) /\ UNCHANGED <<now, queue>>
        /\ journal' = Append(journal, Entry("order_report", "Rejected", 0, FALSE)) /\ call \in Call
    BY <1>1, <1>9 DEF SettleRejected, Submitting
  <2> DEFINE e == Entry("order_report", "Rejected", 0, FALSE)
  <2>2. /\ e \in JournalEntry /\ e.event = "order_report" /\ e.cid = call.cid
        /\ e.ticker = call.ticker /\ e.outcome = call.outcome /\ e.at = now /\ e.value = 0
    BY <1>1, <2>1 DEF Entry, JournalEntry, Call, DoneStatus
  <2> HIDE DEF e
  <2>3. 0 \in 0..call.size /\ 0 <= NoPriceFactor * 0
    BY <2>1, GuardAssumption DEF Call
  <2>4. journal' = Append(journal, e)
    BY <2>1 DEF e
  <2>5. Ends(e, 0)
    BY <2>1, <2>2, <2>3, <2>4, ReportEnds
  <2>6. QED BY <2>5 DEF EndsCall
<1>10. CASE Settle
  <2>1. Submitting /\ call \in Call /\ UNCHANGED <<now, queue>>
    BY <1>1, <1>10 DEF Settle, Submitting
  <2>2. PICK filled \in 0..call.size, rests \in BOOLEAN :
          /\ rests => filled < call.size /\ (call.ioc => "cancel_lost" \in Faults)
          /\ Accept(filled, rests)
          /\ AfterReport(StatusOf(filled, rests), filled)
          /\ \E c \in {call.cid} \cup (IF "anonymous" \in Faults THEN {Nil} ELSE {}) :
               journal' = Append(journal, [Entry("order_report", StatusOf(filled, rests),
                                                 ReportValue(filled), FALSE) EXCEPT !.cid = c])
    BY <1>10 DEF Settle
  <2>3. PICK c \in {call.cid, Nil} :
          journal' = Append(journal, [Entry("order_report", StatusOf(filled, rests),
                                            ReportValue(filled), FALSE) EXCEPT !.cid = c])
    BY <2>2
  <2>4. /\ StatusOf(filled, rests) \in OpenStatus \cup DoneStatus
        /\ rests => StatusOf(filled, rests) \in OpenStatus
    BY DEF StatusOf, OpenStatus, DoneStatus
  <2>5. ReportValue(filled) \in Nat /\ ReportValue(filled) <= NoPriceFactor * filled
    <3>1. filled \in Nat /\ NoPriceFactor \in Nat \ {0}
      BY <2>1, GuardAssumption DEF Call
    <3>2. \A a \in Nat, b \in Nat \ {0} : a * b \in Nat /\ a * b = b * a
      OBVIOUS
    <3>3. \A a \in Nat, b \in Nat \ {0} : a <= a * b
      OBVIOUS
    <3>4. QED BY <3>1, <3>2, <3>3 DEF ReportValue
  <2> DEFINE e == [Entry("order_report", StatusOf(filled, rests),
                         ReportValue(filled), FALSE) EXCEPT !.cid = c]
  <2>6. /\ e \in JournalEntry /\ e.event = "order_report" /\ e.cid = c
        /\ e.ticker = call.ticker /\ e.outcome = call.outcome /\ e.at = now
        /\ e.value = ReportValue(filled) /\ e.status = StatusOf(filled, rests)
    BY <1>1, <2>1, <2>4, <2>5 DEF Entry, JournalEntry, Call
  <2>7. journal' = Append(journal, e)
    BY <2>3
  <2> HIDE DEF e
  <2>8. Ends(e, filled)
    BY <2>1, <2>2, <2>4, <2>5, <2>6, <2>7, ReportEnds
  <2>9. QED BY <2>8 DEF EndsCall
<1>11. CASE \E c \in Cids : BeginTrade(c) \/ BeginSecondLeg(c)
  BY <1>11 DEF Begins
<1>12. QED
  BY <1>3, <1>4, <1>5, <1>6, <1>7, <1>8, <1>9, <1>10, <1>11 DEF Next

\* A trade begins with its first leg, or goes on with its second: a new intent,
\* for a trade that is no longer in the queue.
Starts(a, c, n, leg) ==
  /\ c \in Cids /\ n \in Nat /\ leg \in {1, 2} /\ Intend(a, c, n, leg)
  /\ a.ticker \in Tickers /\ a.outcome \in Outcomes
  /\ UNCHANGED <<now, orders>> /\ queue' \in Seq(Trade)
  /\ \A i, j \in DOMAIN queue' : queue'[i].ticker = queue'[j].ticker => i = j
  /\ \A i \in DOMAIN queue' : queue'[i].ticker # a.ticker
  /\ \A i \in DOMAIN queue' : \E k \in DOMAIN queue : queue'[i] = queue[k]
  /\ \/ /\ leg = 1 /\ call = Nil
        /\ \E k \in DOMAIN queue : a = queue[k] /\ n = queue[k].notional
     \/ leg = 2 /\ BetweenLegs /\ a = call /\ n = call.left

LEMMA BeginsIntent ==
  ASSUME ShapeInv, Begins PROVE \E a, c, n, leg : Starts(a, c, n, leg)
<1>1. ASSUME NEW c \in Cids, BeginTrade(c)
      PROVE  /\ Intend(Head(queue), c, Head(queue).notional, 1) /\ call = Nil
             /\ queue # <<>> /\ queue' = Tail(queue) /\ UNCHANGED <<now, orders>>
  BY <1>1 DEF BeginTrade
<1>2. ASSUME NEW c \in Cids, BeginSecondLeg(c)
      PROVE  /\ Intend(call, c, call.left, 2) /\ BetweenLegs /\ call \in Call
             /\ queue' = queue /\ UNCHANGED <<now, orders>>
  BY <1>2 DEF BeginSecondLeg, BetweenLegs, ShapeInv, TypeOK
<1>3. ASSUME NEW c \in Cids, BeginTrade(c)
      PROVE  /\ Head(queue) \in Trade /\ \E k \in DOMAIN queue : Head(queue) = queue[k]
             /\ queue' \in Seq(Trade)
             /\ \A i \in DOMAIN queue' : queue'[i].ticker # Head(queue).ticker
             /\ \A i, j \in DOMAIN queue' : queue'[i].ticker = queue'[j].ticker => i = j
             /\ \A i \in DOMAIN queue' : \E k \in DOMAIN queue : queue'[i] = queue[k]
  BY <1>1, <1>3, HeadApart, QueueShrinks DEF ShapeInv, TypeOK, Apart
<1>4. CASE \E c \in Cids : BeginTrade(c)
  <2>1. PICK c \in Cids : BeginTrade(c)
    BY <1>4
  <2> DEFINE a == Head(queue)
  <2>2. Intend(a, c, a.notional, 1) /\ call = Nil /\ UNCHANGED <<now, orders>>
    BY <1>1, <2>1
  <2>3. /\ a \in Trade /\ queue' \in Seq(Trade)
        /\ \A i \in DOMAIN queue' : queue'[i].ticker # a.ticker
        /\ \A i, j \in DOMAIN queue' : queue'[i].ticker = queue'[j].ticker => i = j
        /\ \A i \in DOMAIN queue' : \E k \in DOMAIN queue : queue'[i] = queue[k]
    BY <1>3, <2>1
  <2>4. PICK k \in DOMAIN queue : a = queue[k]
    BY <1>3, <2>1
  <2> HIDE DEF a
  <2>5. a.notional \in Nat /\ a.ticker \in Tickers /\ a.outcome \in Outcomes
    BY <2>3 DEF Trade
  <2>6. \E j \in DOMAIN queue : a = queue[j] /\ a.notional = queue[j].notional
    BY <2>4
  <2>7. Starts(a, c, a.notional, 1)
    BY <2>2, <2>3, <2>5, <2>6 DEF Starts
  <2>8. QED BY <2>7
<1>5. CASE \E c \in Cids : BeginSecondLeg(c)
  <2>1. PICK c \in Cids : BeginSecondLeg(c)
    BY <1>5
  <2>2. /\ Intend(call, c, call.left, 2) /\ BetweenLegs /\ call \in Call
        /\ queue' = queue /\ UNCHANGED <<now, orders>>
    BY <1>2, <2>1
  <2>3. call.left \in Nat /\ call.ticker \in Tickers /\ call.outcome \in Outcomes
    BY <2>2 DEF Call
  <2>4. /\ queue' \in Seq(Trade)
        /\ \A i \in DOMAIN queue' : queue'[i].ticker # call.ticker
        /\ \A i, j \in DOMAIN queue' : queue'[i].ticker = queue'[j].ticker => i = j
        /\ \A i \in DOMAIN queue' : \E k \in DOMAIN queue : queue'[i] = queue[k]
    BY <2>2 DEF ShapeInv, TypeOK, Apart, BetweenLegs
  <2>5. Starts(call, c, call.left, 2)
    BY <2>2, <2>3, <2>4 DEF Starts
  <2>6. QED BY <2>5
<1>6. QED BY <1>4, <1>5 DEF Begins

\* A leg asks for no more than what is left of the trade.
LEMMA LegSizeBound ==
  ASSUME NEW n \in Nat, NEW leg PROVE LegSize(n, leg) \in Nat /\ LegSize(n, leg) <= n
<1>1. (n + 1) \div 2 \in Nat /\ (n + 1) \div 2 <= n
  OBVIOUS
<1>2. QED BY <1>1 DEF LegSize

LEMMA ShapeStep ==
  ASSUME ShapeInv, CallSized, Admission \/ Quiet \/ Begins \/ EndsCall
  PROVE  ShapeInv' /\ CallSized'
<1>1. CASE Admission
  <2>1. PICK A \in Seq(Trades) :
          /\ \A i, j \in DOMAIN A : A[i].ticker = A[j].ticker => i = j
          /\ \E f \in Ordered(Admitted(A)) : queue' = [i \in DOMAIN f |-> A[f[i]]]
    BY <1>1 DEF Admission
  <2>2. PICK f \in Ordered(Admitted(A)) : queue' = [i \in DOMAIN f |-> A[f[i]]]
    BY <2>1
  <2>3. /\ \A i \in DOMAIN f : f[i] \in DOMAIN A
        /\ \A i, j \in DOMAIN f : f[i] = f[j] => i = j
        /\ queue' \in Seq(Trade)
    BY <2>2, CycleAdmits
  <2>4. UNCHANGED <<now, journal, orders, call>> /\ call = Nil
    BY <1>1 DEF Admission
  <2>5. \A i, j \in DOMAIN queue' : queue'[i].ticker = queue'[j].ticker => i = j
    BY <2>1, <2>2, <2>3
  <2>6. Used' = Used /\ \A ev : Events(ev)' = Events(ev)
    BY <2>4 DEF Used, Events
  <2>7. TypeOK' /\ IntentsOnce' /\ OwnIntent' /\ CallFresh' /\ ReportsUsed'
    BY <2>3, <2>4, <2>6 DEF ShapeInv, TypeOK, IntentsOnce, OwnIntent, CallFresh, ReportsUsed,
       NotReported, Submitting
  <2>8. Apart' /\ CallSized'
    BY <2>4, <2>5 DEF Apart, CallSized
  <2>9. QED BY <2>7, <2>8 DEF ShapeInv
<1>2. CASE Quiet
  <2>1. CallSized'
    BY <1>2 DEF Quiet, CallSized
  <2>2. QED BY <1>2, <2>1, QuietShape DEF Quiet
<1>3. CASE Begins
  <2>1. PICK a, c, n, leg : Starts(a, c, n, leg)
    BY <1>3, BeginsIntent
  <2>2. ShapeInv'
    BY <2>1, IntendShape DEF Starts
  <2>3. /\ call'.size = LegSize(n, leg) /\ call'.left = n /\ call'.leg = leg
        /\ Policy = "hybrid" /\ leg = 1 => call'.ioc
    BY <2>1, IntendCall DEF Starts
  <2>4. CallSized'
    BY <2>1, <2>3, LegSizeBound DEF CallSized, Starts
  <2>5. QED BY <2>2, <2>4
<1>4. CASE EndsCall
  <2>1. PICK e, filled : Ends(e, filled)
    BY <1>4 DEF EndsCall
  <2>2. ShapeInv'
    BY <2>1, OutcomeShape DEF Ends
  <2>3. call \in Call
    BY <2>1 DEF Ends, ShapeInv, TypeOK, Submitting
  <2>4. CASE call' = Nil
    BY <2>2, <2>4 DEF CallSized
  <2>5. CASE call' # Nil
    <3>1. call' = [call EXCEPT !.leg = 2, !.left = call.left - filled, !.cid = Nil]
      BY <2>1, <2>5 DEF Ends
    <3>2. call'.leg = 2 /\ call'.cid = Nil
      BY <2>3, <3>1 DEF Call
    <3>3. QED BY <2>2, <3>2 DEF CallSized
  <2>6. QED BY <2>4, <2>5
<1>5. QED BY <1>1, <1>2, <1>3, <1>4

LEMMA InitShape == Init => ShapeInv /\ CallSized
<1> SUFFICES ASSUME Init PROVE ShapeInv /\ CallSized
  OBVIOUS
<1>1. \A ev : Events(ev) = {}
  BY DEF Init, Events
<1>2. TypeOK
  BY DEF Init, TypeOK
<1>3. QED
  BY <1>1, <1>2 DEF Init, ShapeInv, IntentsOnce, OwnIntent, CallFresh, ReportsUsed, Apart,
     Submitting, CallSized

LEMMA ShapeInvariant == Spec => [](ShapeInv /\ CallSized)
<1>1. ShapeInv /\ CallSized /\ [Next]_vars => (ShapeInv /\ CallSized)'
  BY StepKinds, ShapeStep
<1>2. QED BY InitShape, <1>1, PTL DEF Spec

\* The variables of the guards hold values of their types; every order on the
\* exchange was intended and never fills past its size.
THEOREM GuardTypeCorrect == Spec => []TypeOK
<1>1. ShapeInv => TypeOK
  BY DEF ShapeInv
<1>2. QED BY ShapeInvariant, <1>1, PTL

(***************************************************************************)
(* What the guards have to say of the trades they admit.  They replay the  *)
(* journal once, when the cycle begins; each invariant below is what is    *)
(* still true of a trade when its turn comes.                              *)
(***************************************************************************)

\* The largest of some bounded naturals is one of them.
LEMMA MaxOf ==
  ASSUME NEW S \in SUBSET Nat, S # {}, NEW n \in Nat, \A x \in S : x <= n
  PROVE  Max(S) \in S /\ \A x \in S : x <= Max(S)
<1> DEFINE D == {d \in Nat : \E x \in S : d = n - x}
<1>1. D \in SUBSET Nat /\ D # {}
  <2>1. PICK x \in S : TRUE
    OBVIOUS
  <2>2. n - x \in D
    BY <2>1
  <2>3. QED BY <2>2
<1>2. PICK d \in D : \A y \in D : ~(<<y, d>> \in OpToRel(<, Nat))
  BY <1>1, NatLessThanWellFounded, WFMin
<1>3. PICK x \in S : d = n - x
  BY <1>2
<1>4. ASSUME NEW y \in S PROVE y <= x
  <2>1. n - y \in D
    OBVIOUS
  <2>2. ~(n - y < d)
    BY <1>1, <1>2, <2>1 DEF OpToRel
  <2>3. QED BY <1>3, <2>2
<1> HIDE DEF D
<1>5. \E z \in S : \A y \in S : z >= y
  <2>1. \A y \in S : x >= y
    BY <1>4
  <2>2. QED BY <2>1
<1>6. Max(S) \in S /\ \A y \in S : Max(S) >= y
  BY <1>5 DEF Max
<1>7. QED BY <1>6

\* The fields of an entry that are counted with.
LEMMA EntryFields == \A e \in JournalEntry : e.at \in Nat /\ e.value \in Nat
<1>1. ASSUME NEW e \in JournalEntry PROVE e.at \in Nat /\ e.value \in Nat
  BY DEF JournalEntry
<1>2. QED BY <1>1

\* The entries of the journal have increasing times, none of them to come.
TimesOrdered ==
  \A i, j \in DOMAIN journal :
    (i <= j => journal[i].at <= journal[j].at) /\ journal[j].at <= now

\* A market whose cooldowns are over.
Cool(t) ==
  /\ \A r \in FillsOn(t) : now - journal[r].at >= ReentryCooldown
  /\ \A e \in InvalidsOn(t) : now - journal[e].at >= InvalidParamCooldown

QueueCool == \A i \in DOMAIN queue : Cool(queue[i].ticker)

CoolInv == TimesOrdered /\ QueueCool /\ CooldownsRespected

\* The two parts of it in the next state, market by market.
LEMMA QueueCoolNext ==
  ASSUME \A i \in DOMAIN queue' : \E t : t = queue'[i].ticker /\ Cool(t)'
  PROVE  QueueCool'
BY DEF QueueCool, Cool, FillsOn, ReportsOn, InvalidsOn, Events

LEMMA RespectedNext ==
  ASSUME \A i \in Events("order_intent")' : journal'[i].leg = 1 =>
           \E t : /\ t = journal'[i].ticker
                  /\ \A r \in FillsOn(t)' :
                       r < i => journal'[i].at - journal'[r].at >= ReentryCooldown
                  /\ \A e \in InvalidsOn(t)' :
                       e < i => journal'[i].at - journal'[e].at >= InvalidParamCooldown
  PROVE  CooldownsRespected'
BY DEF CooldownsRespected, FillsOn, ReportsOn, InvalidsOn, Events

\* A trade that passes the guards is on such a market: the guard looks at the
\* last rejection only, which is the latest.
LEMMA AdmitsCool ==
  ASSUME TypeOK, TimesOrdered, NEW a, Admits(a) PROVE Cool(a.ticker)
<1> DEFINE t == a.ticker
<1>1. journal \in Seq(JournalEntry) /\ now \in Nat /\ Len(journal) \in Nat
      /\ DOMAIN journal = 1..Len(journal)
  BY DEF TypeOK
<1>2. \A i \in DOMAIN journal : journal[i].at \in Nat
  BY <1>1, EntryFields
<1>3. ASSUME NEW r \in FillsOn(t) PROVE now - journal[r].at >= ReentryCooldown
  <2>1. r \in ReportsOn(t) /\ r \in DOMAIN journal
    BY DEF FillsOn, ReportsOn, Events
  <2>2. ~RecentFill(t)
    BY <2>1 DEF Admits, Known
  <2>3. QED BY <1>1, <1>2, <2>1, <2>2, GuardAssumption DEF RecentFill
<1>4. ASSUME NEW e \in InvalidsOn(t) PROVE now - journal[e].at >= InvalidParamCooldown
  <2> DEFINE S == InvalidsOn(t)
  <2>1. S \in SUBSET Nat /\ S # {} /\ (\A i \in S : i <= Len(journal) /\ i \in DOMAIN journal)
    BY <1>1 DEF InvalidsOn, Events
  <2>2. ~(now - journal[Max(S)].at < InvalidParamCooldown)
    BY <2>1 DEF Admits, Known, RecentInvalid
  <2>3. Max(S) \in S /\ e <= Max(S)
    BY <1>1, <2>1, MaxOf
  <2>4. journal[e].at <= journal[Max(S)].at
    BY <2>1, <2>3 DEF TimesOrdered
  <2>5. journal[e].at \in Nat /\ journal[Max(S)].at \in Nat
    BY <1>2, <2>1, <2>3
  <2>6. QED BY <1>1, <2>2, <2>4, <2>5, GuardAssumption, SMTT(30)
<1>5. QED BY <1>3, <1>4 DEF Cool

\* What a report or an error does to the fills.
LEMMA OutcomeFills ==
  ASSUME ShapeInv, NEW e, NEW filled, Ends(e, filled)
  PROVE  /\ Len(journal) + 1 \in Nat /\ Len(journal) + 1 \notin DOMAIN journal
         /\ \A i \in DOMAIN journal : i \in Nat /\ i < Len(journal) + 1
         /\ journal'[Len(journal) + 1] = e
         /\ \A i \in DOMAIN journal : journal'[i] = journal[i]
         /\ Events("order_intent")' = Events("order_intent")
         /\ \A t : /\ FillsOn(t)' \subseteq FillsOn(t) \cup {Len(journal) + 1}
                   /\ FillsOn(t) \subseteq FillsOn(t)'
                   /\ InvalidsOn(t)' \subseteq InvalidsOn(t) \cup {Len(journal) + 1}
                   /\ t # call.ticker \/ e.event # "order_report" => FillsOn(t)' = FillsOn(t)
                   /\ t # call.ticker => InvalidsOn(t)' = InvalidsOn(t)
<1> DEFINE n == Len(journal) + 1
<1>1. /\ n \in Nat /\ n \notin DOMAIN journal
      /\ \A i \in DOMAIN journal : i \in Nat /\ i < n
      /\ journal'[n] = e
      /\ \A i \in DOMAIN journal : journal'[i] = journal[i]
      /\ Events("order_intent")' = Events("order_intent")
      /\ \A t : /\ ReportsOn(t) \subseteq ReportsOn(t)'
                /\ ReportsOn(t)' \subseteq ReportsOn(t) \cup {n}
                /\ InvalidsOn(t)' \subseteq InvalidsOn(t) \cup {n}
                /\ t # call.ticker \/ e.event # "order_report" => ReportsOn(t)' = ReportsOn(t)
                /\ t # call.ticker => InvalidsOn(t)' = InvalidsOn(t)
  BY AppendOutcome DEF ShapeInv, Ends
<1> HIDE DEF n
<1>2. ASSUME NEW t PROVE /\ FillsOn(t)' \subseteq FillsOn(t) \cup {n}
                         /\ FillsOn(t) \subseteq FillsOn(t)'
                         /\ t # call.ticker \/ e.event # "order_report" => FillsOn(t)' = FillsOn(t)
  <2>1. \A i \in ReportsOn(t) : journal'[i] = journal[i]
    BY <1>1 DEF ReportsOn, Events
  <2>2. QED BY <1>1, <2>1 DEF FillsOn
<1>3. QED BY <1>1, <1>2 DEF n

\* A step that leaves the journal alone leaves what the guards read alone.
LEMMA SameJournal ==
  ASSUME journal' = journal
  PROVE  /\ \A ev : Events(ev)' = Events(ev)
         /\ \A t : /\ ReportsOn(t)' = ReportsOn(t) /\ FillsOn(t)' = FillsOn(t)
                   /\ InvalidsOn(t)' = InvalidsOn(t)
                   /\ FilledUnits(t)' = FilledUnits(t) /\ OpenNotional(t)' = OpenNotional(t)
BY DEF Events, ReportsOn, FillsOn, InvalidsOn, FilledUnits, OpenNotional

\* What the intent of a leg does to the journal: no market is affected.
LEMMA StartsEffect ==
  ASSUME ShapeInv, NEW a, NEW c, NEW n, NEW leg, Starts(a, c, n, leg)
  PROVE  /\ Len(journal) + 1 \in Nat /\ Len(journal) + 1 \notin DOMAIN journal
         /\ \A i \in DOMAIN journal : i \in Nat /\ i < Len(journal) + 1
         /\ DOMAIN journal' = DOMAIN journal \cup {Len(journal) + 1}
         /\ journal'[Len(journal) + 1].ticker = a.ticker
         /\ journal'[Len(journal) + 1].outcome = a.outcome
         /\ journal'[Len(journal) + 1].leg = leg /\ journal'[Len(journal) + 1].at = now
         /\ \A i \in DOMAIN journal : journal'[i] = journal[i]
         /\ Events("order_intent")' = Events("order_intent") \cup {Len(journal) + 1}
         /\ Events("order_report")' = Events("order_report")
         /\ \A t : /\ ReportsOn(t)' = ReportsOn(t) /\ InvalidsOn(t)' = InvalidsOn(t)
                   /\ FillsOn(t)' = FillsOn(t)
<1> DEFINE e == IntentEntry(a, c, leg)
           k == Len(journal) + 1
<1>1. e.ticker = a.ticker /\ e.outcome = a.outcome /\ e.leg = leg /\ e.at = now
  BY DEF IntentEntry
<1>2. /\ TypeOK /\ c \in Cids /\ leg \in {1, 2} /\ a.ticker \in Tickers /\ a.outcome \in Outcomes
      /\ journal' = Append(journal, e)
  BY DEF ShapeInv, Starts, Intend, IntentEntry
<1>3. /\ k \in Nat /\ k \notin DOMAIN journal
      /\ \A i \in DOMAIN journal : i \in Nat /\ i < k
      /\ journal'[k] = e
      /\ \A i \in DOMAIN journal : journal'[i] = journal[i]
      /\ Events("order_intent")' = Events("order_intent") \cup {k}
      /\ Events("order_report")' = Events("order_report")
      /\ \A t : /\ ReportsOn(t)' = ReportsOn(t) /\ InvalidsOn(t)' = InvalidsOn(t)
                /\ FillsOn(t)' = FillsOn(t)
  BY <1>2, AppendIntent
<1>4. DOMAIN journal' = DOMAIN journal \cup {k}
  BY <1>2 DEF TypeOK
<1> HIDE DEF e, k
<1>5. QED BY <1>1, <1>3, <1>4 DEF k

\* Times go on increasing: an entry is written at the time it is.
LEMMA TimesStep ==
  ASSUME ShapeInv, TimesOrdered, Admission \/ Quiet \/ Begins \/ EndsCall
  PROVE  TimesOrdered'
<1> DEFINE k == Len(journal) + 1
<1>1. now \in Nat /\ \A i \in DOMAIN journal : i \in Nat /\ journal[i].at \in Nat
  BY EntryFields DEF ShapeInv, TypeOK
<1>2. ASSUME now' = now, k \in Nat, k \notin DOMAIN journal,
             \A i \in DOMAIN journal : i \in Nat /\ i < k,
             DOMAIN journal' = DOMAIN journal \cup {k}, journal'[k].at = now,
             \A i \in DOMAIN journal : journal'[i] = journal[i]
      PROVE  TimesOrdered'
  <2> HIDE DEF k
  <2>1. \A i \in DOMAIN journal' : journal'[i].at <= now'
    BY <1>1, <1>2 DEF TimesOrdered
  <2>2. ASSUME NEW i \in DOMAIN journal', NEW j \in DOMAIN journal', i <= j
        PROVE  journal'[i].at <= journal'[j].at
    <3>1. CASE j = k
      BY <1>2, <2>1, <3>1
    <3>2. CASE j \in DOMAIN journal
      BY <1>1, <1>2, <2>2, <3>2 DEF TimesOrdered
    <3>3. QED BY <1>2, <3>1, <3>2
  <2>3. QED BY <2>1, <2>2 DEF TimesOrdered
<1>3. CASE Admission
  BY <1>3 DEF Admission, TimesOrdered
<1>4. CASE Quiet
  <2>1. journal' = journal /\ now' \in Nat /\ now <= now'
    BY <1>4 DEF Quiet
  <2>2. QED BY <1>1, <2>1 DEF TimesOrdered
<1>5. CASE Begins
  <2>1. PICK a, c, n, leg : Starts(a, c, n, leg)
    BY <1>5, BeginsIntent
  <2>2. now' = now
    BY <2>1 DEF Starts
  <2>3. QED BY <1>2, <2>1, <2>2, StartsEffect
<1>6. CASE EndsCall
  <2>1. PICK e, filled : Ends(e, filled)
    BY <1>6 DEF EndsCall
  <2>2. now' = now /\ e.at = now /\ e \in JournalEntry /\ journal' = Append(journal, e)
    BY <2>1 DEF Ends
  <2>3. QED BY <1>2, <2>2, AppendEntry DEF ShapeInv
<1>7. QED BY <1>3, <1>4, <1>5, <1>6

LEMMA CoolStep ==
  ASSUME ShapeInv, CoolInv, Admission \/ Quiet \/ Begins \/ EndsCall
  PROVE  CoolInv'
<1>1. TimesOrdered'
  BY TimesStep DEF CoolInv
<1>2. now \in Nat /\ \A i \in DOMAIN journal : journal[i].at \in Nat
  BY EntryFields DEF ShapeInv, TypeOK
<1>3. \A t : FillsOn(t) \subseteq DOMAIN journal /\ InvalidsOn(t) \subseteq DOMAIN journal
  BY DEF FillsOn, ReportsOn, InvalidsOn, Events
<1>4. CASE Admission
  <2>1. UNCHANGED <<now, journal>>
    BY <1>4 DEF Admission
  <2>2. PICK A \in Seq(Trades) :
          \E f \in Ordered(Admitted(A)) : queue' = [i \in DOMAIN f |-> A[f[i]]]
    BY <1>4 DEF Admission
  <2>3. PICK f \in Ordered(Admitted(A)) : queue' = [i \in DOMAIN f |-> A[f[i]]]
    BY <2>2
  <2>4. \A i \in DOMAIN f : Admits(A[f[i]])
    BY CycleAdmits
  <2>5. \A t : Cool(t)' <=> Cool(t)
    BY <2>1, SameJournal DEF Cool
  <2>6. \A i \in DOMAIN queue' : Cool(queue'[i].ticker)
    BY <2>3, <2>4, AdmitsCool DEF ShapeInv, CoolInv
  <2>7. QueueCool'
    BY <2>5, <2>6, QueueCoolNext
  <2>8. CooldownsRespected'
    BY <2>1 DEF CoolInv, CooldownsRespected, FillsOn, ReportsOn, InvalidsOn, Events
  <2>9. QED BY <1>1, <2>7, <2>8 DEF CoolInv
<1>5. CASE Quiet
  <2>1. journal' = journal /\ now' \in Nat /\ now <= now'
    BY <1>5 DEF Quiet
  <2>2. \A i \in DOMAIN queue' : \E k \in DOMAIN queue : queue'[i] = queue[k]
    BY <1>5, QueueShrinks DEF Quiet, ShapeInv, TypeOK
  <2>3. \A t : FillsOn(t)' = FillsOn(t) /\ InvalidsOn(t)' = InvalidsOn(t)
    BY <2>1, SameJournal
  <2>4. ASSUME NEW t, Cool(t) PROVE Cool(t)'
    BY <1>2, <1>3, <2>1, <2>3, <2>4, GuardAssumption DEF Cool
  <2>5. QueueCool'
    BY <2>2, <2>4, QueueCoolNext DEF CoolInv, QueueCool
  <2>6. CooldownsRespected'
    BY <2>1 DEF CoolInv, CooldownsRespected, FillsOn, ReportsOn, InvalidsOn, Events
  <2>7. QED BY <1>1, <2>5, <2>6 DEF CoolInv
<1>6. CASE Begins
  <2>1. PICK a, c, n, leg : Starts(a, c, n, leg)
    BY <1>6, BeginsIntent
  <2> DEFINE k == Len(journal) + 1
  <2>2. /\ k \notin DOMAIN journal /\ (\A i \in DOMAIN journal : i \in Nat /\ i < k) /\ k \in Nat
        /\ journal'[k].ticker = a.ticker /\ journal'[k].leg = leg /\ journal'[k].at = now
        /\ \A i \in DOMAIN journal : journal'[i] = journal[i]
        /\ Events("order_intent")' = Events("order_intent") \cup {k}
        /\ \A t : InvalidsOn(t)' = InvalidsOn(t) /\ FillsOn(t)' = FillsOn(t)
    BY <2>1, StartsEffect
  <2> HIDE DEF k
  <2>3. /\ now' = now
        /\ \A i \in DOMAIN queue' : \E j \in DOMAIN queue : queue'[i] = queue[j]
        /\ leg = 1 => \E j \in DOMAIN queue : a = queue[j]
    BY <2>1 DEF Starts
  <2>4. \A t : Cool(t)' <=> Cool(t)
    BY <1>3, <2>2, <2>3 DEF Cool
  <2>5. QueueCool'
    BY <2>3, <2>4, QueueCoolNext DEF CoolInv, QueueCool
  <2>6. leg = 1 => Cool(a.ticker)
    BY <2>3 DEF CoolInv, QueueCool
  <2>7. ASSUME NEW i \in Events("order_intent")', journal'[i].leg = 1, NEW t, t = journal'[i].ticker
        PROVE  /\ \A r \in FillsOn(t)' :
                    r < i => journal'[i].at - journal'[r].at >= ReentryCooldown
               /\ \A e \in InvalidsOn(t)' :
                    e < i => journal'[i].at - journal'[e].at >= InvalidParamCooldown
    <3>1. CASE i = k
      BY <1>3, <2>2, <2>6, <2>7, <3>1 DEF Cool
    <3>2. CASE i \in Events("order_intent")
      <4>1. journal'[i] = journal[i]
        BY <2>2, <3>2 DEF Events
      <4>2. QED BY <1>3, <2>2, <2>7, <3>2, <4>1 DEF CoolInv, CooldownsRespected
    <3>3. QED BY <2>2, <3>1, <3>2
  <2>8. CooldownsRespected'
    BY <2>7, RespectedNext
  <2>9. QED BY <1>1, <2>5, <2>8 DEF CoolInv
<1>7. CASE EndsCall
  <2>1. PICK e, filled : Ends(e, filled)
    BY <1>7 DEF EndsCall
  <2> DEFINE k == Len(journal) + 1
  <2>2. /\ k \in Nat /\ k \notin DOMAIN journal /\ (\A i \in DOMAIN journal : i \in Nat /\ i < k)
        /\ \A i \in DOMAIN journal : journal'[i] = journal[i]
        /\ Events("order_intent")' = Events("order_intent")
        /\ \A t : /\ FillsOn(t)' \subseteq FillsOn(t) \cup {k}
                  /\ InvalidsOn(t)' \subseteq InvalidsOn(t) \cup {k}
                  /\ t # call.ticker =>
                       FillsOn(t)' = FillsOn(t) /\ InvalidsOn(t)' = InvalidsOn(t)
    BY <2>1, OutcomeFills
  <2> HIDE DEF k
  <2>3. now' = now /\ queue' = queue /\ call # Nil
    BY <2>1 DEF Ends, Submitting
  <2>4. \A i \in DOMAIN queue : queue[i].ticker # call.ticker
    BY <2>3 DEF ShapeInv, Apart
  <2>5. ASSUME NEW t, t # call.ticker, Cool(t) PROVE Cool(t)'
    BY <1>3, <2>2, <2>3, <2>5 DEF Cool
  <2>6. QueueCool'
    BY <2>3, <2>4, <2>5, QueueCoolNext DEF CoolInv, QueueCool
  <2>7. ASSUME NEW i \in Events("order_intent")', journal'[i].leg = 1, NEW t, t = journal'[i].ticker
        PROVE  /\ \A r \in FillsOn(t)' :
                    r < i => journal'[i].at - journal'[r].at >= ReentryCooldown
               /\ \A x \in InvalidsOn(t)' :
                    x < i => journal'[i].at - journal'[x].at >= InvalidParamCooldown
    <3>1. i \in Events("order_intent") /\ i \in DOMAIN journal /\ i < k /\ i \in Nat
      BY <2>2 DEF Events
    <3>2. journal'[i] = journal[i]
      BY <2>2, <3>1
    <3>3. QED BY <1>3, <2>2, <2>7, <3>1, <3>2 DEF CoolInv, CooldownsRespected
  <2>8. CooldownsRespected'
    BY <2>7, RespectedNext
  <2>9. QED BY <1>1, <2>6, <2>8 DEF CoolInv
<1>8. QED BY <1>4, <1>5, <1>6, <1>7

\* No trade begins on a market within a cooldown of a fill or of a rejected
\* parameter there: the guards look once for the whole cycle, and neither time
\* nor the trades before it, which are on other markets, can change the answer.
THEOREM CooldownsHold == Spec => []CooldownsRespected
<1>1. Init => CoolInv
  BY DEF Init, CoolInv, TimesOrdered, QueueCool, CooldownsRespected, Events
<1>2. ShapeInv /\ CoolInv /\ [Next]_vars => CoolInv'
  BY StepKinds, CoolStep
<1>3. CoolInv => CooldownsRespected
  BY DEF CoolInv
<1>4. QED BY ShapeInvariant, <1>1, <1>2, <1>3, PTL DEF Spec

(***************************************************************************)
(* The open-order guard.  A reported order that still rests was reported   *)
(* open, under its own id, and that report is the last one of its outcome: *)
(* the guard sees it, and no trade that passed the guard before it, in the *)
(* queue or in the call, is for the same outcome.                          *)
(***************************************************************************)
Resting(t, o) ==
  {i \in Events("order_report") :
     /\ journal[i].ticker = t /\ journal[i].outcome = o
     /\ journal[i].cid \in DOMAIN orders /\ orders[journal[i].cid].rests}

Blocks(i, t, o) ==
  /\ journal[i].status \in OpenStatus /\ i \in ReportsOn(t)
  /\ \A j \in KeyReports(t, o) : j <= i
  /\ \A q \in DOMAIN queue : ~(queue[q].ticker = t /\ queue[q].outcome = o)
  /\ call # Nil => ~(call.ticker = t /\ call.outcome = o)

BlockInv ==
  ReportedOrdersBlock /\ \A t \in Tickers, o \in Outcomes : \A i \in Resting(t, o) : Blocks(i, t, o)

\* The guard refuses a trade for the outcome of a reported order that rests.
LEMMA GuardSeesResting ==
  ASSUME TypeOK, NEW a, Admits(a), NEW t, NEW o, NEW i \in Resting(t, o), Blocks(i, t, o)
  PROVE  ~(a.ticker = t /\ a.outcome = o)
<1> SUFFICES ASSUME a.ticker = t, a.outcome = o PROVE FALSE
  OBVIOUS
<1> DEFINE S == KeyReports(t, o)
<1>1. i \in S /\ i \in ReportsOn(t)
  BY DEF Resting, Blocks, KeyReports
<1>2. \A j \in S : j <= i /\ j \in Nat
  BY DEF Blocks, KeyReports, ReportsOn, Events, TypeOK
<1> HIDE DEF S
<1>3. Max(S) = i
  <2>1. \A y \in S : i >= y
    BY <1>1, <1>2
  <2>2. Max(S) \in S /\ Max(S) >= i
    BY <1>1, <2>1 DEF Max
  <2>3. QED BY <1>1, <1>2, <2>2
<1>4. HasOpenKey(a.ticker, a.outcome)
  BY <1>1, <1>3 DEF HasOpenKey, Blocks, S
<1>5. QED BY <1>1, <1>4 DEF Admits, Known

\* A report that was there names another order than the one being submitted.
LEMMA OthersReported ==
  ASSUME ShapeInv, Submitting, NEW i \in Events("order_report")
  PROVE  journal[i].cid # call.cid
BY DEF ShapeInv, CallFresh, NotReported

\* A step that adds no report, and no trade on a key that was free, keeps the
\* guard's view: no order begins to rest that was reported before.
LEMMA BlocksKept ==
  ASSUME ShapeInv, NEW t, NEW o, \A i \in Resting(t, o) : Blocks(i, t, o),
         Events("order_report")' = Events("order_report"),
         \A i \in Events("order_report") : journal'[i] = journal[i],
         ReportsOn(t)' = ReportsOn(t),
         \A c \in DOMAIN orders' :
            (c \in DOMAIN orders /\ (orders'[c].rests => orders[c].rests))
              \/ (Submitting /\ c = call.cid),
         Resting(t, o) # {} =>
           /\ \A q \in DOMAIN queue' : ~(queue'[q].ticker = t /\ queue'[q].outcome = o)
           /\ call' # Nil => ~(call'.ticker = t /\ call'.outcome = o)
  PROVE  \A i \in Resting(t, o)' : i \in Resting(t, o) /\ Blocks(i, t, o)'
<1>1. Resting(t, o)' \subseteq Resting(t, o)
  BY OthersReported DEF Resting
<1>2. \A i \in ReportsOn(t) : journal'[i] = journal[i]
  BY DEF ReportsOn
<1>3. KeyReports(t, o)' = KeyReports(t, o)
  BY <1>2 DEF KeyReports
<1>4. ASSUME NEW i \in Resting(t, o)' PROVE Blocks(i, t, o)'
  <2>1. i \in Resting(t, o) /\ Blocks(i, t, o) /\ journal'[i] = journal[i]
    BY <1>1 DEF Resting
  <2>2. QED BY <1>3, <2>1 DEF Blocks
<1>5. QED BY <1>1, <1>4

\* The end of a submission keeps the guard's view.  An order that rests when
\* it is reported is no IOC order, so that no second leg follows, and the other
\* trades of the cycle are on other markets.
LEMMA BlockEnds ==
  ASSUME ShapeInv, CallSized, BlockInv, "cancel_lost" \notin Faults,
         NEW e, NEW filled, Ends(e, filled)
  PROVE  BlockInv'
<1> DEFINE k == Len(journal) + 1
<1>1. /\ k \in Nat /\ k \notin DOMAIN journal /\ (\A i \in DOMAIN journal : i \in Nat /\ i < k)
      /\ journal'[k] = e
      /\ \A i \in DOMAIN journal : journal'[i] = journal[i]
      /\ Events("order_intent")' = Events("order_intent")
      /\ Events("order_report")' = IF e.event = "order_report"
                                   THEN Events("order_report") \cup {k}
                                   ELSE Events("order_report")
      /\ \A t : /\ ReportsOn(t) \subseteq ReportsOn(t)'
                /\ ReportsOn(t)' \subseteq ReportsOn(t) \cup {k}
                /\ t # call.ticker \/ e.event # "order_report" => ReportsOn(t)' = ReportsOn(t)
  BY AppendOutcome DEF ShapeInv, Ends
<1> HIDE DEF k
<1>2. /\ Submitting /\ e \in JournalEntry /\ e.ticker = call.ticker /\ e.outcome = call.outcome
      /\ e.cid \in {call.cid, Nil} /\ queue' = queue
      /\ DOMAIN orders' \subseteq DOMAIN orders \cup {call.cid}
      /\ \A c \in DOMAIN orders : c \in DOMAIN orders' /\ orders'[c] = orders[c]
  BY DEF Ends
<1>3. call' = Nil \/ (call'.ticker = call.ticker /\ call'.outcome = call.outcome)
  BY DEF Ends
<1>4. call # Nil /\ Nil \notin DOMAIN orders' /\ call \in Call
  <2>1. Nil \notin DOMAIN orders
    BY GuardAssumption DEF ShapeInv, TypeOK, IntentsOnce, Used
  <2>2. QED BY <1>2, <2>1 DEF Submitting, ShapeInv, TypeOK
<1>5. \A i \in Events("order_report") : i \in DOMAIN journal /\ journal'[i] = journal[i]
                                       /\ journal[i].cid # call.cid
  BY <1>1, <1>2, OthersReported DEF Events
<1>6. ASSUME NEW t, NEW o
      PROVE  Resting(t, o)' \subseteq Resting(t, o) \cup
               (IF t = call.ticker /\ o = call.outcome THEN {k} ELSE {})
  BY <1>1, <1>2, <1>5 DEF Resting
<1>7. ASSUME NEW t \in Tickers, NEW o \in Outcomes, NEW i \in Resting(t, o) PROVE Blocks(i, t, o)'
  <2>1. Blocks(i, t, o) /\ ~(call.ticker = t /\ call.outcome = o) /\ journal'[i] = journal[i]
        /\ i \in ReportsOn(t)' /\ journal'[i].status \in OpenStatus
    BY <1>1, <1>4, <1>5 DEF BlockInv, Blocks, Resting
  <2>2. KeyReports(t, o)' \subseteq KeyReports(t, o)
    <3>1. \A j \in ReportsOn(t) : journal'[j] = journal[j]
      BY <1>5 DEF ReportsOn
    <3>2. ASSUME NEW j \in KeyReports(t, o)' PROVE j \in KeyReports(t, o)
      <4>1. j \in ReportsOn(t)' /\ journal'[j].outcome = o
        BY DEF KeyReports
      <4>2. j # k
        BY <1>1, <1>2, <1>5, <2>1, <4>1 DEF ReportsOn, Events
      <4>3. QED BY <1>1, <3>1, <4>1, <4>2 DEF KeyReports
    <3>3. QED BY <3>2
  <2>3. QED BY <1>2, <1>3, <2>1, <2>2 DEF Blocks
<1>8. ASSUME NEW t, NEW o, t = call.ticker, o = call.outcome,
             NEW i \in Resting(t, o)', i = k
      PROVE  Blocks(i, t, o)'
  <2>1. k \in Events("order_report")' /\ e.cid \in DOMAIN orders' /\ orders'[e.cid].rests
    BY <1>1, <1>8 DEF Resting
  <2>2. e.event = "order_report" /\ e.cid = call.cid
    BY <1>1, <1>2, <1>4, <2>1 DEF Events
  <2>3. e.status \in OpenStatus /\ ~call.ioc
    BY <2>1, <2>2 DEF Ends
  <2>4. call' = Nil
    BY <1>4, <2>3 DEF Ends, CallSized
  <2>5. k \in ReportsOn(t)'
    <3>1. PICK j \in Events("order_intent") : journal[j].cid = call.cid /\ journal[j].ticker = t
      BY <1>2, <1>8 DEF ShapeInv, OwnIntent
    <3>2. j < k /\ j \in Events("order_intent")' /\ journal'[j] = journal[j]
      BY <1>1, <3>1 DEF Events
    <3>3. QED BY <1>1, <2>1, <2>2, <3>1, <3>2 DEF ReportsOn
  <2>6. \A j \in KeyReports(t, o)' : j <= k
    BY <1>1 DEF KeyReports, ReportsOn, Events
  <2>7. \A q \in DOMAIN queue' : queue'[q].ticker # t
    BY <1>2, <1>4, <1>8 DEF ShapeInv, Apart
  <2>8. QED BY <1>1, <1>8, <2>3, <2>4, <2>5, <2>6, <2>7 DEF Blocks
<1>9. ASSUME NEW t \in Tickers, NEW o \in Outcomes, NEW i \in Resting(t, o)'
      PROVE  Blocks(i, t, o)'
  <2>1. CASE i \in Resting(t, o)
    BY <1>7, <2>1
  <2>2. CASE i \notin Resting(t, o)
    <3>1. i = k /\ t = call.ticker /\ o = call.outcome
      BY <1>6, <2>2
    <3>2. QED BY <1>8, <3>1
  <2>3. QED BY <2>1, <2>2
<1>10. ReportedOrdersBlock'
  <2>1. ASSUME NEW i \in Events("order_report")', NEW j \in Events("order_intent")',
               i < j, journal'[j].leg = 1, journal'[i].cid \in DOMAIN orders',
               journal'[i].ticker = journal'[j].ticker,
               journal'[i].outcome = journal'[j].outcome
        PROVE  ~orders'[journal'[i].cid].rests
    <3>1. j \in Events("order_intent") /\ j \in Nat /\ j < k /\ journal'[j] = journal[j]
      BY <1>1 DEF Events
    <3>2. i # k /\ i \in Events("order_report")
      BY <1>1, <2>1, <3>1
    <3>3. journal'[i] = journal[i] /\ journal[i].cid # call.cid
      BY <1>5, <3>2
    <3>4. journal[i].cid \in DOMAIN orders /\ orders'[journal[i].cid] = orders[journal[i].cid]
      BY <1>2, <2>1, <3>3
    <3>5. QED BY <2>1, <3>1, <3>2, <3>3, <3>4 DEF BlockInv, ReportedOrdersBlock
  <2>2. QED BY <2>1 DEF ReportedOrdersBlock
<1>11. QED BY <1>9, <1>10 DEF BlockInv

LEMMA BlockStep ==
  ASSUME ShapeInv, CallSized, BlockInv, "cancel_lost" \notin Faults,
         Admission \/ Quiet \/ Begins \/ EndsCall
  PROVE  BlockInv'
<1>1. CASE Admission
  <2>1. UNCHANGED <<now, journal, orders, call>> /\ call = Nil
    BY <1>1 DEF Admission
  <2>2. PICK A \in Seq(Trades) :
          \E f \in Ordered(Admitted(A)) : queue' = [i \in DOMAIN f |-> A[f[i]]]
    BY <1>1 DEF Admission
  <2>3. PICK f \in Ordered(Admitted(A)) : queue' = [i \in DOMAIN f |-> A[f[i]]]
    BY <2>2
  <2>4. \A q \in DOMAIN queue' : Admits(queue'[q])
    BY <2>3, CycleAdmits
  <2>5. ASSUME NEW t \in Tickers, NEW o \in Outcomes, NEW i \in Resting(t, o)
        PROVE  \A q \in DOMAIN queue' : ~(queue'[q].ticker = t /\ queue'[q].outcome = o)
    BY <2>4, GuardSeesResting DEF BlockInv, ShapeInv
  <2>6. ASSUME NEW t \in Tickers, NEW o \in Outcomes
        PROVE  \A i \in Resting(t, o)' : Blocks(i, t, o)'
    BY <2>1, <2>5, SameJournal, BlocksKept DEF BlockInv
  <2>7. ReportedOrdersBlock'
    BY <2>1, SameJournal DEF BlockInv, ReportedOrdersBlock
  <2>8. QED BY <2>6, <2>7 DEF BlockInv
<1>2. CASE Quiet
  <2>1. /\ journal' = journal
        /\ \A c \in DOMAIN orders' :
             (c \in DOMAIN orders /\ (orders'[c].rests => orders[c].rests))
               \/ (Submitting /\ c = call.cid)
        /\ call' = Nil \/ call' = call
    BY <1>2 DEF Quiet
  <2>2. \A q \in DOMAIN queue' : \E k \in DOMAIN queue : queue'[q] = queue[k]
    BY <1>2, QueueShrinks DEF Quiet, ShapeInv, TypeOK
  <2>3. ASSUME NEW t \in Tickers, NEW o \in Outcomes
        PROVE  \A i \in Resting(t, o)' : Blocks(i, t, o)'
    <3>1. ASSUME Resting(t, o) # {}
          PROVE  /\ \A q \in DOMAIN queue' : ~(queue'[q].ticker = t /\ queue'[q].outcome = o)
                 /\ call' # Nil => ~(call'.ticker = t /\ call'.outcome = o)
      BY <2>1, <2>2, <3>1 DEF BlockInv, Blocks
    <3>2. QED BY <2>1, <3>1, SameJournal, BlocksKept DEF BlockInv
  <2>4. ReportedOrdersBlock'
    BY <2>1, SameJournal, OthersReported DEF BlockInv, ReportedOrdersBlock
  <2>5. QED BY <2>3, <2>4 DEF BlockInv
<1>3. CASE Begins
  <2>1. PICK a, c, n, leg : Starts(a, c, n, leg)
    BY <1>3, BeginsIntent
  <2> DEFINE k == Len(journal) + 1
  <2>2. /\ k \in Nat /\ k \notin DOMAIN journal /\ (\A i \in DOMAIN journal : i \in Nat /\ i < k)
        /\ journal'[k].ticker = a.ticker /\ journal'[k].outcome = a.outcome
        /\ journal'[k].leg = leg
        /\ \A i \in DOMAIN journal : journal'[i] = journal[i]
        /\ Events("order_intent")' = Events("order_intent") \cup {k}
        /\ Events("order_report")' = Events("order_report")
        /\ \A t : ReportsOn(t)' = ReportsOn(t)
    BY <2>1, StartsEffect
  <2> HIDE DEF k
  <2>3. /\ a.ticker \in Tickers /\ a.outcome \in Outcomes /\ orders' = orders
        /\ call'.ticker = a.ticker /\ call'.outcome = a.outcome
        /\ \A i \in DOMAIN queue' : \E j \in DOMAIN queue : queue'[i] = queue[j]
        /\ (\E j \in DOMAIN queue : a = queue[j]) \/ (call # Nil /\ a = call)
    BY <2>1, IntendCall DEF Starts, BetweenLegs
  <2>4. ASSUME NEW t \in Tickers, NEW o \in Outcomes, Resting(t, o) # {}
        PROVE  /\ ~(a.ticker = t /\ a.outcome = o)
               /\ \A q \in DOMAIN queue' : ~(queue'[q].ticker = t /\ queue'[q].outcome = o)
    BY <2>3, <2>4 DEF BlockInv, Blocks
  <2>5. \A i \in Events("order_report") : journal'[i] = journal[i]
    BY <2>2 DEF Events
  <2>6. ASSUME NEW t \in Tickers, NEW o \in Outcomes
        PROVE  \A i \in Resting(t, o)' : Blocks(i, t, o)'
    BY <2>2, <2>3, <2>4, <2>5, BlocksKept DEF BlockInv
  <2>7. ASSUME NEW i \in Events("order_report")', NEW j \in Events("order_intent")',
               i < j, journal'[j].leg = 1, journal'[i].cid \in DOMAIN orders',
               journal'[i].ticker = journal'[j].ticker,
               journal'[i].outcome = journal'[j].outcome
        PROVE  ~orders'[journal'[i].cid].rests
    <3>1. i \in Events("order_report") /\ journal'[i] = journal[i]
      BY <2>2, <2>5
    <3>2. CASE j = k
      <4>1. SUFFICES ASSUME orders[journal[i].cid].rests PROVE FALSE
        BY <2>3, <3>1
      <4>2. i \in Resting(a.ticker, a.outcome)
        BY <2>2, <2>3, <2>7, <3>1, <3>2, <4>1 DEF Resting
      <4>3. QED BY <2>3, <2>4, <4>2
    <3>3. CASE j \in Events("order_intent")
      <4>1. journal'[j] = journal[j]
        BY <2>2, <3>3 DEF Events
      <4>2. QED BY <2>3, <2>7, <3>1, <3>3, <4>1 DEF BlockInv, ReportedOrdersBlock
    <3>4. QED BY <2>2, <3>2, <3>3
  <2>8. ReportedOrdersBlock'
    BY <2>7 DEF ReportedOrdersBlock
  <2>9. QED BY <2>6, <2>8 DEF BlockInv
<1>4. CASE EndsCall
  <2>1. PICK e, filled : Ends(e, filled)
    BY <1>4 DEF EndsCall
  <2>2. QED BY <2>1, BlockEnds
<1>5. QED BY <1>1, <1>2, <1>3, <1>4

\* No trade begins for an outcome while a reported order rests there, as long
\* as no cancel of an IOC order is lost: the one case in which a report does not
\* tell the guard what the exchange holds.
THEOREM RestingOrdersBlock ==
  ASSUME "cancel_lost" \notin Faults PROVE Spec => []ReportedOrdersBlock
<1>1. Init => BlockInv
  BY DEF Init, BlockInv, ReportedOrdersBlock, Resting, Events
<1>2. ShapeInv /\ CallSized /\ BlockInv /\ [Next]_vars => BlockInv'
  BY StepKinds, BlockStep
<1>3. BlockInv => ReportedOrdersBlock
  BY DEF BlockInv
<1>4. QED BY ShapeInvariant, <1>1, <1>2, <1>3, PTL DEF Spec

(***************************************************************************)
(* The cap.  A trade of the queue fits under it, and what is left of the   *)
(* trade being executed fits even at the price at which a NO fill is       *)
(* reported: what its first leg filled is counted, and no longer left.     *)
(***************************************************************************)
Cap     == Larger(MaxNotionalPerTicker, LargestTrade)
Ceiling == Cap + (NoPriceFactor - 1) * LargestTrade

QueueFits ==
  \A i \in DOMAIN queue :
    /\ queue[i].notional \in Nat /\ queue[i].notional <= LargestTrade
    /\ OpenNotional(queue[i].ticker) + queue[i].notional <= Cap

CallFits == call # Nil => OpenNotional(call.ticker) + NoPriceFactor * call.left <= Ceiling

UnitsFinite == \A t \in Tickers : IsFiniteSet(FilledUnits(t))

CapInv == UnitsFinite /\ QueueFits /\ CallFits /\ RecordedNotionalCapped

\* The same parts in the next state, market by market.
LEMMA QueueFitsNext ==
  ASSUME \A i \in DOMAIN queue' :
           \E t : /\ t = queue'[i].ticker
                  /\ queue'[i].notional \in Nat /\ queue'[i].notional <= LargestTrade
                  /\ OpenNotional(t)' + queue'[i].notional <= Cap
  PROVE  QueueFits'
<1>1. ASSUME NEW i \in DOMAIN queue', NEW t, t = queue'[i].ticker, NEW m, m = OpenNotional(t)'
      PROVE  m = OpenNotional(queue[i].ticker)'
  BY <1>1 DEF OpenNotional, FilledUnits, FillsOn, ReportsOn, Events
<1>2. Cap' = Cap /\ LargestTrade' = LargestTrade
  BY DEF Cap, Larger, LargestTrade
<1>3. ASSUME NEW i \in DOMAIN queue'
      PROVE  /\ queue'[i].notional \in Nat /\ queue'[i].notional <= LargestTrade
             /\ OpenNotional(queue[i].ticker)' + queue'[i].notional <= Cap
  <2>1. PICK t : /\ t = queue'[i].ticker
                 /\ queue'[i].notional \in Nat /\ queue'[i].notional <= LargestTrade
                 /\ OpenNotional(t)' + queue'[i].notional <= Cap
    OBVIOUS
  <2>2. OpenNotional(t)' = OpenNotional(queue[i].ticker)'
    BY <1>1, <2>1
  <2>3. QED BY <2>1, <2>2
<1>4. QED BY <1>2, <1>3 DEF QueueFits

LEMMA CallFitsNext ==
  ASSUME call' # Nil =>
           \E t : t = call'.ticker /\ OpenNotional(t)' + NoPriceFactor * call'.left <= Ceiling
  PROVE  CallFits'
BY ZenonT(60) DEF CallFits, OpenNotional, FilledUnits, FillsOn, ReportsOn, Events, Ceiling, Cap, Larger,
   LargestTrade

\* The allocator's trades are no larger than the largest.
LEMMA LargestBounds ==
  /\ LargestTrade \in Nat /\ \A n \in Notionals : n \in Nat /\ n <= LargestTrade
  /\ Cap \in Nat /\ LargestTrade <= Cap /\ MaxNotionalPerTicker <= Cap
<1>1. PICK n \in Notionals : \A m \in Notionals : m <= n
  BY GuardAssumption
<1>2. n \in Nat /\ Notionals \subseteq Nat
  BY GuardAssumption
<1>3. LargestTrade \in Notionals /\ \A m \in Notionals : m <= LargestTrade
  BY <1>1, <1>2, MaxOf DEF LargestTrade
<1>4. LargestTrade \in Nat
  BY <1>2, <1>3
<1>5. Cap \in Nat /\ LargestTrade <= Cap /\ MaxNotionalPerTicker <= Cap
  BY <1>4, GuardAssumption DEF Cap, Larger
<1>6. QED BY <1>2, <1>3, <1>4, <1>5

\* What is filled once more is counted once more.
LEMMA UnitsAdd ==
  ASSUME ShapeInv, UnitsFinite, NEW e, NEW filled, Ends(e, filled), NEW t \in Tickers
  PROVE  /\ IsFiniteSet(FilledUnits(t)') /\ OpenNotional(t)' \in Nat
         /\ t # call.ticker => OpenNotional(t)' = OpenNotional(t)
         /\ OpenNotional(t)' <= OpenNotional(t) + NoPriceFactor * filled
<1> DEFINE k == Len(journal) + 1
<1>1. /\ k \in Nat /\ k \notin DOMAIN journal /\ (\A i \in DOMAIN journal : i \in Nat /\ i < k)
      /\ journal'[k] = e
      /\ \A i \in DOMAIN journal : journal'[i] = journal[i]
      /\ FillsOn(t)' \subseteq FillsOn(t) \cup {k} /\ FillsOn(t) \subseteq FillsOn(t)'
      /\ t # call.ticker \/ e.event # "order_report" => FillsOn(t)' = FillsOn(t)
  BY OutcomeFills
<1> HIDE DEF k
<1>2. \A i \in FillsOn(t) : journal'[i] = journal[i] /\ i # k
  BY <1>1 DEF FillsOn, ReportsOn, Events
<1>3. IsFiniteSet(FilledUnits(t)) /\ OpenNotional(t) \in Nat
  BY FS_CardinalityType DEF UnitsFinite, OpenNotional
<1>4. filled \in Nat /\ NoPriceFactor * filled \in Nat /\ e.value \in Nat
  <2>1. filled \in Nat
    BY DEF Ends, ShapeInv, TypeOK, Submitting, Call
  <2>2. \A a, b \in Nat : a * b \in Nat
    OBVIOUS
  <2>3. QED BY <2>1, <2>2, GuardAssumption, EntryFields DEF Ends
<1>5. CASE FillsOn(t)' = FillsOn(t)
  <2>1. FilledUnits(t)' = FilledUnits(t)
    BY <1>2, <1>5 DEF FilledUnits
  <2>2. OpenNotional(t)' = OpenNotional(t)
    BY <2>1 DEF OpenNotional
  <2>3. QED BY <1>3, <1>4, <2>1, <2>2
<1>6. CASE FillsOn(t)' # FillsOn(t)
  <2>1. FillsOn(t)' = FillsOn(t) \cup {k} /\ t = call.ticker /\ e.event = "order_report"
    BY <1>1, <1>6
  <2> DEFINE new == {k} \X (1..e.value)
  <2>2. FilledUnits(t)' = FilledUnits(t) \cup new
    BY <1>1, <1>2, <2>1 DEF FilledUnits
  <2>3. FilledUnits(t) \cap new = {}
    BY <1>2 DEF FilledUnits
  <2>4. IsFiniteSet(1..e.value) /\ Cardinality(1..e.value) = e.value
    <3>1. IsFiniteSet(1..e.value)
          /\ Cardinality(1..e.value) = IF 1 > e.value THEN 0 ELSE e.value - 1 + 1
      <4>1. 1 \in Int /\ e.value \in Int
        BY <1>4
      <4>2. QED BY <4>1, FS_Interval, Zenon
    <3>2. QED BY <1>4, <3>1
  <2>5. IsFiniteSet({k}) /\ Cardinality({k}) = 1
    BY FS_Singleton
  <2>6. IsFiniteSet(new) /\ Cardinality(new) = 1 * e.value
    BY <2>4, <2>5, FS_Product, ZenonT(60)
  <2> HIDE DEF new
  <2>7. /\ IsFiniteSet(FilledUnits(t) \cup new)
        /\ Cardinality(FilledUnits(t) \cup new) = Cardinality(FilledUnits(t)) + Cardinality(new)
                                                   - Cardinality(FilledUnits(t) \cap new)
    BY <1>3, <2>6, FS_Union
  <2>8. OpenNotional(t)' = OpenNotional(t) + e.value
    <3>1. Cardinality(FilledUnits(t) \cap new) = 0
      BY <2>3, FS_EmptySet
    <3>2. OpenNotional(t)' = Cardinality(FilledUnits(t) \cup new)
      BY <2>2 DEF OpenNotional
    <3>3. Cardinality(new) = e.value
      BY <1>4, <2>6
    <3>4. Cardinality(FilledUnits(t)) = OpenNotional(t)
      BY DEF OpenNotional
    <3>5. QED BY <1>3, <1>4, <2>7, <3>1, <3>2, <3>3, <3>4
  <2>9. e.value <= NoPriceFactor * filled
    BY <2>1 DEF Ends
  <2>10. QED BY <1>3, <1>4, <2>1, <2>2, <2>7, <2>8, <2>9
<1>7. QED BY <1>5, <1>6

\* A step that adds no fill adds nothing to any market.
LEMMA UnitsSame ==
  ASSUME CapInv, \A t : FillsOn(t)' = FillsOn(t),
         \A t \in Tickers : \A i \in FillsOn(t) : journal'[i] = journal[i]
  PROVE  /\ UnitsFinite' /\ RecordedNotionalCapped'
         /\ \A t \in Tickers : OpenNotional(t)' = OpenNotional(t) /\ OpenNotional(t) \in Nat
<1>1. ASSUME NEW t \in Tickers PROVE FilledUnits(t)' = FilledUnits(t)
  BY DEF FilledUnits
<1>2. ASSUME NEW t \in Tickers PROVE OpenNotional(t)' = OpenNotional(t) /\ OpenNotional(t) \in Nat
  BY <1>1, FS_CardinalityType DEF OpenNotional, CapInv, UnitsFinite
<1>3. UnitsFinite'
  BY <1>1 DEF CapInv, UnitsFinite
<1>4. RecordedNotionalCapped'
  BY <1>2 DEF CapInv, RecordedNotionalCapped
<1>5. QED BY <1>2, <1>3, <1>4

\* What a fill takes from the trade it adds, at most, to its market.
LEMMA LeftBounds ==
  ASSUME NEW open \in Nat, NEW left \in Nat, NEW filled \in Nat, filled <= left
  PROVE  /\ NoPriceFactor * filled <= NoPriceFactor * left
         /\ NoPriceFactor * (left - filled) = NoPriceFactor * left - NoPriceFactor * filled
         /\ NoPriceFactor * left \in Nat /\ NoPriceFactor * filled \in Nat
         /\ NoPriceFactor * left = left + (NoPriceFactor - 1) * left
<1>1. NoPriceFactor \in Nat
  BY GuardAssumption
<1>2. \A a, b, c \in Nat : b <= c => a * b <= a * c
  OBVIOUS
<1>3. \A a, b, c \in Nat : a * (b - c) = a * b - a * c
  OBVIOUS
<1>4. \A a, b \in Nat : a * b \in Nat
  OBVIOUS
<1>5. \A a, b \in Nat : a * b = b + (a - 1) * b
  OBVIOUS
<1>6. QED BY <1>1, <1>2, <1>3, <1>4, <1>5

\* The largest trade leaves the most room for the price of a NO fill.
LEMMA CeilingType ==
  /\ Ceiling \in Nat /\ Cap <= Ceiling
  /\ \A n \in Nat : n <= LargestTrade => Cap + (NoPriceFactor - 1) * n <= Ceiling
<1>1. NoPriceFactor - 1 \in Nat /\ LargestTrade \in Nat /\ Cap \in Nat
  BY GuardAssumption, LargestBounds
<1>2. \A a, b \in Nat : a * b \in Nat
  OBVIOUS
<1>3. \A a, b, c \in Nat : b <= c => a * b <= a * c
  OBVIOUS
<1>4. (NoPriceFactor - 1) * LargestTrade \in Nat
  BY <1>1, <1>2
<1>5. ASSUME NEW n \in Nat, n <= LargestTrade
      PROVE  Cap + (NoPriceFactor - 1) * n <= Ceiling
  <2>1. (NoPriceFactor - 1) * n <= (NoPriceFactor - 1) * LargestTrade
    BY <1>1, <1>3, <1>5
  <2>2. (NoPriceFactor - 1) * n \in Nat
    BY <1>1, <1>2
  <2>3. QED BY <1>1, <1>4, <2>1, <2>2 DEF Ceiling
<1>6. QED BY <1>1, <1>4, <1>5 DEF Ceiling

LEMMA CapStep ==
  ASSUME ShapeInv, CallSized, CapInv, Admission \/ Quiet \/ Begins \/ EndsCall
  PROVE  CapInv'
<1>1. \A t : FillsOn(t) \subseteq DOMAIN journal
  BY DEF FillsOn, ReportsOn, Events
<1>2. \A i \in DOMAIN queue : queue[i].ticker \in Tickers
  <2>1. \A i \in DOMAIN queue : queue[i] \in Trade
    BY DEF ShapeInv, TypeOK
  <2>2. \A a \in Trade : a.ticker \in Tickers
    BY DEF Trade
  <2>3. QED BY <2>1, <2>2
<1>3. CASE Admission
  <2>1. UNCHANGED <<now, journal, orders, call>> /\ call = Nil
    BY <1>3 DEF Admission
  <2>2. PICK A \in Seq(Trades) :
          \E f \in Ordered(Admitted(A)) : queue' = [i \in DOMAIN f |-> A[f[i]]]
    BY <1>3 DEF Admission
  <2>3. PICK f \in Ordered(Admitted(A)) : queue' = [i \in DOMAIN f |-> A[f[i]]]
    BY <2>2
  <2>4. \A q \in DOMAIN queue' : Admits(queue'[q]) /\ queue'[q] \in Trades
    BY <2>3, CycleAdmits
  <2>5. /\ UnitsFinite' /\ RecordedNotionalCapped'
        /\ \A t \in Tickers : OpenNotional(t)' = OpenNotional(t) /\ OpenNotional(t) \in Nat
    BY <2>1, SameJournal, UnitsSame
  <2>6. ASSUME NEW a \in Trades, Admits(a)
        PROVE  /\ a.ticker \in Tickers /\ a.notional \in Nat /\ a.notional <= LargestTrade
               /\ OpenNotional(a.ticker) + a.notional <= Cap
    <3>1. a.ticker \in Tickers /\ a.notional \in Nat /\ a.notional <= LargestTrade
      BY LargestBounds DEF Trades
    <3>2. CASE Known(a.ticker)
      <4>1. OpenNotional(a.ticker) + a.notional <= MaxNotionalPerTicker
        BY <2>6, <3>2 DEF Admits
      <4>2. QED BY <2>5, <3>1, <4>1, LargestBounds, GuardAssumption
    <3>3. CASE ~Known(a.ticker)
      <4>1. FilledUnits(a.ticker) = {}
        BY <3>3 DEF Known, FilledUnits, FillsOn
      <4>2. OpenNotional(a.ticker) = 0
        BY <4>1, FS_EmptySet DEF OpenNotional
      <4>3. QED BY <3>1, <4>2, LargestBounds
    <3>4. QED BY <3>1, <3>2, <3>3
  <2>7. QueueFits'
    <3>1. ASSUME NEW i \in DOMAIN queue', NEW t, t = queue'[i].ticker
          PROVE  /\ queue'[i].notional \in Nat /\ queue'[i].notional <= LargestTrade
                 /\ OpenNotional(t)' + queue'[i].notional <= Cap
      BY <2>4, <2>5, <2>6, <3>1
    <3>2. QED BY <3>1, QueueFitsNext
  <2>8. CallFits'
    BY <2>1 DEF CallFits
  <2>9. QED BY <2>5, <2>7, <2>8 DEF CapInv
<1>4. CASE Quiet
  <2>1. journal' = journal /\ (call' = Nil \/ call' = call)
    BY <1>4 DEF Quiet
  <2>2. \A q \in DOMAIN queue' : \E j \in DOMAIN queue : queue'[q] = queue[j]
    BY <1>4, QueueShrinks DEF Quiet, ShapeInv, TypeOK
  <2>3. /\ UnitsFinite' /\ RecordedNotionalCapped'
        /\ \A t \in Tickers : OpenNotional(t)' = OpenNotional(t)
    BY <2>1, SameJournal, UnitsSame
  <2>4. QueueFits'
    <3>1. ASSUME NEW i \in DOMAIN queue', NEW t, t = queue'[i].ticker
          PROVE  /\ queue'[i].notional \in Nat /\ queue'[i].notional <= LargestTrade
                 /\ OpenNotional(t)' + queue'[i].notional <= Cap
      BY <1>2, <2>2, <2>3, <3>1 DEF CapInv, QueueFits
    <3>2. QED BY <3>1, QueueFitsNext
  <2>5. CallFits'
    <3>1. ASSUME call' # Nil, NEW t, t = call'.ticker
          PROVE  OpenNotional(t)' + NoPriceFactor * call'.left <= Ceiling
      <4>1. call' = call /\ call.ticker \in Tickers
        BY <2>1, <3>1 DEF ShapeInv, TypeOK, Call
      <4>2. QED BY <2>3, <3>1, <4>1 DEF CapInv, CallFits
    <3>2. QED BY <3>1, CallFitsNext
  <2>6. QED BY <2>3, <2>4, <2>5 DEF CapInv
<1>5. CASE Begins
  <2>1. PICK a, c, n, leg : Starts(a, c, n, leg)
    BY <1>5, BeginsIntent
  <2>2. /\ \A i \in DOMAIN journal : journal'[i] = journal[i]
        /\ \A t : FillsOn(t)' = FillsOn(t)
    BY <2>1, StartsEffect
  <2>3. /\ UnitsFinite' /\ RecordedNotionalCapped'
        /\ \A t \in Tickers : OpenNotional(t)' = OpenNotional(t) /\ OpenNotional(t) \in Nat
    BY <1>1, <2>2, UnitsSame
  <2>4. /\ a.ticker \in Tickers /\ n \in Nat /\ call'.ticker = a.ticker /\ call'.left = n
        /\ \A i \in DOMAIN queue' : \E j \in DOMAIN queue : queue'[i] = queue[j]
        /\ \/ \E j \in DOMAIN queue : a = queue[j] /\ n = queue[j].notional
           \/ call # Nil /\ a = call /\ n = call.left
    BY <2>1, IntendCall DEF Starts, BetweenLegs
  <2>5. QueueFits'
    <3>1. ASSUME NEW i \in DOMAIN queue', NEW t, t = queue'[i].ticker
          PROVE  /\ queue'[i].notional \in Nat /\ queue'[i].notional <= LargestTrade
                 /\ OpenNotional(t)' + queue'[i].notional <= Cap
      BY <1>2, <2>3, <2>4, <3>1 DEF CapInv, QueueFits
    <3>2. QED BY <3>1, QueueFitsNext
  <2>6. OpenNotional(a.ticker) + NoPriceFactor * n <= Ceiling
    <3>1. CASE \E j \in DOMAIN queue : a = queue[j] /\ n = queue[j].notional
      <4>1. n <= LargestTrade /\ OpenNotional(a.ticker) + n <= Cap
        BY <3>1 DEF CapInv, QueueFits
      <4>2. NoPriceFactor * n = n + (NoPriceFactor - 1) * n
        BY <2>4, LeftBounds
      <4>3. Cap + (NoPriceFactor - 1) * n <= Ceiling
        BY <2>4, <4>1, CeilingType
      <4>4. (NoPriceFactor - 1) * n \in Nat
        <5>1. \A x, y \in Nat : x * y \in Nat
          OBVIOUS
        <5>2. QED BY <2>4, <5>1, GuardAssumption
      <4>5. QED BY <2>3, <2>4, <4>1, <4>2, <4>3, <4>4, LargestBounds, CeilingType
    <3>2. CASE call # Nil /\ a = call /\ n = call.left
      BY <3>2 DEF CapInv, CallFits
    <3>3. QED BY <2>4, <3>1, <3>2
  <2>7. CallFits'
    <3>1. ASSUME NEW t, t = call'.ticker
          PROVE  OpenNotional(t)' + NoPriceFactor * call'.left <= Ceiling
      BY <2>3, <2>4, <2>6, <3>1
    <3>2. QED BY <3>1, CallFitsNext
  <2>8. QED BY <2>3, <2>5, <2>7 DEF CapInv
<1>6. CASE EndsCall
  <2>1. PICK e, filled : Ends(e, filled)
    BY <1>6 DEF EndsCall
  <2>2. /\ call # Nil /\ call \in Call /\ queue' = queue /\ filled \in 0..call.size
        /\ call.size <= call.left
        /\ call' = Nil \/ (call'.ticker = call.ticker /\ call'.left = call.left - filled)
    BY <2>1 DEF Ends, Submitting, ShapeInv, TypeOK, CallSized
  <2>3. /\ filled \in Nat /\ call.left \in Nat /\ filled <= call.left
        /\ call.ticker \in Tickers
    BY <2>2 DEF Call
  <2>4. \A t \in Tickers : /\ IsFiniteSet(FilledUnits(t)') /\ OpenNotional(t)' \in Nat
                           /\ t # call.ticker => OpenNotional(t)' = OpenNotional(t)
                           /\ OpenNotional(t)' <= OpenNotional(t) + NoPriceFactor * filled
    BY <2>1, UnitsAdd DEF CapInv
  <2>5. \A t \in Tickers : OpenNotional(t) \in Nat
    BY FS_CardinalityType DEF OpenNotional, CapInv, UnitsFinite
  <2>6. OpenNotional(call.ticker) + NoPriceFactor * call.left <= Ceiling
    BY <2>2 DEF CapInv, CallFits
  <2>7. /\ NoPriceFactor * filled <= NoPriceFactor * call.left
        /\ NoPriceFactor * (call.left - filled) = NoPriceFactor * call.left - NoPriceFactor * filled
        /\ NoPriceFactor * call.left \in Nat /\ NoPriceFactor * filled \in Nat
    BY <2>3, LeftBounds
  <2>8. UnitsFinite'
    BY <2>4 DEF UnitsFinite
  <2>9. RecordedNotionalCapped'
    <3>1. ASSUME NEW t \in Tickers PROVE OpenNotional(t)' <= Ceiling
      <4>1. CASE t # call.ticker
        BY <2>4, <4>1 DEF CapInv, RecordedNotionalCapped, Ceiling, Cap
      <4>2. CASE t = call.ticker
        BY <2>3, <2>4, <2>5, <2>6, <2>7, <4>2, CeilingType
      <4>3. QED BY <4>1, <4>2
    <3>2. QED BY <3>1 DEF RecordedNotionalCapped, Ceiling, Cap
  <2>10. QueueFits'
    <3>1. ASSUME NEW i \in DOMAIN queue', NEW t, t = queue'[i].ticker
          PROVE  /\ queue'[i].notional \in Nat /\ queue'[i].notional <= LargestTrade
                 /\ OpenNotional(t)' + queue'[i].notional <= Cap
      <4>1. i \in DOMAIN queue /\ queue'[i] = queue[i] /\ t # call.ticker /\ t \in Tickers
        BY <1>2, <2>2, <3>1 DEF ShapeInv, Apart
      <4>2. QED BY <2>4, <3>1, <4>1 DEF CapInv, QueueFits
    <3>2. QED BY <3>1, QueueFitsNext
  <2>11. CallFits'
    <3>1. ASSUME call' # Nil, NEW t, t = call'.ticker
          PROVE  OpenNotional(t)' + NoPriceFactor * call'.left <= Ceiling
      BY <2>2, <2>3, <2>4, <2>5, <2>6, <2>7, <3>1, CeilingType
    <3>2. QED BY <3>1, CallFitsNext
  <2>12. QED BY <2>8, <2>9, <2>10, <2>11 DEF CapInv
<1>7. QED BY <1>3, <1>4, <1>5, <1>6

\* The fills the journal records for a market stay within the cap, but for the
\* price at which a NO fill is reported, whatever the legs and cycles: a trade is
\* admitted against everything recorded, and nothing is recorded for its market
\* before its turn but what it filled itself.
THEOREM NotionalStaysCapped == Spec => []RecordedNotionalCapped
<1>1. ASSUME Init PROVE CapInv
  <2>1. \A t : FillsOn(t) = {}
    BY <1>1 DEF Init, FillsOn, ReportsOn, Events
  <2>2. \A t : FilledUnits(t) = {}
    BY <2>1 DEF FilledUnits
  <2>3. \A t : IsFiniteSet(FilledUnits(t)) /\ OpenNotional(t) = 0
    BY <2>2, FS_EmptySet DEF OpenNotional
  <2>4. RecordedNotionalCapped
    BY <2>3, CeilingType DEF RecordedNotionalCapped, Ceiling, Cap
  <2>5. QED BY <1>1, <2>3, <2>4 DEF Init, CapInv, UnitsFinite, QueueFits, CallFits
<1>2. ShapeInv /\ CallSized /\ CapInv /\ [Next]_vars => CapInv'
  BY StepKinds, CapStep
<1>3. CapInv => RecordedNotionalCapped
  BY DEF CapInv
<1>4. QED BY ShapeInvariant, <1>1, <1>2, <1>3, PTL DEF Spec
==============================================================================
