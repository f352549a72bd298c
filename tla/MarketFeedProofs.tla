--------------------------- MODULE MarketFeedProofs ---------------------------
(***************************************************************************)
(* Proofs about the market feed, for every value of the constants: how old *)
(* a price or a recorded quote can be, how far a scan goes, and which      *)
(* markets are enriched.                                                   *)
(***************************************************************************)
EXTENDS MarketFeed, ListsProofs, SequenceTheorems, FiniteSetTheorems, TLAPS

(***************************************************************************)
(* A price lives in the price cache for PriceTtl from when it was seen; a  *)
(* market's data for Ttl from when they were put together, with a price    *)
(* that was in the price cache then.                                       *)
(***************************************************************************)
PricesAge ==
  \A s \in DOMAIN prices :
    /\ prices[s].seen \in Nat /\ prices[s].expires \in Nat
    /\ prices[s].expires <= prices[s].seen + PriceTtl

DataFields == {"ticker", "vertical", "signal", "price"}

CacheAges ==
  \A t \in DOMAIN cache :
    /\ cache[t].expires \in Nat /\ DOMAIN cache[t].data = DataFields
    /\ cache[t].data.price # Nil =>
         /\ cache[t].data.price \in Nat
         /\ cache[t].expires <= cache[t].data.price + (PriceTtl - 1) + Ttl

AgeOf(e) == e.price # Nil => e.got - e.price <= (Ttl - 1) + (PriceTtl - 1)

EnrichedAges == \A i \in DOMAIN enriched : AgeOf(enriched[i])

Enriched == {enriched[i] : i \in DOMAIN enriched}

AgeInv ==
  /\ now \in Nat /\ enriched \in Seq(Enriched)
  /\ PricesAge /\ CacheAges /\ EnrichedAges

LEMMA Ttls == Ttl \in Nat \ {0} /\ PriceTtl \in Nat \ {0}
BY FeedAssumption

\* One more market at the end of a sequence.
LEMMA AppendKeeps ==
  ASSUME AgeInv, NEW e, AgeOf(e), enriched' = Append(enriched, e)
  PROVE  enriched' \in Seq(Enriched') /\ EnrichedAges'
<1> DEFINE S == Enriched \cup {e}
<1>1. enriched \in Seq(S)
  <2>1. Enriched \subseteq S
    OBVIOUS
  <2>2. \A T : Enriched \subseteq T => Seq(Enriched) \subseteq Seq(T)
    BY SeqDef
  <2>3. QED BY <2>1, <2>2 DEF AgeInv
<1>2. e \in S
  OBVIOUS
<1> HIDE DEF S
<1>3. /\ enriched' \in Seq(S) /\ Len(enriched') = Len(enriched) + 1
      /\ \A i \in 1..Len(enriched) : enriched'[i] = enriched[i]
      /\ enriched'[Len(enriched) + 1] = e
  BY <1>1, <1>2, AppendProperties
<1>4. DOMAIN enriched' = 1..(Len(enriched) + 1) /\ DOMAIN enriched = 1..Len(enriched)
      /\ Len(enriched) \in Nat
  BY <1>1, <1>3, LenProperties
<1>5. EnrichedAges'
  <2>1. SUFFICES ASSUME NEW i \in DOMAIN enriched' PROVE AgeOf(enriched'[i])
    BY DEF EnrichedAges, AgeOf
  <2>2. i \in 1..Len(enriched) \/ i = Len(enriched) + 1
    BY <1>4, <2>1
  <2>3. QED BY <1>3, <1>4, <2>2 DEF AgeInv, EnrichedAges
<1>6. enriched' \in Seq(Enriched')
  <2>1. enriched' \in [1..(Len(enriched) + 1) -> Enriched']
    <3>1. enriched' = [i \in DOMAIN enriched' |-> enriched'[i]]
      <4>1. enriched' \in [1..Len(enriched') -> S]
        BY <1>3, LenProperties
      <4>2. QED BY <4>1
    <3>2. \A i \in DOMAIN enriched' : enriched'[i] \in Enriched'
      BY DEF Enriched
    <3>3. QED BY <1>4, <3>1, <3>2
  <2>2. \A T : \A n \in Nat : [1..n -> T] \subseteq Seq(T)
    BY SeqDef
  <2>3. Len(enriched) + 1 \in Nat
    BY <1>4
  <2>4. QED BY <2>1, <2>2, <2>3
<1>7. QED BY <1>5, <1>6

\* A price that a market is given is not older than the price cache allows, and
\* the price cache stays as it should be.
LEMMA PriceAges ==
  ASSUME AgeInv, NEW s, NEW price \in Price(s), price # Nil
  PROVE  price \in Nat /\ now - price <= PriceTtl - 1
<1>1. CASE Fresh(prices, s)
  <2>1. s \in DOMAIN prices /\ now < prices[s].expires /\ price = prices[s].seen
    BY <1>1 DEF Price, Fresh
  <2>2. QED BY <2>1, Ttls DEF AgeInv, PricesAge
<1>2. CASE ~Fresh(prices, s)
  <2>1. price = now
    BY <1>2 DEF Price
  <2>2. QED BY <2>1, Ttls DEF AgeInv
<1>3. QED BY <1>1, <1>2

LEMMA RememberAges ==
  ASSUME AgeInv, NEW s, NEW price \in Price(s), prices' = Remember(s, price)
  PROVE  PricesAge'
<1>1. CASE Fresh(prices, s) \/ price = Nil
  BY <1>1 DEF Remember, AgeInv, PricesAge
<1>2. CASE ~Fresh(prices, s) /\ price # Nil
  <2>1. price = now /\ now \in Nat
    BY <1>2 DEF Price, AgeInv
  <2> DEFINE entry == [seen |-> price, expires |-> now + PriceTtl]
  <2>2. /\ DOMAIN prices' = DOMAIN prices \cup {s}
        /\ \A k \in DOMAIN prices' : prices'[k] = IF k = s THEN entry ELSE prices[k]
    BY <1>2 DEF Remember, With
  <2>3. entry.seen \in Nat /\ entry.expires \in Nat /\ entry.expires <= entry.seen + PriceTtl
    BY <2>1, Ttls
  <2> HIDE DEF entry
  <2>4. QED BY <2>2, <2>3 DEF AgeInv, PricesAge
<1>3. QED BY <1>1, <1>2

\* What a market is enriched with from its cached data.
LEMMA Dated ==
  ASSUME NEW data, DOMAIN data = DataFields, NEW g
  PROVE  With(data, "got", g).got = g /\ With(data, "got", g).price = data.price
BY DEF DataFields, With

LEMMA UseCachedKeeps == ASSUME AgeInv, UseCached PROVE AgeInv'
<1> DEFINE c == cache[Current]
<1>1. Current \in DOMAIN cache /\ now < c.expires
  BY DEF UseCached, Fresh
<1>2. /\ c.expires \in Nat /\ DOMAIN c.data = DataFields
      /\ c.data.price # Nil =>
           c.data.price \in Nat /\ c.expires <= c.data.price + (PriceTtl - 1) + Ttl
  BY <1>1 DEF AgeInv, CacheAges
<1> DEFINE e == With(c.data, "got", now)
<1>3. e.got = now /\ e.price = c.data.price
  BY <1>2, Dated
<1>4. enriched' = Append(enriched, e) /\ UNCHANGED <<now, cache, prices>>
  BY DEF UseCached, caches
<1> HIDE DEF e, c
<1>5. AgeOf(e)
  BY <1>1, <1>2, <1>3, Ttls DEF AgeOf, AgeInv
<1>6. QED BY <1>4, <1>5, AppendKeeps DEF AgeInv, PricesAge, CacheAges

LEMMA EnrichMarketKeeps == ASSUME AgeInv, EnrichMarket PROVE AgeInv'
<1>1. PICK signal, price :
        /\ price \in IF Priced(Current) THEN Price(SymbolOf[Current]) ELSE {Nil}
        /\ cache' = PutCached(Current, [ticker |-> Current, vertical |-> Vertical(Current),
                                        signal |-> signal, price |-> price])
        /\ enriched' = Append(enriched,
             With([ticker |-> Current, vertical |-> Vertical(Current),
                   signal |-> signal, price |-> price], "got", now))
        /\ prices' = IF Priced(Current) THEN Remember(SymbolOf[Current], price) ELSE prices
  BY DEF EnrichMarket
<1>2. now' = now /\ now \in Nat
  BY DEF EnrichMarket, AgeInv
<1> DEFINE data == [ticker |-> Current, vertical |-> Vertical(Current),
                    signal |-> signal, price |-> price]
<1>3. DOMAIN data = DataFields /\ data.price = price
  BY DEF DataFields
<1>4. cache' = PutCached(Current, data) /\ enriched' = Append(enriched, With(data, "got", now))
  BY <1>1
<1> HIDE DEF data
<1>5. price # Nil => price \in Nat /\ now - price <= PriceTtl - 1
  BY <1>1, PriceAges
<1>6. PricesAge'
  <2>1. CASE Priced(Current)
    BY <1>1, <2>1, RememberAges
  <2>2. CASE ~Priced(Current)
    BY <1>1, <2>2 DEF AgeInv, PricesAge
  <2>3. QED BY <2>1, <2>2
<1>7. CacheAges'
  <2> DEFINE entry == [data |-> data, expires |-> now + Ttl]
  <2>1. \A t \in DOMAIN cache' :
          IF t = Current THEN cache'[t] = entry
          ELSE t \in DOMAIN cache /\ cache'[t] = cache[t]
    BY <1>4 DEF PutCached, With
  <2>2. entry.data = data /\ entry.expires = now + Ttl
    OBVIOUS
  <2> HIDE DEF entry
  <2>3. /\ entry.expires \in Nat /\ DOMAIN entry.data = DataFields
        /\ entry.data.price # Nil =>
             /\ entry.data.price \in Nat
             /\ entry.expires <= entry.data.price + (PriceTtl - 1) + Ttl
    BY <1>2, <1>3, <1>5, <2>2, Ttls
  <2>4. QED BY <2>1, <2>3 DEF AgeInv, CacheAges
<1> DEFINE e == With(data, "got", now)
<1>8. e.got = now /\ e.price = price
  BY <1>3, Dated
<1> HIDE DEF e
<1>9. AgeOf(e)
  BY <1>2, <1>5, <1>8, Ttls DEF AgeOf
<1>10. enriched' \in Seq(Enriched') /\ EnrichedAges'
  BY <1>4, <1>9, AppendKeeps DEF e
<1>11. QED BY <1>2, <1>6, <1>7, <1>10 DEF AgeInv

\* A cycle starts with nothing enriched, and the clock ticks.
LEMMA StartKeeps == ASSUME AgeInv, StartCycle PROVE AgeInv'
<1>1. enriched' = <<>> /\ UNCHANGED <<now, cache, prices>>
  BY DEF StartCycle, caches
<1>2. enriched' \in Seq(Enriched') /\ EnrichedAges'
  BY <1>1 DEF EnrichedAges
<1>3. QED BY <1>1, <1>2 DEF AgeInv, PricesAge, CacheAges

LEMMA TickKeeps == ASSUME AgeInv, Tick PROVE AgeInv'
<1>1. now' = now + 1 /\ UNCHANGED <<enriched, cache, prices>>
  BY DEF Tick, caches
<1>2. QED BY <1>1 DEF AgeInv, PricesAge, CacheAges, EnrichedAges, AgeOf, Enriched

LEMMA UnchangedKeeps ==
  ASSUME AgeInv, UNCHANGED <<now, enriched, caches>> PROVE AgeInv'
BY DEF AgeInv, PricesAge, CacheAges, EnrichedAges, AgeOf, Enriched, caches

LEMMA NextKeeps == ASSUME AgeInv, [Next]_vars PROVE AgeInv'
<1>1. CASE StartCycle
  BY <1>1, StartKeeps
<1>2. CASE Tick
  BY <1>2, TickKeeps
<1>3. CASE UseCached
  BY <1>3, UseCachedKeeps
<1>4. CASE EnrichMarket
  BY <1>4, EnrichMarketKeeps
<1>5. CASE FetchPage \/ FetchFails \/ DiscoverSeries \/ EndScan
  BY <1>5, UnchangedKeeps DEF FetchPage, FetchFails, DiscoverSeries, EndScan
<1>6. CASE Subscribe \/ HearDelta \/ StopListening \/ SocketFails
  BY <1>6, UnchangedKeeps DEF Subscribe, HearDelta, StopListening, SocketFails
<1>7. CASE SelectMarkets \/ FetchNoaaFails \/ EndEnrichment \/ EndFeed
  BY <1>7, UnchangedKeeps DEF SelectMarkets, FetchNoaaFails, EndEnrichment, EndFeed
<1>8. CASE Stopped \/ UNCHANGED vars
  BY <1>8, UnchangedKeeps DEF Stopped, vars
<1>9. QED
  BY <1>1, <1>2, <1>3, <1>4, <1>5, <1>6, <1>7, <1>8 DEF Next

LEMMA InitKeeps == Init => AgeInv
<1>1. ASSUME Init PROVE AgeInv
  <2>1. enriched = <<>> /\ DOMAIN cache = {} /\ DOMAIN prices = {} /\ now = 0
    BY <1>1 DEF Init, Empty
  <2>2. enriched \in Seq(Enriched) /\ EnrichedAges
    BY <2>1 DEF EnrichedAges
  <2>3. QED BY <2>1, <2>2 DEF AgeInv, PricesAge, CacheAges
<1>2. QED BY <1>1

\* For any two expiries, any markets, symbols and timing of the requests: a price
\* that a valuation is given is not older than both caches allow together.
THEOREM SignalAge == Spec => []SignalAgeBounded
<1>1. AgeInv /\ [Next]_vars => AgeInv'
  BY NextKeeps
<1>2. AgeInv => SignalAgeBounded
  BY DEF AgeInv, EnrichedAges, AgeOf, SignalAgeBounded
<1>3. QED BY InitKeeps, <1>1, <1>2, PTL DEF Spec

(***************************************************************************)
(* Lists of markets: a beginning, and the round robin.                     *)
(***************************************************************************)
\* Take keeps a beginning.
LEMMA TakeProperties ==
  ASSUME NEW S, NEW s \in Seq(S), NEW n \in Nat
  PROVE  /\ Take(s, n) \in Seq(S) /\ Len(s) \in Nat
         /\ Len(Take(s, n)) = Lesser(n, Len(s)) /\ Len(Take(s, n)) \in Nat
         /\ Len(Take(s, n)) <= n /\ Len(Take(s, n)) <= Len(s)
         /\ \A i \in 1..Len(Take(s, n)) : Take(s, n)[i] = s[i]
         /\ IsInjective(s) => IsInjective(Take(s, n))
<1> DEFINE m == Lesser(n, Len(s))
           t == Take(s, n)
<1>1. Len(s) \in Nat /\ DOMAIN s = 1..Len(s) /\ \A i \in 1..Len(s) : s[i] \in S
  BY LenProperties, ElementOfSeq
<1>2. m \in Nat /\ m <= n /\ m <= Len(s)
  BY <1>1 DEF Lesser
<1>3. t = SubSeq(s, 1, m)
  BY DEF Take
<1> HIDE DEF m, t
<1>4. 1 \in Int /\ m \in Int /\ \A i \in 1..m : s[i] \in S
  BY <1>1, <1>2
<1>5. /\ SubSeq(s, 1, m) \in Seq(S)
      /\ Len(SubSeq(s, 1, m)) = IF 1 <= m THEN m - 1 + 1 ELSE 0
      /\ \A i \in 1..(m - 1 + 1) : SubSeq(s, 1, m)[i] = s[1 + i - 1]
  BY <1>4, SubSeqProperties
<1>6. t \in Seq(S) /\ Len(t) = m
  BY <1>2, <1>3, <1>5
<1>7. \A i \in 1..m : t[i] = s[i]
  <2>1. SUFFICES ASSUME NEW i \in 1..m PROVE t[i] = s[i]
    OBVIOUS
  <2>2. i \in 1..(m - 1 + 1) /\ 1 + i - 1 = i
    BY <1>2
  <2>3. QED BY <1>3, <1>5, <2>2
<1>8. DOMAIN t = 1..m
  BY <1>6, LenProperties
<1>9. IsInjective(s) => IsInjective(t)
  BY <1>1, <1>2, <1>7, <1>8 DEF IsInjective
<1>10. QED BY <1>1, <1>2, <1>6, <1>7, <1>9 DEF t, m

\* Every market is of a vertical, and a bucket holds one vertical.
LEMMA VerticalType ==
  ASSUME NEW t \in Tickers
  PROVE  /\ Vertical(t) \in Verticals
         /\ Bucket(t) \in 1..8 /\ Buckets[Bucket(t)] = Vertical(t)
<1>1. Vertical(t) \in Verticals
  <2> DEFINE hits == {i \in DOMAIN Precedence : Precedence[i] \in Mentions[t]}
  <2>1. DOMAIN Precedence = 1..7 /\ \A i \in 1..7 : Precedence[i] \in Verticals
    BY DEF Precedence, Verticals
  <2>2. CASE hits = {}
    BY <2>2 DEF Vertical, VerticalOf, Verticals
  <2>3. CASE hits # {}
    <3>1. hits \in SUBSET Nat
      BY <2>1
    <3>2. Min(hits) \in hits
      BY <2>3, <3>1, LeastIn
    <3>3. Precedence[Min(hits)] \in Verticals
      BY <2>1, <3>2
    <3>4. Vertical(t) = Precedence[Min(hits)]
      BY <2>3 DEF Vertical, VerticalOf
    <3>5. QED BY <3>3, <3>4
  <2>4. QED BY <2>2, <2>3
<1>2. \E i \in DOMAIN Buckets : Buckets[i] = Vertical(t)
  <2>1. DOMAIN Buckets = 1..8
    BY DEF Buckets
  <2>2. /\ Buckets[1] = "Weather" /\ Buckets[2] = "Fed" /\ Buckets[3] = "Esports"
        /\ Buckets[4] = "Finance" /\ Buckets[5] = "Sports" /\ Buckets[6] = "Politics"
        /\ Buckets[7] = "Crypto" /\ Buckets[8] = "Other"
    BY DEF Buckets
  <2>3. 1 \in 1..8 /\ 2 \in 1..8 /\ 3 \in 1..8 /\ 4 \in 1..8 /\ 5 \in 1..8 /\ 6 \in 1..8
        /\ 7 \in 1..8 /\ 8 \in 1..8
    OBVIOUS
  <2>4. QED BY <1>1, <2>1, <2>2, <2>3 DEF Verticals
<1>3. DOMAIN Buckets = 1..8
  BY DEF Buckets
<1>4. QED BY <1>1, <1>2, <1>3 DEF Bucket

\* Of the markets of one vertical, a later one has a later turn.
Earlier(s, i) == {j \in 1..(i - 1) : Vertical(s[j]) = Vertical(s[i])}

LEMMA TurnType ==
  ASSUME NEW s, NEW i \in Nat
  PROVE  IsFiniteSet(Earlier(s, i)) /\ Turn(s, i) = Cardinality(Earlier(s, i)) /\ Turn(s, i) \in Nat
<1>1. IsFiniteSet(1..(i - 1))
  BY FS_Interval
<1>2. Earlier(s, i) \in SUBSET (1..(i - 1))
  BY DEF Earlier
<1>3. IsFiniteSet(Earlier(s, i))
  BY <1>1, <1>2, FS_Subset
<1>4. QED BY <1>3, FS_CardinalityType DEF Turn, Earlier

LEMMA TurnGrows ==
  ASSUME NEW s, NEW i \in Nat \ {0}, NEW j \in Nat, i < j, Vertical(s[i]) = Vertical(s[j])
  PROVE  Turn(s, i) < Turn(s, j)
<1>1. i \notin Earlier(s, i) /\ Earlier(s, i) \cup {i} \in SUBSET Earlier(s, j)
  BY DEF Earlier
<1>2. Cardinality(Earlier(s, i) \cup {i}) = Cardinality(Earlier(s, i)) + 1
  BY <1>1, TurnType, FS_AddElement
<1>3. Cardinality(Earlier(s, i) \cup {i}) <= Cardinality(Earlier(s, j))
  BY <1>1, TurnType, FS_Subset
<1>4. QED BY <1>2, <1>3, TurnType

LEMMA TurnsOrder ==
  ASSUME NEW s \in Seq(Tickers)
  PROVE  StrictlyOrders(TakesTurns(s), DOMAIN s)
<1> DEFINE D == DOMAIN s
           R == TakesTurns(s)
           T(i) == Turn(s, i)
           B(i) == Bucket(s[i])
<1>1. D = 1..Len(s) /\ Len(s) \in Nat /\ \A i \in D : i \in Nat \ {0} /\ s[i] \in Tickers
  BY LenProperties, ElementOfSeq
<1>2. \A i \in D : T(i) \in Nat /\ B(i) \in Nat
  BY <1>1, TurnType, VerticalType
<1>3. \A i, j \in D : <<i, j>> \in R <=> T(i) < T(j) \/ (T(i) = T(j) /\ B(i) < B(j))
  BY DEF TakesTurns
<1>4. \A i, j \in D : T(i) = T(j) /\ B(i) = B(j) => i = j
  <2>1. SUFFICES ASSUME NEW i \in D, NEW j \in D, T(i) = T(j), B(i) = B(j), i # j PROVE FALSE
    OBVIOUS
  <2>2. Vertical(s[i]) = Vertical(s[j])
    BY <1>1, <2>1, VerticalType
  <2>3. i < j \/ j < i
    BY <1>1, <2>1
  <2>4. T(i) < T(j) \/ T(j) < T(i)
    BY <1>1, <2>2, <2>3, TurnGrows
  <2>5. QED BY <1>2, <2>1, <2>4
<1> HIDE DEF D, R, T, B
<1>5. \A i, j \in D : i = j \/ <<i, j>> \in R \/ <<j, i>> \in R
  <2>1. SUFFICES ASSUME NEW i \in D, NEW j \in D, i # j PROVE <<i, j>> \in R \/ <<j, i>> \in R
    OBVIOUS
  <2>2. T(i) \in Nat /\ B(i) \in Nat /\ T(j) \in Nat /\ B(j) \in Nat
    BY <1>2
  <2>3. T(i) # T(j) \/ B(i) # B(j)
    BY <1>4, <2>1
  <2>4. \/ T(i) < T(j) \/ (T(i) = T(j) /\ B(i) < B(j))
        \/ T(j) < T(i) \/ (T(j) = T(i) /\ B(j) < B(i))
    BY <2>2, <2>3
  <2>5. QED BY <1>3, <2>4, Zenon
<1>6. \A i \in D : <<i, i>> \notin R
  BY <1>2, <1>3
<1>7. \A i, j, k \in D : <<i, j>> \in R /\ <<j, k>> \in R => <<i, k>> \in R
  BY <1>2, <1>3
<1>8. StrictlyOrders(R, D)
  BY <1>5, <1>6, <1>7 DEF StrictlyOrders
<1>9. QED BY <1>8 DEF R, D

VerticalsIn(s) == {Vertical(s[i]) : i \in DOMAIN s}

\* There are finitely many verticals.
LEMMA VerticalsFinite ==
  ASSUME NEW s \in Seq(Tickers)
  PROVE  VerticalsIn(s) \in SUBSET Verticals /\ IsFiniteSet(Verticals)
<1>1. \A i \in DOMAIN s : s[i] \in Tickers
  BY LenProperties, ElementOfSeq
<1>2. VerticalsIn(s) \in SUBSET Verticals
  BY <1>1, VerticalType DEF VerticalsIn
<1>3. IsFiniteSet(Verticals)
  <2> DEFINE b == [i \in 1..8 |-> Buckets[i]]
  <2>1. IsFiniteSet(1..8)
    <3>1. 1 \in Int /\ 8 \in Int
      OBVIOUS
    <3>2. QED BY <3>1, FS_Interval
  <2>2. b \in Surjection(1..8, Verticals)
    <3>1. /\ Buckets[1] = "Weather" /\ Buckets[2] = "Fed" /\ Buckets[3] = "Esports"
          /\ Buckets[4] = "Finance" /\ Buckets[5] = "Sports" /\ Buckets[6] = "Politics"
          /\ Buckets[7] = "Crypto" /\ Buckets[8] = "Other"
      BY DEF Buckets
    <3>2. \A i \in 1..8 : i = 1 \/ i = 2 \/ i = 3 \/ i = 4 \/ i = 5 \/ i = 6 \/ i = 7 \/ i = 8
      OBVIOUS
    <3>3. \A i \in 1..8 : Buckets[i] \in Verticals
      BY <3>1, <3>2 DEF Verticals
    <3>4. b \in [1..8 -> Verticals]
      BY <3>3
    <3>5. \A v \in Verticals : \E i \in 1..8 : b[i] = v
      <4>1. 1 \in 1..8 /\ 2 \in 1..8 /\ 3 \in 1..8 /\ 4 \in 1..8 /\ 5 \in 1..8 /\ 6 \in 1..8
            /\ 7 \in 1..8 /\ 8 \in 1..8
        OBVIOUS
      <4>2. QED BY <3>1, <4>1 DEF Verticals
    <3>6. QED BY <3>4, <3>5 DEF Surjection
  <2> HIDE DEF b
  <2>3. QED BY <2>1, <2>2, FS_Surjection
<1>4. QED BY <1>2, <1>3

\* A round robin takes markets of what it is given, once each, and gives every
\* vertical a place as long as there are places.
LEMMA RoundRobinProperties ==
  ASSUME NEW s \in Seq(Tickers), NEW n \in Nat
  PROVE  /\ RoundRobin(s, n) \in Seq(Tickers)
         /\ Len(RoundRobin(s, n)) \in Nat /\ Len(RoundRobin(s, n)) <= n
         /\ \A k \in DOMAIN RoundRobin(s, n) : \E i \in DOMAIN s : RoundRobin(s, n)[k] = s[i]
         /\ IsInjective(s) => IsInjective(RoundRobin(s, n))
         /\ \A v \in VerticalsIn(s) :
              v \in VerticalsIn(RoundRobin(s, n)) \/ Cardinality(VerticalsIn(RoundRobin(s, n))) >= n
<1> DEFINE D == DOMAIN s
           R == TakesTurns(s)
           rank(i) == Cardinality(Below(D, R, i))
           order == Sorted(D, R)
           L == Len(s)
           t == [k \in 1..L |-> s[order[k]]]
           r == Take(t, n)
<1>1. L \in Nat /\ D = 1..L /\ \A i \in D : s[i] \in Tickers /\ i \in Nat \ {0}
  BY LenProperties, ElementOfSeq
<1>2. IsFiniteSet(D) /\ Cardinality(D) = L
  <2>1. 1 \in Int /\ L \in Int
    BY <1>1
  <2>2. IsFiniteSet(1..L) /\ Cardinality(1..L) = IF 1 > L THEN 0 ELSE L - 1 + 1
    BY <2>1, FS_Interval
  <2> HIDE DEF D, L
  <2>3. QED BY <1>1, <2>2
<1>3. StrictlyOrders(R, D)
  BY TurnsOrder
<1>4. RoundRobin(s, n) = r
  BY DEF RoundRobin
<1>5. /\ \A i, j \in D : <<i, j>> \in R =>
           Turn(s, i) < Turn(s, j) \/ (Turn(s, i) = Turn(s, j) /\ Bucket(s[i]) < Bucket(s[j]))
  BY DEF TakesTurns
<1>6. /\ \A i \in D : rank(i) + 1 \in 1..L /\ order[rank(i) + 1] = i
      /\ \A k \in 1..L : order[k] \in D /\ rank(order[k]) = k - 1
  <2> HIDE DEF D, R
  <2>1. QED BY <1>2, <1>3, SortedProperties
<1>7. \A i, j \in D : <<i, j>> \in R => rank(i) \in Nat /\ rank(j) \in Nat /\ rank(i) < rank(j)
  <2> HIDE DEF D, R
  <2>1. QED BY <1>2, <1>3, RankGrows
<1> HIDE DEF D, R, rank, order, L
<1>8. t \in [1..L -> Tickers]
  BY <1>1, <1>6
<1>9. \A k \in 1..L : t[k] = s[order[k]]
  OBVIOUS
<1> HIDE DEF t
<1>10. t \in Seq(Tickers) /\ Len(t) = L /\ DOMAIN t = 1..L
  BY <1>1, <1>8, SeqDef, LenProperties
<1>11. /\ r \in Seq(Tickers) /\ Len(r) = Lesser(n, L) /\ Len(r) \in Nat /\ Len(r) <= n /\ Len(r) <= L
       /\ \A k \in 1..Len(r) : r[k] = t[k]
       /\ IsInjective(t) => IsInjective(r)
  BY <1>10, TakeProperties
<1> HIDE DEF r
<1>12. DOMAIN r = 1..Len(r)
  BY <1>11, LenProperties
<1>13. \A k \in DOMAIN r : \E i \in D : r[k] = s[i]
  <2>1. SUFFICES ASSUME NEW k \in DOMAIN r PROVE \E i \in D : r[k] = s[i]
    OBVIOUS
  <2>2. k \in 1..Len(r) /\ k \in 1..L
    BY <1>1, <1>11, <1>12
  <2>3. QED BY <1>6, <1>9, <1>11, <2>2
<1>14. IsInjective(s) => IsInjective(t)
  <2>1. SUFFICES ASSUME IsInjective(s), NEW k \in 1..L, NEW l \in 1..L, t[k] = t[l] PROVE k = l
    BY <1>10 DEF IsInjective
  <2>2. order[k] = order[l]
    BY <1>6, <1>9, <2>1 DEF IsInjective, D
  <2>3. k - 1 = l - 1
    BY <1>6, <2>2
  <2>4. QED BY <1>1, <2>3
<1>15. ASSUME NEW i \in D
       PROVE  Vertical(s[i]) \in VerticalsIn(r) \/ Cardinality(VerticalsIn(r)) >= n
  <2> DEFINE S == {j \in D : Vertical(s[j]) = Vertical(s[i])}
             f == Min(S)
             a == rank(f)
  <2>1. f \in S /\ \A j \in S : f <= j
    BY <1>1, LeastIn
  <2>2. f \in D /\ Vertical(s[f]) = Vertical(s[i]) /\ f \in Nat
    BY <1>1, <2>1
  <2>3. Turn(s, f) = 0
    <3>1. Earlier(s, f) = {}
      <4>1. SUFFICES ASSUME NEW j \in Earlier(s, f) PROVE FALSE
        OBVIOUS
      <4>2. j \in 1..(f - 1) /\ Vertical(s[j]) = Vertical(s[f])
        BY DEF Earlier
      <4>3. j \in D /\ j < f
        BY <1>1, <2>2, <4>2
      <4>4. j \in S
        BY <2>2, <4>2, <4>3
      <4>5. QED BY <1>1, <2>1, <2>2, <4>3, <4>4
    <3>2. QED BY <2>2, <3>1, TurnType, FS_EmptySet
  <2> HIDE DEF S, f
  <2>4. a + 1 \in 1..L /\ order[a + 1] = f
    BY <1>6, <2>2
  <2>5. rank(order[a + 1]) = a + 1 - 1
    BY <1>6, <2>4
  <2> HIDE DEF a
  <2>6. a \in Int
    <3>1. rank(f) + 1 \in 1..L
      BY <1>6, <2>2
    <3>2. IsFiniteSet(Below(D, R, f))
      <4>1. Below(D, R, f) \in SUBSET D
        BY DEF Below
      <4>2. QED BY <1>2, <4>1, FS_Subset
    <3>3. rank(f) \in Nat
      BY <3>2, FS_CardinalityType DEF rank
    <3>4. QED BY <3>3 DEF a
  <2>7. CASE a + 1 <= n
    <3>1. a + 1 \in 1..Len(r)
      BY <1>1, <1>11, <2>4, <2>6, <2>7 DEF Lesser
    <3>2. r[a + 1] = s[f]
      BY <1>9, <1>11, <2>4, <3>1
    <3>3. QED BY <1>12, <2>2, <3>1, <3>2 DEF VerticalsIn
  <2>8. CASE ~(a + 1 <= n)
    <3>1. Len(r) = n /\ n <= a /\ \A k \in 1..n : k \in 1..L /\ k - 1 < a
      BY <1>1, <1>11, <2>4, <2>6, <2>8 DEF Lesser
    <3>2. \A k \in 1..n : order[k] \in D /\ Turn(s, order[k]) = 0
      <4>1. SUFFICES ASSUME NEW k \in 1..n PROVE order[k] \in D /\ Turn(s, order[k]) = 0
        OBVIOUS
      <4>2. order[k] \in D /\ rank(order[k]) = k - 1 /\ rank(f) = a /\ k - 1 < a
        BY <1>6, <3>1 DEF a
      <4>3. order[k] # f
        BY <4>2, <2>6
      <4>4. <<f, order[k]>> \notin R
        <5>1. SUFFICES ASSUME <<f, order[k]>> \in R PROVE FALSE
          OBVIOUS
        <5>2. rank(f) < rank(order[k])
          BY <1>7, <2>2, <4>2, <5>1
        <5>3. a < k - 1
          BY <4>2, <5>2
        <5>4. QED BY <2>6, <4>2, <5>3
      <4>5. <<order[k], f>> \in R
        BY <1>3, <2>2, <4>2, <4>3, <4>4 DEF StrictlyOrders
      <4>6. Turn(s, order[k]) < 0 \/ Turn(s, order[k]) = 0
        BY <1>5, <2>2, <2>3, <4>2, <4>5
      <4>7. Turn(s, order[k]) \in Nat
        BY <1>1, <4>2, TurnType
      <4>8. QED BY <4>2, <4>6, <4>7
    <3> DEFINE g == [k \in 1..n |-> Vertical(r[k])]
    <3>3. \A k \in 1..n : r[k] = s[order[k]]
      BY <1>9, <1>11, <3>1
    <3>4. g \in [1..n -> VerticalsIn(r)]
      BY <1>12, <3>1 DEF VerticalsIn
    <3>5. \A k, l \in 1..n : g[k] = g[l] => k = l
      <4>1. SUFFICES ASSUME NEW k \in 1..n, NEW l \in 1..n, g[k] = g[l] PROVE k = l
        OBVIOUS
      <4> DEFINE x == order[k]
                 y == order[l]
      <4>2. Vertical(s[x]) = Vertical(s[y]) /\ x \in D /\ y \in D
        BY <3>2, <3>3, <4>1
      <4>3. Turn(s, x) = 0 /\ Turn(s, y) = 0
        BY <3>2
      <4>4. rank(x) = k - 1 /\ rank(y) = l - 1
        BY <1>6, <3>1
      <4> HIDE DEF x, y
      <4>5. x = y
        <5>1. SUFFICES ASSUME x # y PROVE FALSE
          OBVIOUS
        <5>2. x < y \/ y < x
          BY <1>1, <4>2, <5>1
        <5>3. Turn(s, x) < Turn(s, y) \/ Turn(s, y) < Turn(s, x)
          BY <1>1, <4>2, <5>2, TurnGrows
        <5>4. QED BY <4>3, <5>3
      <4>6. k - 1 = l - 1
        BY <4>4, <4>5
      <4>7. QED BY <4>6
    <3>6. DOMAIN g = 1..n
      OBVIOUS
    <3> HIDE DEF g
    <3>7. g \in Injection(1..n, VerticalsIn(r))
      BY <3>4, <3>5, <3>6 DEF Injection, IsInjective
    <3>8. IsFiniteSet(VerticalsIn(r))
      BY <1>11, VerticalsFinite, FS_Subset
    <3>9. Cardinality(1..n) <= Cardinality(VerticalsIn(r))
      BY <3>7, <3>8, FS_Injection
    <3>10. Cardinality(1..n) = n
      <4>1. Cardinality(1..n) = IF 1 > n THEN 0 ELSE n - 1 + 1
        BY FS_Interval
      <4>2. QED BY <4>1
    <3>11. QED BY <3>8, <3>9, <3>10, FS_CardinalityType
  <2>9. QED BY <2>7, <2>8
<1>16. \A v \in VerticalsIn(s) : v \in VerticalsIn(r) \/ Cardinality(VerticalsIn(r)) >= n
  BY <1>15 DEF VerticalsIn, D
<1>17. QED BY <1>4, <1>11, <1>13, <1>14, <1>16 DEF D

(***************************************************************************)
(* The selection.                                                          *)
(***************************************************************************)
LEMMA Limits ==
  /\ ValuationLimit \in Nat /\ EnrichmentLimit \in Nat /\ MaxPerEvent \in Nat
  /\ MaxMarkets \in Nat \ {0} /\ PerFetch \in Nat \ {0} /\ PageSize \in Nat \ {0}
  /\ MaxTier2 \in Nat /\ Window \in Nat \ {0} /\ MaxTime \in Nat
  BY FeedAssumption

\* The markets by volume are those that pass, once each.
LEMMA ByVolumeProperties ==
  ASSUME IsFiniteSet(Passing), NEW s \in ByVolume(Passing)
  PROVE  /\ s \in Seq(Passing) /\ IsInjective(s) /\ Len(s) = Cardinality(Passing)
         /\ \A t \in Passing : \E i \in DOMAIN s : s[i] = t
<1> DEFINE n == Cardinality(Passing)
<1>1. n \in Nat
  BY FS_CardinalityType
<1>2. s \in [1..n -> Passing] /\ \A i, j \in 1..n : i # j => s[i] # s[j]
  BY DEF ByVolume, SetToSeqs
<1>3. Cardinality(1..n) = n /\ IsFiniteSet(1..n)
  <2>1. 1 \in Int /\ n \in Int
    BY <1>1
  <2>2. IsFiniteSet(1..n) /\ Cardinality(1..n) = IF 1 > n THEN 0 ELSE n - 1 + 1
    BY <2>1, FS_Interval
  <2> HIDE DEF n
  <2>3. QED BY <1>1, <2>2
<1>4. s \in Injection(1..n, Passing)
  <2> HIDE DEF n
  <2>1. DOMAIN s = 1..n
    BY <1>2
  <2>2. IsInjective(s)
    BY <1>2, <2>1 DEF IsInjective
  <2>3. QED BY <1>2, <2>2 DEF Injection
<1>5. s \in Surjection(1..n, Passing)
  BY <1>3, <1>4, FS_Injection
<1> HIDE DEF n
<1>6. s \in Seq(Passing) /\ Len(s) = n /\ DOMAIN s = 1..n
  BY <1>1, <1>2, SameLength
<1>7. \A t \in Passing : \E i \in 1..n : s[i] = t
  BY <1>5 DEF Surjection
<1>8. QED BY <1>4, <1>6, <1>7 DEF Injection, n

\* A market that no filter drops passes, and the cap per event leaves it.
LEMMA CertainKept ==
  ASSUME IsFiniteSet(DOMAIN final), DOMAIN final \subseteq Tickers,
         NEW s \in ByVolume(Passing), NEW t \in Certain
  PROVE  \E k \in DOMAIN CappedPerEvent(s) : CappedPerEvent(s)[k] = t
<1>1. t \in DOMAIN final /\ t \in Passing
  BY DEF Certain, Passing, Passes
<1>2. Passing \in SUBSET (DOMAIN final) /\ IsFiniteSet(Passing)
  <2>1. Passing \in SUBSET (DOMAIN final)
    BY DEF Passing
  <2>2. QED BY <2>1, FS_Subset
<1>3. /\ s \in Seq(Passing) /\ IsInjective(s) /\ Len(s) \in Nat /\ DOMAIN s = 1..Len(s)
      /\ \A u \in Passing : \E i \in DOMAIN s : s[i] = u
  BY <1>2, ByVolumeProperties, LenProperties
<1>4. PICK i \in DOMAIN s : s[i] = t
  BY <1>1, <1>3
<1> DEFINE J == {j \in 1..(i - 1) : EventOf[s[j]] = EventOf[s[i]]}
           P == {k \in DOMAIN s : MaxPerEvent = 0 \/
                   Cardinality({j \in 1..(k - 1) : EventOf[s[j]] = EventOf[s[k]]}) < MaxPerEvent}
           E == {u \in DOMAIN final : EventOf[u] = EventOf[t]}
<1>5. i \in Nat /\ i <= Len(s) /\ 1 <= i
  BY <1>3
<1>6. MaxPerEvent = 0 \/ Cardinality(J) < MaxPerEvent
  <2>1. SUFFICES ASSUME MaxPerEvent # 0 PROVE Cardinality(J) < MaxPerEvent
    OBVIOUS
  <2>2. Cardinality(E) <= MaxPerEvent
    BY <2>1 DEF Certain
  <2>3. IsFiniteSet(E) /\ t \in E
    <3>1. E \in SUBSET (DOMAIN final)
      OBVIOUS
    <3>2. QED BY <1>1, <3>1, FS_Subset
  <2>4. IsFiniteSet(E \ {t}) /\ Cardinality(E \ {t}) = Cardinality(E) - 1
    BY <2>3, FS_RemoveElement
  <2>5. IsFiniteSet(J)
    <3>1. J \in SUBSET (1..(i - 1))
      OBVIOUS
    <3>2. IsFiniteSet(1..(i - 1))
      BY <1>5, FS_Interval
    <3>3. QED BY <3>1, <3>2, FS_Subset
  <2> DEFINE f == [j \in J |-> s[j]]
  <2>6. \A j \in J : s[j] \in E \ {t}
    <3>1. SUFFICES ASSUME NEW j \in J PROVE s[j] \in E \ {t}
      OBVIOUS
    <3>2. j \in DOMAIN s /\ j # i /\ EventOf[s[j]] = EventOf[t]
      BY <1>3, <1>4, <1>5
    <3>3. s[j] \in Passing
      BY <1>3, <3>2, ElementOfSeq
    <3>4. s[j] # t
      BY <1>3, <1>4, <3>2 DEF IsInjective
    <3>5. QED BY <1>2, <3>2, <3>3, <3>4
  <2>7. f \in Injection(J, E \ {t})
    <3>1. f \in [J -> E \ {t}]
      BY <2>6
    <3>2. \A a, b \in J : f[a] = f[b] => a = b
      <4>1. \A a \in J : a \in DOMAIN s /\ f[a] = s[a]
        BY <1>3, <1>5
      <4> HIDE DEF J, f
      <4>2. QED BY <1>3, <4>1 DEF IsInjective
    <3>3. DOMAIN f = J
      OBVIOUS
    <3> HIDE DEF f, J, E
    <3>4. QED BY <3>1, <3>2, <3>3 DEF Injection, IsInjective
  <2> HIDE DEF J, E, f
  <2>8. Cardinality(J) <= Cardinality(E \ {t})
    BY <2>4, <2>7, FS_Injection
  <2>9. Cardinality(J) \in Nat /\ Cardinality(E) \in Nat
    BY <2>3, <2>5, FS_CardinalityType
  <2>10. QED BY <2>2, <2>4, <2>8, <2>9, Limits
<1>7. i \in P
  BY <1>6
<1>8. P \in SUBSET (DOMAIN s) /\ CappedPerEvent(s) = At(s, P)
  BY DEF CappedPerEvent
<1> HIDE DEF P
<1>9. \E k \in 1..Len(At(s, P)) : At(s, P)[k] = s[i]
  BY <1>3, <1>7, <1>8, AtProperties
<1>10. DOMAIN At(s, P) = 1..Len(At(s, P))
  BY <1>3, <1>8, AtProperties, LenProperties
<1>11. QED BY <1>4, <1>8, <1>9, <1>10

(***************************************************************************)
(* The scan: what has been seen, and what it has come from.                *)
(***************************************************************************)
AnyMarket == [ticker : Tickers, bid : Quote, ask : Quote, vol : Nat]

Allowlisted == UNION {ToSet(Listing[s]) : s \in ToSet(Allowlist)}

ClockInv ==
  /\ now \in 0..MaxTime /\ mode \in Modes /\ cycle \in 0..MaxCycles[mode]
  /\ step \in {"idle", "scan", "connect", "listen", "select", "enrich", "record"}

SeenInv ==
  /\ IsFiniteSet(DOMAIN seen) /\ DOMAIN seen \subseteq Tickers
  /\ \A t \in DOMAIN seen : seen[t] \in AnyMarket /\ seen[t].ticker = t

\* The pages that are in are of the series at the head of the queue.
PagesInv ==
  /\ tier \in {1, 2} /\ queries \in 0..MaxTier2
  /\ todo \in Seq(Series) /\ out \in Seq(AnyMarket)
  /\ out # <<>> =>
       Querying /\ \A i \in DOMAIN out : out[i].ticker \in ToSet(Listing[Head(todo)])

\* Tier 1 scans allowlisted series only; tier 2 has room for the pages that are in.
QuotaInv ==
  /\ DOMAIN seen \subseteq Allowlisted \/ Cardinality(DOMAIN seen) <= MaxMarkets
  /\ step = "scan" /\ tier = 1 =>
       DOMAIN seen \subseteq Allowlisted /\ \A i \in DOMAIN todo : todo[i] \in ToSet(Allowlist)
  /\ step = "scan" /\ tier = 2 => Cardinality(DOMAIN seen) + Len(out) <= MaxMarkets

ScanInv == ClockInv /\ SeenInv /\ PagesInv /\ QuotaInv

AtMost(m, T) == \A q \in {m.bid, m.ask} : q # Nil => q.at <= T

LEMMA ClockKeeps == ASSUME ClockInv, [Next]_vars PROVE ClockInv'
<1>1. CASE Tick
  BY <1>1, Limits DEF ClockInv, Tick
<1>2. CASE StartCycle
  <2>1. MaxCycles \in [Modes -> Nat]
    BY FeedAssumption, Zenon
  <2>2. cycle' = cycle + 1 /\ cycle < MaxCycles[mode] /\ mode' = mode /\ now' = now /\ step' = "scan"
    BY <1>2 DEF StartCycle
  <2>3. MaxCycles[mode] \in Nat
    BY <2>1 DEF ClockInv
  <2>4. QED BY <2>2, <2>3 DEF ClockInv
<1>3. CASE UNCHANGED <<now, mode, cycle>> /\ step' \in {step, "idle", "scan", "connect", "listen", "select", "enrich", "record"}
  BY <1>3 DEF ClockInv
<1>4. CASE FetchPage \/ FetchFails \/ DiscoverSeries
  BY <1>4, <1>3 DEF FetchPage, FetchFails, DiscoverSeries
<1>5. CASE EndScan \/ Subscribe \/ HearDelta \/ StopListening \/ SocketFails
  BY <1>5, <1>3 DEF EndScan, Subscribe, HearDelta, StopListening, SocketFails
<1>6. CASE SelectMarkets \/ UseCached \/ FetchNoaaFails \/ EnrichMarket \/ EndEnrichment \/ EndFeed
  BY <1>6, <1>3 DEF SelectMarkets, UseCached, FetchNoaaFails, EnrichMarket, EndEnrichment, EndFeed
<1>7. CASE Stopped \/ UNCHANGED vars
  BY <1>7, <1>3 DEF Stopped, vars
<1>8. QED BY <1>1, <1>2, <1>4, <1>5, <1>6, <1>7 DEF Next

\* What is found joins what has been seen, which stays as it is.
LEMMA FoundProperties ==
  ASSUME SeenInv, NEW markets \in Seq(AnyMarket)
  PROVE  /\ DOMAIN Found(markets) = DOMAIN seen \cup {m.ticker : m \in ToSet(markets)}
         /\ IsFiniteSet(DOMAIN Found(markets)) /\ DOMAIN Found(markets) \subseteq Tickers
         /\ Cardinality(DOMAIN Found(markets)) <= Cardinality(DOMAIN seen) + Len(markets)
         /\ \A t \in DOMAIN Found(markets) :
              /\ Found(markets)[t] \in AnyMarket /\ Found(markets)[t].ticker = t
              /\ \/ t \in DOMAIN seen /\ Found(markets)[t] = seen[t]
                 \/ \E i \in DOMAIN markets : Found(markets)[t] = markets[i]
<1> DEFINE names == {m.ticker : m \in ToSet(markets)}
           F == Found(markets)
<1>1. /\ Len(markets) \in Nat /\ DOMAIN markets = 1..Len(markets)
      /\ ToSet(markets) = {markets[i] : i \in DOMAIN markets}
      /\ \A i \in DOMAIN markets : markets[i] \in AnyMarket /\ markets[i] \in ToSet(markets)
  <2>1. /\ Len(markets) \in Nat /\ DOMAIN markets = 1..Len(markets)
        /\ \A i \in DOMAIN markets : markets[i] \in AnyMarket
    BY LenProperties, ElementOfSeq
  <2>2. ToSet(markets) = {markets[i] : i \in DOMAIN markets}
    BY DEF ToSet
  <2>3. QED BY <2>1, <2>2
<1>2. /\ DOMAIN F = DOMAIN seen \cup names
      /\ \A t \in DOMAIN F :
           F[t] = IF t \in DOMAIN seen THEN seen[t] ELSE CHOOSE m \in ToSet(markets) : m.ticker = t
  BY DEF Found
<1>3. \A m \in ToSet(markets) : m \in AnyMarket /\ m.ticker \in Tickers
  BY <1>1 DEF AnyMarket
<1>4. names \subseteq Tickers
  BY <1>3
<1>5. IsFiniteSet(names) /\ Cardinality(names) <= Len(markets)
  <2> DEFINE f == [i \in 1..Len(markets) |-> markets[i].ticker]
  <2>1. \A i \in 1..Len(markets) : markets[i].ticker \in names
    BY <1>1
  <2>2. \A t \in names : \E i \in 1..Len(markets) : markets[i].ticker = t
    BY <1>1
  <2>3. f \in [1..Len(markets) -> names] /\ \A t \in names : \E i \in 1..Len(markets) : f[i] = t
    BY <2>1, <2>2
  <2> HIDE DEF f, names
  <2>4. f \in Surjection(1..Len(markets), names)
    BY <2>3 DEF Surjection
  <2>5. 1 \in Int /\ Len(markets) \in Int
    BY <1>1
  <2>6. IsFiniteSet(1..Len(markets)) /\ Cardinality(1..Len(markets)) = IF 1 > Len(markets) THEN 0 ELSE Len(markets) - 1 + 1
    BY <2>5, FS_Interval
  <2>7. Cardinality(1..Len(markets)) = Len(markets)
    BY <1>1, <2>6
  <2>8. QED BY <2>4, <2>6, <2>7, FS_Surjection
<1>6. IsFiniteSet(DOMAIN F) /\ Cardinality(DOMAIN F) <= Cardinality(DOMAIN seen) + Len(markets)
  <2> HIDE DEF F, names
  <2>1. IsFiniteSet(DOMAIN seen)
    BY DEF SeenInv
  <2>2. /\ IsFiniteSet(DOMAIN seen \cup names)
        /\ Cardinality(DOMAIN seen \cup names) = Cardinality(DOMAIN seen) + Cardinality(names) - Cardinality(DOMAIN seen \cap names)
    BY <1>5, <2>1, FS_Union
  <2>3. DOMAIN seen \cap names \in SUBSET names
    OBVIOUS
  <2>4. IsFiniteSet(DOMAIN seen \cap names)
    BY <1>5, <2>3, FS_Subset
  <2>5. Cardinality(DOMAIN seen) \in Nat /\ Cardinality(names) \in Nat /\ Cardinality(DOMAIN seen \cap names) \in Nat
    BY <1>5, <2>1, <2>4, FS_CardinalityType
  <2>6. Cardinality(DOMAIN seen \cup names) <= Cardinality(DOMAIN seen) + Len(markets)
    BY <1>1, <1>5, <2>2, <2>5
  <2>7. QED BY <1>2, <2>2, <2>6
<1>7. ASSUME NEW t \in DOMAIN F
      PROVE  /\ F[t] \in AnyMarket /\ F[t].ticker = t
             /\ \/ t \in DOMAIN seen /\ F[t] = seen[t]
                \/ \E i \in DOMAIN markets : F[t] = markets[i]
  <2>1. CASE t \in DOMAIN seen
    BY <1>2, <2>1 DEF SeenInv
  <2>2. CASE t \notin DOMAIN seen
    <3>1. \E m \in ToSet(markets) : m.ticker = t
      BY <1>2, <1>7, <2>2
    <3>2. F[t] \in ToSet(markets) /\ F[t].ticker = t
      BY <1>2, <1>7, <2>2, <3>1
    <3>3. QED BY <1>1, <1>3, <3>2
  <2>3. QED BY <2>1, <2>2
<1>8. DOMAIN F \subseteq Tickers
  BY <1>2, <1>4 DEF SeenInv
<1>9. QED BY <1>2, <1>6, <1>7, <1>8

\* A market that is fetched now is as old as now.
LEMMA SeenNow ==
  ASSUME ClockInv, NEW px \in 0..100 \cup {Nil}
  PROVE  Seen(px) \in Quote /\ (Seen(px) # Nil => Seen(px).at <= now)
<1>1. now \in 0..MaxTime /\ now <= now
  BY Limits DEF ClockInv
<1>2. CASE px = Nil
  BY <1>2 DEF Seen, Quote
<1>3. CASE px # Nil
  BY <1>1, <1>3 DEF Seen, Quote
<1>4. QED BY <1>2, <1>3

LEMMA ListingType == ASSUME NEW s \in Series PROVE Listing[s] \in Seq(Tickers)
<1>1. Listing \in [Series -> Seq(Tickers)]
  BY FeedAssumption, Zenon
<1>2. QED BY <1>1

LEMMA ScannedMarket ==
  ASSUME ClockInv, NEW t \in Tickers, NEW book \in Books[t]
  PROVE  /\ ToScannedMarket(t, book) \in AnyMarket /\ ToScannedMarket(t, book).ticker = t
         /\ AtMost(ToScannedMarket(t, book), now)
<1>1. Books[t] \subseteq [bid : 0..100 \cup {Nil}, ask : 0..100 \cup {Nil}]
  <2>1. Books \in [Tickers -> SUBSET [bid : 0..100 \cup {Nil}, ask : 0..100 \cup {Nil}]]
    BY FeedAssumption, Zenon
  <2>2. QED BY <2>1
<1>2. Volume[t] \in Nat
  <2>1. Volume \in [Tickers -> Nat]
    BY FeedAssumption, Zenon
  <2>2. QED BY <2>1
<1>3. book.bid \in 0..100 \cup {Nil} /\ book.ask \in 0..100 \cup {Nil}
  BY <1>1
<1> DEFINE b == Seen(book.bid)
           a == Seen(book.ask)
<1>4. b \in Quote /\ a \in Quote /\ (b # Nil => b.at <= now) /\ (a # Nil => a.at <= now)
  BY <1>3, SeenNow
<1>5. ToScannedMarket(t, book) = [ticker |-> t, bid |-> b, ask |-> a, vol |-> Volume[t]]
  BY DEF ToScannedMarket
<1> HIDE DEF a, b
<1>6. QED BY <1>2, <1>4, <1>5 DEF AnyMarket, AtMost

\* A page joins the markets that are in, as far as the budget goes.
LEMMA PageFetched ==
  ASSUME ScanInv, FetchPage
  PROVE  \E all \in Seq(AnyMarket) :
           /\ \A i \in DOMAIN all : all[i].ticker \in ToSet(Listing[Head(todo)])
           /\ \A i \in DOMAIN all : (i \in DOMAIN out /\ all[i] = out[i]) \/ AtMost(all[i], now)
           /\ tier = 2 => Cardinality(DOMAIN seen) + Len(all) <= MaxMarkets
           /\ \/ out' = all /\ UNCHANGED <<todo, queries, seen>>
              \/ SeriesDone(all)
<1> DEFINE listed == Listing[Head(todo)]
           top == Lesser(Len(out) + Lesser(Budget - Len(out), PageSize), Len(listed))
           page == SubSeq(listed, Len(out) + 1, top)
<1>1. /\ Querying /\ todo # <<>> /\ step = "scan"
      /\ tier = 2 => Cardinality(DOMAIN seen) < MaxMarkets
  <2>1. Querying
    BY DEF FetchPage
  <2>2. IsFiniteSet(DOMAIN seen)
    BY DEF ScanInv, SeenInv
  <2>3. Cardinality(DOMAIN seen) \in Nat /\ MaxMarkets \in Nat
    BY <2>2, FS_CardinalityType, Limits
  <2>4. QED BY <2>1, <2>3 DEF Querying, Full
<1>2. Head(todo) \in Series /\ listed \in Seq(Tickers) /\ Len(listed) \in Nat
      /\ DOMAIN listed = 1..Len(listed)
  <2>1. todo \in Seq(Series)
    BY DEF ScanInv, PagesInv
  <2>2. Head(todo) \in Series
    BY <1>1, <2>1, HeadTailProperties
  <2>3. QED BY <2>2, ListingType, LenProperties
<1>3. out \in Seq(AnyMarket) /\ Len(out) \in Nat /\ DOMAIN out = 1..Len(out)
  BY LenProperties DEF ScanInv, PagesInv
<1>4. Cardinality(DOMAIN seen) \in Nat
  BY FS_CardinalityType DEF ScanInv, SeenInv
<1>5. Budget \in Int /\ (tier = 2 => Budget <= MaxMarkets - Cardinality(DOMAIN seen))
  BY <1>4, Limits DEF Budget, Lesser, ScanInv, PagesInv
<1>6. top \in Int /\ top <= Len(listed) /\ top - Len(out) <= Budget - Len(out)
  BY <1>2, <1>3, <1>5, Limits DEF Lesser
<1> HIDE DEF top, listed
<1>7. \A i \in (Len(out) + 1)..top : listed[i] \in Tickers /\ listed[i] \in ToSet(listed)
  <2>1. \A i \in (Len(out) + 1)..top : i \in DOMAIN listed
    BY <1>2, <1>3, <1>6
  <2>2. \A i \in DOMAIN listed : listed[i] \in Tickers
    BY <1>2, ElementOfSeq
  <2>3. QED BY <2>1, <2>2 DEF ToSet
<1>8. Len(out) + 1 \in Int
  BY <1>3
<1>9. /\ page \in Seq(Tickers) /\ Len(page) \in Nat /\ DOMAIN page = 1..Len(page)
      /\ Len(page) = IF Len(out) + 1 <= top THEN top - Len(out) ELSE 0
      /\ \A i \in 1..Len(page) : page[i] \in ToSet(listed) /\ page[i] \in Tickers /\ page[i] \in ToSet(page)
  <2>1. /\ page \in Seq(Tickers)
        /\ Len(page) = IF Len(out) + 1 <= top THEN top - (Len(out) + 1) + 1 ELSE 0
        /\ \A i \in 1..(top - (Len(out) + 1) + 1) : page[i] = listed[Len(out) + 1 + i - 1]
    BY <1>6, <1>7, <1>8, SubSeqProperties
  <2> HIDE DEF page
  <2>2. Len(page) \in Nat /\ DOMAIN page = 1..Len(page)
    BY <2>1, LenProperties
  <2>3. \A i \in 1..Len(page) : i \in 1..(top - (Len(out) + 1) + 1) /\ Len(out) + i \in (Len(out) + 1)..top
                                /\ Len(out) + 1 + i - 1 = Len(out) + i
    BY <1>3, <1>6, <2>1
  <2>4. \A i \in 1..Len(page) : page[i] = listed[Len(out) + i]
    BY <2>1, <2>3
  <2>5. Len(page) = IF Len(out) + 1 <= top THEN top - Len(out) ELSE 0
    BY <1>3, <1>6, <2>1
  <2>6. QED BY <1>7, <2>1, <2>2, <2>3, <2>4, <2>5 DEF ToSet
<1>10. PICK book :
         LET more == [i \in 1..Len(page) |-> ToScannedMarket(page[i], book[page[i]])]
         IN /\ \A t \in ToSet(page) : book[t] \in Books[t]
            /\ \/ out' = out \o more /\ UNCHANGED <<todo, queries, seen>>
               \/ SeriesDone(out \o more)
  BY DEF FetchPage, page, top, listed
<1> HIDE DEF page
<1> DEFINE more == [i \in 1..Len(page) |-> ToScannedMarket(page[i], book[page[i]])]
           all == out \o more
<1>11. ASSUME NEW i \in 1..Len(page)
       PROVE  /\ more[i] \in AnyMarket /\ more[i].ticker \in ToSet(listed) /\ AtMost(more[i], now)
  <2>1. page[i] \in Tickers /\ book[page[i]] \in Books[page[i]] /\ page[i] \in ToSet(listed)
    BY <1>9, <1>10
  <2>2. more[i] = ToScannedMarket(page[i], book[page[i]])
    OBVIOUS
  <2> HIDE DEF more
  <2>3. ClockInv
    BY DEF ScanInv
  <2>4. QED BY <2>1, <2>2, <2>3, ScannedMarket
<1>12. more \in Seq(AnyMarket) /\ Len(more) = Len(page)
  <2>1. more \in [1..Len(page) -> AnyMarket]
    BY <1>11
  <2> HIDE DEF more
  <2>2. QED BY <1>9, <2>1, SameLength
<1>13. (out' = all /\ UNCHANGED <<todo, queries, seen>>) \/ SeriesDone(all)
  BY <1>10
<1> HIDE DEF more
<1>14. /\ all \in Seq(AnyMarket) /\ Len(all) = Len(out) + Len(page)
       /\ \A i \in 1..(Len(out) + Len(page)) : all[i] = IF i <= Len(out) THEN out[i] ELSE more[i - Len(out)]
  <2>1. out \in Seq(AnyMarket) /\ more \in Seq(AnyMarket)
    BY <1>3, <1>12
  <2>2. /\ all \in Seq(AnyMarket) /\ Len(all) = Len(out) + Len(more)
        /\ \A i \in 1..(Len(out) + Len(more)) : all[i] = IF i <= Len(out) THEN out[i] ELSE more[i - Len(out)]
    BY <2>1, ConcatProperties
  <2> HIDE DEF all
  <2>3. QED BY <1>12, <2>2
<1> HIDE DEF all
<1>15. DOMAIN all = 1..(Len(out) + Len(page))
  BY <1>14, LenProperties
<1>16. tier = 2 => Cardinality(DOMAIN seen) + Len(all) <= MaxMarkets
  <2>1. tier = 2 => Cardinality(DOMAIN seen) + Len(out) <= MaxMarkets
    BY <1>1 DEF ScanInv, QuotaInv
  <2>2. MaxMarkets \in Nat
    BY Limits
  <2>3. QED BY <1>3, <1>4, <1>5, <1>6, <1>9, <1>14, <2>1, <2>2
<1>17. ASSUME NEW i \in DOMAIN all
       PROVE  /\ all[i].ticker \in ToSet(listed)
              /\ (i \in DOMAIN out /\ all[i] = out[i]) \/ AtMost(all[i], now)
  <2>1. i \in 1..(Len(out) + Len(page))
    BY <1>15
  <2>2. CASE i <= Len(out)
    <3>1. i \in DOMAIN out /\ all[i] = out[i]
      BY <1>3, <1>14, <2>1, <2>2
    <3>2. out # <<>>
      BY <1>3, <3>1
    <3>3. out[i].ticker \in ToSet(listed)
      BY <3>1, <3>2 DEF ScanInv, PagesInv, listed
    <3>4. QED BY <3>1, <3>3
  <2>3. CASE i > Len(out)
    <3>1. i - Len(out) \in 1..Len(page) /\ all[i] = more[i - Len(out)]
      BY <1>3, <1>9, <1>14, <2>1, <2>3
    <3>2. QED BY <1>11, <3>1
  <2>4. QED BY <1>3, <2>1, <2>2, <2>3
<1>18. QED
  <2>1. \A i \in DOMAIN all : all[i].ticker \in ToSet(listed)
    BY <1>17
  <2>2. \A i \in DOMAIN all : (i \in DOMAIN out /\ all[i] = out[i]) \/ AtMost(all[i], now)
    BY <1>17
  <2>3. QED BY <1>13, <1>14, <1>16, <2>1, <2>2 DEF listed

\* When a series is done the next one is up, and what it had has been seen.
LEMMA SeriesDoneKeeps ==
  ASSUME ScanInv, Querying, NEW markets \in Seq(AnyMarket), SeriesDone(markets),
         \A i \in DOMAIN markets : markets[i].ticker \in ToSet(Listing[Head(todo)]),
         tier = 2 => Cardinality(DOMAIN seen) + Len(markets) <= MaxMarkets,
         UNCHANGED <<step, tier>>
  PROVE  SeenInv' /\ PagesInv' /\ QuotaInv'
<1>1. /\ seen' = Found(markets) /\ out' = <<>> /\ todo' = Tail(todo)
      /\ queries' = IF tier = 2 THEN queries + 1 ELSE queries
      /\ todo # <<>> /\ step = "scan" /\ (tier = 2 => queries < MaxTier2)
  BY DEF SeriesDone, Querying
<1>2. SeenInv /\ todo \in Seq(Series) /\ tier \in {1, 2} /\ queries \in 0..MaxTier2
  BY DEF ScanInv, PagesInv
<1>3. /\ Head(todo) \in Series /\ todo' \in Seq(Series) /\ Len(todo') = Len(todo) - 1
      /\ \A i \in 1..Len(todo') : todo'[i] = todo[i + 1]
      /\ DOMAIN todo' = 1..Len(todo') /\ DOMAIN todo = 1..Len(todo) /\ Len(todo) \in Nat
      /\ Head(todo) = todo[1] /\ 1 \in DOMAIN todo
  <2>1. /\ Head(todo) \in Series /\ todo' \in Seq(Series) /\ Len(todo') = Len(todo) - 1
        /\ \A i \in 1..Len(todo') : todo'[i] = todo[i + 1]
    BY <1>1, <1>2, HeadTailProperties
  <2>2. DOMAIN todo' = 1..Len(todo') /\ DOMAIN todo = 1..Len(todo) /\ Len(todo) \in Nat
    BY <1>2, <2>1, LenProperties
  <2>3. Len(todo) \in Nat \ {0}
    BY <1>1, <1>2, EmptySeq
  <2>4. QED BY <2>1, <2>2, <2>3
<1>4. SeenInv'
  BY <1>1, <1>2, FoundProperties DEF SeenInv
<1>5. PagesInv'
  BY <1>1, <1>2, <1>3, Limits DEF PagesInv
<1>6. QuotaInv'
  <2>1. step' = "scan" /\ tier' = tier
    BY <1>1
  <2>2. CASE tier = 1
    <3>1. DOMAIN seen \subseteq Allowlisted /\ \A i \in DOMAIN todo : todo[i] \in ToSet(Allowlist)
      BY <1>1, <2>2 DEF ScanInv, QuotaInv
    <3>2. \A i \in DOMAIN markets : markets[i].ticker \in Allowlisted
      BY <1>3, <3>1 DEF Allowlisted
    <3>3. DOMAIN seen' \subseteq Allowlisted
      <4>1. DOMAIN seen' = DOMAIN seen \cup {m.ticker : m \in ToSet(markets)}
        BY <1>1, <1>2, FoundProperties
      <4>2. \A m \in ToSet(markets) : m.ticker \in Allowlisted
        BY <3>2 DEF ToSet
      <4>3. QED BY <3>1, <4>1, <4>2
    <3>4. \A i \in DOMAIN todo' : todo'[i] \in ToSet(Allowlist)
      <4>1. \A i \in DOMAIN todo' : i + 1 \in DOMAIN todo /\ todo'[i] = todo[i + 1]
        BY <1>3
      <4>2. QED BY <3>1, <4>1
    <3>5. QED BY <2>1, <2>2, <3>3, <3>4 DEF QuotaInv, Allowlisted
  <2>3. CASE tier = 2
    <3>1. Cardinality(DOMAIN seen') <= Cardinality(DOMAIN seen) + Len(markets) /\ IsFiniteSet(DOMAIN seen')
      BY <1>1, <1>2, FoundProperties
    <3>2. IsFiniteSet(DOMAIN seen) /\ Len(markets) \in Nat
      BY <1>2, LenProperties DEF SeenInv
    <3>3. Cardinality(DOMAIN seen') \in Nat /\ Cardinality(DOMAIN seen) \in Nat
      BY <3>1, <3>2, FS_CardinalityType
    <3>4. Cardinality(DOMAIN seen) + Len(markets) <= MaxMarkets /\ MaxMarkets \in Nat
      BY <2>3, Limits
    <3>5. Cardinality(DOMAIN seen') <= MaxMarkets
      BY <3>1, <3>2, <3>3, <3>4
    <3>6. Cardinality(DOMAIN seen') + Len(out') <= MaxMarkets
      <4>1. Len(out') = 0
        BY <1>1
      <4>2. QED BY <3>3, <3>5, <4>1
    <3>7. QED BY <2>1, <2>3, <3>5, <3>6 DEF QuotaInv
  <2>4. QED BY <1>2, <2>2, <2>3
<1>7. QED BY <1>4, <1>5, <1>6

LEMMA FetchPageKeeps == ASSUME ScanInv, FetchPage PROVE SeenInv' /\ PagesInv' /\ QuotaInv'
<1>1. PICK all \in Seq(AnyMarket) :
        /\ \A i \in DOMAIN all : all[i].ticker \in ToSet(Listing[Head(todo)])
        /\ tier = 2 => Cardinality(DOMAIN seen) + Len(all) <= MaxMarkets
        /\ \/ out' = all /\ UNCHANGED <<todo, queries, seen>>
           \/ SeriesDone(all)
  BY PageFetched
<1>2. Querying /\ UNCHANGED <<step, tier>>
  BY DEF FetchPage
<1>3. CASE SeriesDone(all)
  BY <1>1, <1>2, <1>3, SeriesDoneKeeps
<1>4. CASE out' = all /\ UNCHANGED <<todo, queries, seen>>
  <2>1. SeenInv'
    BY <1>4 DEF ScanInv, SeenInv
  <2>2. PagesInv'
    <3>1. Querying'
      BY <1>2, <1>4 DEF Querying, Full
    <3>2. QED BY <1>1, <1>2, <1>4, <3>1 DEF ScanInv, PagesInv
  <2>3. QuotaInv'
    BY <1>1, <1>2, <1>4 DEF ScanInv, QuotaInv, Allowlisted
  <2>4. QED BY <2>1, <2>2, <2>3
<1>5. QED BY <1>1, <1>3, <1>4

LEMMA FetchFailsKeeps == ASSUME ScanInv, FetchFails PROVE SeenInv' /\ PagesInv' /\ QuotaInv'
<1>1. Querying /\ SeriesDone(<<>>) /\ UNCHANGED <<step, tier>>
  BY DEF FetchFails
<1>2. <<>> \in Seq(AnyMarket) /\ DOMAIN <<>> = {} /\ Len(<<>>) = 0
  OBVIOUS
<1>3. tier = 2 => Cardinality(DOMAIN seen) + Len(<<>>) <= MaxMarkets
  <2>1. SUFFICES ASSUME tier = 2 PROVE Cardinality(DOMAIN seen) + 0 <= MaxMarkets
    BY <1>2
  <2>2. Cardinality(DOMAIN seen) + Len(out) <= MaxMarkets
    BY <1>1, <2>1 DEF ScanInv, QuotaInv, Querying
  <2>3. IsFiniteSet(DOMAIN seen) /\ out \in Seq(AnyMarket)
    BY DEF ScanInv, SeenInv, PagesInv
  <2>4. Cardinality(DOMAIN seen) \in Nat /\ Len(out) \in Nat /\ MaxMarkets \in Nat
    BY <2>3, FS_CardinalityType, LenProperties, Limits
  <2>5. QED BY <2>2, <2>4
<1>4. \A i \in DOMAIN <<>> : <<>>[i].ticker \in ToSet(Listing[Head(todo)])
  BY <1>2
<1>5. QED BY <1>1, <1>2, <1>3, <1>4, SeriesDoneKeeps

\* Tier 2 starts with less than the quota seen.
LEMMA DiscoverKeeps == ASSUME ScanInv, DiscoverSeries PROVE SeenInv' /\ PagesInv' /\ QuotaInv'
<1>1. /\ step = "scan" /\ todo = <<>> /\ ~Full /\ tier' = 2
      /\ UNCHANGED <<step, queries, out, seen>>
  BY DEF DiscoverSeries
<1>2. PICK answering : todo' = Discovered(answering)
  BY DEF DiscoverSeries
<1>3. todo' \in Seq(Series)
  <2>1. Recency \in Seq(Series)
    BY FeedAssumption
  <2> DEFINE P == {i \in DOMAIN Recency : /\ CategoriesOf[Recency[i]] \cap answering # {}
                                          /\ Recency[i] \notin Blocked \cup ToSet(Allowlist)}
  <2>2. P \in SUBSET (DOMAIN Recency) /\ todo' = At(Recency, P)
    BY <1>2 DEF Discovered
  <2> HIDE DEF P
  <2>3. QED BY <2>1, <2>2, AtProperties
<1>4. out = <<>>
  BY <1>1 DEF ScanInv, PagesInv, Querying
<1>5. IsFiniteSet(DOMAIN seen) /\ Cardinality(DOMAIN seen) \in Nat /\ MaxMarkets \in Nat
  BY FS_CardinalityType, Limits DEF ScanInv, SeenInv
<1>6. Cardinality(DOMAIN seen) < MaxMarkets
  BY <1>1, <1>5 DEF Full
<1>7. SeenInv'
  BY <1>1 DEF ScanInv, SeenInv
<1>8. PagesInv'
  BY <1>1, <1>3, <1>4 DEF ScanInv, PagesInv
<1>9. QuotaInv'
  <2>1. Len(out') = 0
    BY <1>1, <1>4
  <2>2. QED BY <1>1, <1>5, <1>6, <2>1 DEF QuotaInv
<1>10. QED BY <1>7, <1>8, <1>9

LEMMA EndScanKeeps == ASSUME ScanInv, EndScan PROVE SeenInv' /\ PagesInv' /\ QuotaInv'
<1>1. /\ step' \in {"select", "connect"} /\ todo' = <<>> /\ tier' = 1 /\ queries' = 0
      /\ UNCHANGED <<out, seen>>
  BY DEF EndScan
<1>2. out = <<>>
  BY DEF EndScan, ScanInv, PagesInv
<1>3. QED BY <1>1, <1>2, Limits DEF ScanInv, SeenInv, PagesInv, QuotaInv

LEMMA StartScan == ASSUME ScanInv, StartCycle PROVE SeenInv' /\ PagesInv' /\ QuotaInv'
<1>1. /\ todo' = Allowlist /\ tier' = 1 /\ queries' = 0 /\ out' = <<>> /\ DOMAIN seen' = {}
  BY DEF StartCycle, Empty
<1>2. Allowlist \in Seq(Series)
  BY FeedAssumption
<1>3. SeenInv'
  BY <1>1, FS_EmptySet DEF SeenInv
<1>4. PagesInv'
  BY <1>1, <1>2, Limits DEF PagesInv
<1>5. \A i \in DOMAIN Allowlist : Allowlist[i] \in ToSet(Allowlist)
  BY <1>2 DEF ToSet
<1>6. QuotaInv'
  BY <1>1, <1>5 DEF QuotaInv
<1>7. QED BY <1>3, <1>4, <1>6

\* What comes after the scan leaves it as it is.
LEMMA ScanRests ==
  ASSUME ScanInv, UNCHANGED scan, step' = step \/ (step # "scan" /\ step' # "scan")
  PROVE  SeenInv' /\ PagesInv' /\ QuotaInv'
<1>1. UNCHANGED <<todo, tier, queries, out, seen>>
  BY DEF scan
<1>2. SeenInv'
  BY <1>1 DEF ScanInv, SeenInv
<1>3. PagesInv'
  <2>1. Querying => Querying'
    BY <1>1 DEF Querying, Full
  <2>2. QED BY <1>1, <2>1 DEF ScanInv, PagesInv
<1>4. QuotaInv'
  BY <1>1 DEF ScanInv, QuotaInv
<1>5. QED BY <1>2, <1>3, <1>4

LEMMA ScanKeeps == ASSUME ScanInv, [Next]_vars PROVE ScanInv'
<1>1. ClockInv'
  BY ClockKeeps DEF ScanInv
<1>2. SUFFICES SeenInv' /\ PagesInv' /\ QuotaInv'
  BY <1>1 DEF ScanInv
<1>3. CASE StartCycle
  BY <1>3, StartScan
<1>4. CASE FetchPage \/ FetchFails
  BY <1>4, FetchPageKeeps, FetchFailsKeeps
<1>5. CASE DiscoverSeries \/ EndScan
  BY <1>5, DiscoverKeeps, EndScanKeeps
<1>6. CASE Tick \/ HearDelta \/ UseCached \/ EnrichMarket \/ Stopped \/ UNCHANGED vars
  BY <1>6, ScanRests DEF Tick, HearDelta, UseCached, EnrichMarket, Stopped, vars
<1>7. CASE Subscribe \/ StopListening \/ SocketFails
  BY <1>7, ScanRests DEF Subscribe, StopListening, SocketFails, Listening
<1>8. CASE SelectMarkets \/ FetchNoaaFails \/ EndEnrichment \/ EndFeed
  BY <1>8, ScanRests DEF SelectMarkets, FetchNoaaFails, EndEnrichment, EndFeed, Enriching
<1>9. QED BY <1>3, <1>4, <1>5, <1>6, <1>7, <1>8 DEF Next

LEMMA ScanInit == Init => ScanInv
<1>1. SUFFICES ASSUME Init PROVE ScanInv
  OBVIOUS
<1>2. MaxCycles[mode] \in Nat
  <2>1. MaxCycles \in [Modes -> Nat]
    BY FeedAssumption, Zenon
  <2>2. QED BY <1>1, <2>1 DEF Init
<1>3. ClockInv
  BY <1>1, <1>2, Limits DEF Init, ClockInv
<1>4. DOMAIN seen = {}
  BY <1>1 DEF Init, Empty
<1>5. SeenInv
  BY <1>4, FS_EmptySet DEF SeenInv
<1>6. PagesInv
  BY <1>1, Limits DEF Init, PagesInv
<1>7. QuotaInv
  BY <1>1, <1>4 DEF QuotaInv, Init
<1>8. QED BY <1>3, <1>5, <1>6, <1>7 DEF ScanInv

\* The scan is past its quota only by what the allowlisted series hold, whatever the
\* listings, the sizes of pages and budgets and the requests that fail.
THEOREM QuotaHolds == Spec => []ScanBudget
<1>1. ScanInv /\ [Next]_vars => ScanInv'
  BY ScanKeeps
<1>2. ScanInv => ScanBudget
  <2>1. SUFFICES ASSUME ScanInv, Cardinality(DOMAIN seen \ Allowlisted) > 0
                 PROVE  Cardinality(DOMAIN seen) <= MaxMarkets
    BY DEF ScanBudget, Allowlisted
  <2>2. ~(DOMAIN seen \subseteq Allowlisted)
    <3>1. SUFFICES ASSUME DOMAIN seen \subseteq Allowlisted PROVE FALSE
      OBVIOUS
    <3>2. DOMAIN seen \ Allowlisted = {}
      BY <3>1
    <3>3. Cardinality({}) = 0
      BY FS_EmptySet
    <3>4. QED BY <2>1, <3>2, <3>3
  <2>3. QED BY <2>1, <2>2 DEF ScanInv, QuotaInv
<1>3. QED BY ScanInit, <1>1, <1>2, PTL DEF Spec

(***************************************************************************)
(* How old quotes are: none is from later than now, what was heard is from *)
(* after what was seen, and what a snapshot becomes by the deltas is from  *)
(* within the window after any of them.                                    *)
(***************************************************************************)
Delta == [ticker : Tickers, at : Nat, bid : Quote, ask : Quote, traded : Nat]

HeardInv ==
  /\ \A t \in DOMAIN final : final[t] \in AnyMarket /\ final[t].ticker = t
  /\ DOMAIN final = IF step = "scan" THEN {} ELSE DOMAIN seen
  /\ step \in {"scan", "connect"} => deltas = <<>>
  /\ deltas \in Seq(Delta)
  /\ \A i \in DOMAIN deltas :
       /\ deltas[i].ticker \in DOMAIN seen /\ deltas[i].at <= now
       /\ AtMost(deltas[i], deltas[i].at)

SeenAges ==
  /\ \A i \in DOMAIN out : AtMost(out[i], now)
  /\ \A t \in DOMAIN seen : AtMost(seen[t], now)
  /\ \A t \in DOMAIN seen : \A i \in DOMAIN deltas : AtMost(seen[t], deltas[i].at)

FinalAges ==
  /\ \A t \in DOMAIN final : AtMost(final[t], now)
  /\ \A t \in DOMAIN final : \A i \in DOMAIN deltas : AtMost(final[t], deltas[i].at + Window)

WindowInv ==
  step = "listen" =>
    /\ deadline \in Nat /\ now <= deadline /\ deadline <= now + Window
    /\ \A i \in DOMAIN deltas : deadline <= deltas[i].at + Window

HeardAges == HeardInv /\ SeenAges /\ FinalAges /\ WindowInv

LEMMA AtMostLater ==
  ASSUME NEW m, m.bid \in Quote, m.ask \in Quote, NEW S \in Int, NEW T \in Int, S <= T, AtMost(m, S)
  PROVE  AtMost(m, T)
<1>1. \A q \in Quote : q # Nil => q.at \in Int
  BY Limits DEF Quote
<1>2. QED BY <1>1 DEF AtMost

LEMMA Times == ASSUME ClockInv PROVE now \in Nat /\ Window \in Nat
BY Limits DEF ClockInv

LEMMA DeltasHeard ==
  ASSUME HeardInv, NEW i \in DOMAIN deltas
  PROVE  /\ deltas[i] \in Delta /\ deltas[i].at \in Nat /\ deltas[i].at <= now
         /\ deltas[i].bid \in Quote /\ deltas[i].ask \in Quote /\ deltas[i].traded \in Nat
         /\ AtMost(deltas[i], deltas[i].at)
<1>1. deltas[i] \in Delta
  BY LenProperties, ElementOfSeq DEF HeardInv
<1>2. QED BY <1>1 DEF HeardInv, Delta

\* What the deltas make of a market is from when it was seen or they were heard.
LEMMA AppliedProperties ==
  ASSUME SeenInv, HeardInv, NEW t \in DOMAIN seen
  PROVE  /\ Applied(t) \in AnyMarket /\ Applied(t).ticker = t
         /\ \A T : AtMost(seen[t], T) /\ (\A k \in DOMAIN deltas : AtMost(deltas[k], T))
                     => AtMost(Applied(t), T)
<1> DEFINE about == {i \in DOMAIN deltas : deltas[i].ticker = t}
           bids  == {i \in about : deltas[i].bid # Nil}
           asks  == {i \in about : deltas[i].ask # Nil}
           n == Len(deltas)
           trades == [i \in 1..n |-> IF i \in about THEN deltas[i].traded ELSE 0]
           b == IF bids = {} THEN seen[t].bid ELSE deltas[Max(bids)].bid
           a == IF asks = {} THEN seen[t].ask ELSE deltas[Max(asks)].ask
<1>1. n \in Nat /\ DOMAIN deltas = 1..n
  BY LenProperties DEF HeardInv
<1>2. Applied(t) = [ticker |-> t, bid |-> b, ask |-> a, vol |-> seen[t].vol + Total(trades)]
  BY <1>1 DEF Applied
<1>3. seen[t] \in AnyMarket /\ t \in Tickers
  BY DEF SeenInv
<1>4. Total(trades) \in Nat
  <2>1. \A i \in 1..n : deltas[i].traded \in Nat
    BY <1>1, DeltasHeard
  <2>2. trades \in [1..n -> Nat]
    BY <2>1
  <2> HIDE DEF trades, n
  <2>3. trades \in Seq(Nat)
    BY <1>1, <2>2, SameLength
  <2>4. QED BY <2>3, TotalType
<1>5. bids \in SUBSET (1..n) /\ asks \in SUBSET (1..n)
  BY <1>1
<1> HIDE DEF n, trades
<1>6. b = seen[t].bid \/ \E k \in DOMAIN deltas : b = deltas[k].bid
  <2>1. CASE bids # {}
    <3>1. Max(bids) \in bids
      <4> HIDE DEF bids
      <4>1. QED BY <1>1, <1>5, <2>1, GreatestIn
    <3>2. QED BY <2>1, <3>1
  <2>2. QED BY <2>1
<1>7. a = seen[t].ask \/ \E k \in DOMAIN deltas : a = deltas[k].ask
  <2>1. CASE asks # {}
    <3>1. Max(asks) \in asks
      <4> HIDE DEF asks
      <4>1. QED BY <1>1, <1>5, <2>1, GreatestIn
    <3>2. QED BY <2>1, <3>1
  <2>2. QED BY <2>1
<1> HIDE DEF a, b
<1>8. a \in Quote /\ b \in Quote
  <2>1. \A k \in DOMAIN deltas : deltas[k].bid \in Quote /\ deltas[k].ask \in Quote
    BY DeltasHeard
  <2>2. QED BY <1>3, <1>6, <1>7, <2>1 DEF AnyMarket
<1>9. Applied(t) \in AnyMarket /\ Applied(t).ticker = t /\ Applied(t).bid = b /\ Applied(t).ask = a
  BY <1>2, <1>3, <1>4, <1>8 DEF AnyMarket
<1>10. ASSUME NEW T, AtMost(seen[t], T), \A k \in DOMAIN deltas : AtMost(deltas[k], T)
       PROVE  AtMost(Applied(t), T)
  BY <1>6, <1>7, <1>9, <1>10 DEF AtMost
<1>11. QED BY <1>9, <1>10

\* A page is from now, and there is no delta yet.
LEMMA PageAges ==
  ASSUME ScanInv, HeardAges, NEW markets \in Seq(AnyMarket),
         \A i \in DOMAIN markets : AtMost(markets[i], now),
         SeriesDone(markets), step = "scan", UNCHANGED <<now, step, heard>>
  PROVE  HeardAges'
<1>1. /\ seen' = Found(markets) /\ out' = <<>>
      /\ UNCHANGED <<now, step, deadline, deltas, final>>
  BY DEF SeriesDone, heard
<1>2. deltas = <<>> /\ DOMAIN final = {}
  BY DEF HeardAges, HeardInv
<1>3. HeardInv'
  BY <1>1, <1>2 DEF HeardAges, HeardInv
<1>4. \A t \in DOMAIN seen' : AtMost(seen'[t], now)
  <2>1. SUFFICES ASSUME NEW t \in DOMAIN seen' PROVE AtMost(seen'[t], now)
    OBVIOUS
  <2>2. \/ t \in DOMAIN seen /\ seen'[t] = seen[t]
        \/ \E i \in DOMAIN markets : seen'[t] = markets[i]
    BY <1>1, FoundProperties DEF ScanInv
  <2>3. QED BY <2>2 DEF HeardAges, SeenAges
<1>5. SeenAges'
  BY <1>1, <1>2, <1>4 DEF SeenAges, AtMost
<1>6. FinalAges' /\ WindowInv'
  BY <1>1, <1>2 DEF FinalAges, WindowInv, HeardAges
<1>7. QED BY <1>3, <1>5, <1>6 DEF HeardAges

LEMMA FetchAges == ASSUME ScanInv, HeardAges, FetchPage \/ FetchFails PROVE HeardAges'
<1>1. CASE FetchPage
  <2>1. PICK all \in Seq(AnyMarket) :
          /\ \A i \in DOMAIN all : (i \in DOMAIN out /\ all[i] = out[i]) \/ AtMost(all[i], now)
          /\ \/ out' = all /\ UNCHANGED <<todo, queries, seen>>
             \/ SeriesDone(all)
    BY <1>1, PageFetched
  <2>2. UNCHANGED <<now, step, heard>> /\ step = "scan"
    BY <1>1 DEF FetchPage, Querying
  <2>3. \A i \in DOMAIN all : AtMost(all[i], now)
    BY <2>1 DEF HeardAges, SeenAges
  <2>4. CASE SeriesDone(all)
    BY <2>2, <2>3, <2>4, PageAges
  <2>5. CASE out' = all /\ UNCHANGED <<todo, queries, seen>>
    <3>1. UNCHANGED <<now, step, deadline, deltas, final, seen>> /\ out' = all
      BY <2>2, <2>5 DEF heard
    <3>2. QED BY <2>3, <3>1 DEF HeardAges, HeardInv, SeenAges, FinalAges, WindowInv, AtMost
  <2>6. QED BY <2>1, <2>4, <2>5
<1>2. CASE FetchFails
  <2>1. UNCHANGED <<now, step, heard>> /\ step = "scan" /\ SeriesDone(<<>>)
    BY <1>2 DEF FetchFails, Querying
  <2>2. <<>> \in Seq(AnyMarket) /\ \A i \in DOMAIN <<>> : AtMost(<<>>[i], now)
    OBVIOUS
  <2>3. QED BY <2>1, <2>2, PageAges
<1>3. QED BY <1>1, <1>2

LEMMA StartAges == ASSUME ScanInv, HeardAges, StartCycle PROVE HeardAges'
<1>1. /\ step' = "scan" /\ deltas' = <<>> /\ out' = <<>> /\ DOMAIN seen' = {} /\ DOMAIN final' = {}
  BY DEF StartCycle, Empty
<1>2. HeardInv'
  BY <1>1 DEF HeardInv
<1>3. SeenAges' /\ FinalAges' /\ WindowInv'
  BY <1>1 DEF SeenAges, FinalAges, WindowInv
<1>4. QED BY <1>2, <1>3 DEF HeardAges

LEMMA TickAges == ASSUME ScanInv, HeardAges, Tick PROVE HeardAges'
<1>1. /\ now' = now + 1 /\ now \in Nat
      /\ UNCHANGED <<step, out, seen, deadline, deltas, final>>
      /\ step = "listen" => now < deadline
  BY Times DEF Tick, ScanInv, scan, heard, Listening
<1>2. \A m \in AnyMarket : AtMost(m, now) => AtMost(m, now')
  <2>1. now \in Int /\ now' \in Int /\ now <= now'
    BY <1>1
  <2>2. \A m \in AnyMarket : m.bid \in Quote /\ m.ask \in Quote
    BY DEF AnyMarket
  <2>3. QED BY <2>1, <2>2, AtMostLater
<1>3. HeardInv'
  <2>1. \A i \in DOMAIN deltas : deltas[i].at <= now'
    BY <1>1, DeltasHeard DEF HeardAges
  <2>2. QED BY <1>1, <2>1 DEF HeardAges, HeardInv, AtMost
<1>4. SeenAges'
  <2>1. \A i \in DOMAIN out : out[i] \in AnyMarket
    BY LenProperties, ElementOfSeq DEF ScanInv, PagesInv
  <2>2. \A t \in DOMAIN seen : seen[t] \in AnyMarket
    BY DEF ScanInv, SeenInv
  <2>3. /\ \A i \in DOMAIN out : AtMost(out[i], now')
        /\ \A t \in DOMAIN seen : AtMost(seen[t], now')
    BY <1>2, <2>1, <2>2 DEF HeardAges, SeenAges
  <2>4. QED BY <1>1, <2>3 DEF HeardAges, SeenAges, AtMost
<1>5. FinalAges'
  <2>1. \A t \in DOMAIN final : final[t] \in AnyMarket
    BY DEF HeardAges, HeardInv
  <2>2. \A t \in DOMAIN final : AtMost(final[t], now')
    BY <1>2, <2>1 DEF HeardAges, FinalAges
  <2>3. QED BY <1>1, <2>2 DEF HeardAges, FinalAges, AtMost
<1>6. WindowInv'
  BY <1>1, Limits DEF HeardAges, WindowInv
<1>7. QED BY <1>3, <1>4, <1>5, <1>6 DEF HeardAges

LEMMA EndScanAges == ASSUME ScanInv, HeardAges, EndScan PROVE HeardAges'
<1>1. /\ final' = seen /\ step = "scan" /\ step' \in {"select", "connect"}
      /\ UNCHANGED <<now, out, seen, deadline, deltas>>
  BY DEF EndScan
<1>2. deltas = <<>>
  BY <1>1 DEF HeardAges, HeardInv
<1>3. HeardInv'
  BY <1>1, <1>2 DEF HeardAges, HeardInv, ScanInv, SeenInv
<1>4. SeenAges' /\ FinalAges' /\ WindowInv'
  BY <1>1, <1>2 DEF HeardAges, SeenAges, FinalAges, WindowInv, AtMost
<1>5. QED BY <1>3, <1>4 DEF HeardAges

LEMMA SubscribeAges == ASSUME ScanInv, HeardAges, Subscribe PROVE HeardAges'
<1>1. /\ step = "connect" /\ step' = "listen" /\ deadline' = now + Window
      /\ UNCHANGED <<now, out, seen, deltas, final>>
  BY DEF Subscribe, scan
<1>2. deltas = <<>> /\ now \in Nat /\ Window \in Nat
  BY <1>1, Times DEF HeardAges, HeardInv, ScanInv
<1>3. HeardInv'
  BY <1>1, <1>2 DEF HeardAges, HeardInv
<1>4. SeenAges' /\ FinalAges'
  BY <1>1, <1>2 DEF HeardAges, SeenAges, FinalAges, AtMost
<1>5. WindowInv'
  BY <1>1, <1>2 DEF WindowInv
<1>6. QED BY <1>3, <1>4, <1>5 DEF HeardAges

\* A delta comes after all that was seen, and before the deadline.
LEMMA HearAges == ASSUME ScanInv, HeardAges, HearDelta PROVE HeardAges'
<1>0. PICK t \in DOMAIN seen : \E said \in Messages[t] :
        deltas' = Append(deltas, [ticker |-> t, at |-> now, bid |-> Seen(said.bid),
                                  ask |-> Seen(said.ask), traded |-> said.traded])
  BY DEF HearDelta
<1>1. PICK said \in Messages[t] :
        deltas' = Append(deltas, [ticker |-> t, at |-> now, bid |-> Seen(said.bid),
                                  ask |-> Seen(said.ask), traded |-> said.traded])
  BY <1>0
<1>2. /\ step = "listen" /\ now < deadline
      /\ UNCHANGED <<now, step, out, seen, deadline, final>>
  BY DEF HearDelta, Listening, scan
<1> DEFINE d == [ticker |-> t, at |-> now, bid |-> Seen(said.bid),
                 ask |-> Seen(said.ask), traded |-> said.traded]
<1>3. t \in Tickers /\ now \in Nat /\ Window \in Nat
  BY Times DEF ScanInv, SeenInv
<1>4. said \in [bid : 0..100 \cup {Nil}, ask : 0..100 \cup {Nil}, traded : Nat]
  <2>1. Messages \in [Tickers -> SUBSET [bid : 0..100 \cup {Nil}, ask : 0..100 \cup {Nil}, traded : Nat]]
    BY FeedAssumption, Zenon
  <2>2. QED BY <1>3, <2>1
<1>5. /\ Seen(said.bid) \in Quote /\ (Seen(said.bid) # Nil => Seen(said.bid).at <= now)
      /\ Seen(said.ask) \in Quote /\ (Seen(said.ask) # Nil => Seen(said.ask).at <= now)
  BY <1>4, SeenNow DEF ScanInv
<1>6. d \in Delta /\ d.at = now /\ d.ticker = t /\ AtMost(d, d.at)
  BY <1>3, <1>4, <1>5 DEF Delta, AtMost
<1>7. deltas' = Append(deltas, d)
  BY <1>1
<1> HIDE DEF d
<1>8. /\ deltas \in Seq(Delta) /\ Len(deltas) \in Nat /\ DOMAIN deltas = 1..Len(deltas)
  BY LenProperties DEF HeardAges, HeardInv
<1>9. /\ deltas' \in Seq(Delta) /\ Len(deltas') = Len(deltas) + 1
      /\ \A i \in 1..Len(deltas) : deltas'[i] = deltas[i]
      /\ deltas'[Len(deltas) + 1] = d
  BY <1>6, <1>7, <1>8, AppendProperties
<1>10. \A i \in DOMAIN deltas' : (i \in DOMAIN deltas /\ deltas'[i] = deltas[i]) \/ deltas'[i] = d
  <2>1. DOMAIN deltas' = 1..(Len(deltas) + 1)
    BY <1>9, LenProperties
  <2>2. QED BY <1>8, <1>9, <2>1
<1>11. HeardInv'
  <2>1. \A i \in DOMAIN deltas' :
          deltas'[i].ticker \in DOMAIN seen /\ deltas'[i].at <= now /\ AtMost(deltas'[i], deltas'[i].at)
    BY <1>3, <1>6, <1>10 DEF HeardAges, HeardInv
  <2>2. QED BY <1>2, <1>9, <2>1 DEF HeardAges, HeardInv
<1>12. SeenAges'
  <2>1. \A u \in DOMAIN seen : \A i \in DOMAIN deltas' : AtMost(seen[u], deltas'[i].at)
    BY <1>6, <1>10 DEF HeardAges, SeenAges
  <2>2. QED BY <1>2, <2>1 DEF HeardAges, SeenAges
<1>13. FinalAges'
  <2>1. \A u \in DOMAIN final : AtMost(final[u], d.at + Window)
    <3>1. SUFFICES ASSUME NEW u \in DOMAIN final PROVE AtMost(final[u], d.at + Window)
      OBVIOUS
    <3>2. final[u].bid \in Quote /\ final[u].ask \in Quote /\ AtMost(final[u], now)
      BY DEF HeardAges, HeardInv, FinalAges, AnyMarket
    <3>3. now \in Int /\ d.at + Window \in Int /\ now <= d.at + Window
      BY <1>3, <1>6
    <3>4. QED BY <3>2, <3>3, AtMostLater
  <2>2. \A u \in DOMAIN final : \A i \in DOMAIN deltas' : AtMost(final[u], deltas'[i].at + Window)
    BY <1>10, <2>1 DEF HeardAges, FinalAges
  <2>3. QED BY <1>2, <2>2 DEF HeardAges, FinalAges
<1>14. WindowInv'
  <2>1. /\ deadline \in Nat /\ deadline <= now + Window
        /\ \A i \in DOMAIN deltas : deadline <= deltas[i].at + Window
    BY <1>2 DEF HeardAges, WindowInv
  <2>2. deadline <= d.at + Window
    BY <1>6, <2>1
  <2>3. \A i \in DOMAIN deltas' : deadline <= deltas'[i].at + Window
    BY <1>10, <2>1, <2>2
  <2>4. now <= deadline
    BY <1>2, <1>3, <2>1
  <2>5. QED BY <1>2, <2>1, <2>3, <2>4 DEF WindowInv
<1>15. QED BY <1>11, <1>12, <1>13, <1>14 DEF HeardAges

\* What the deltas say is from within the window.
LEMMA ListenedAges == ASSUME ScanInv, HeardAges, StopListening PROVE HeardAges'
<1>1. /\ step = "listen" /\ step' = "select"
      /\ final' = [t \in DOMAIN seen |-> Applied(t)]
      /\ UNCHANGED <<now, out, seen, deltas>>
  BY DEF StopListening, scan
<1>2. DOMAIN final' = DOMAIN seen /\ \A t \in DOMAIN seen : final'[t] = Applied(t)
  BY <1>1
<1>3. /\ now \in Nat /\ Window \in Nat /\ deadline \in Nat /\ now <= deadline
      /\ \A i \in DOMAIN deltas : deadline <= deltas[i].at + Window
  BY <1>1, Times DEF HeardAges, WindowInv, ScanInv
<1>4. HeardInv'
  <2>1. \A t \in DOMAIN seen : Applied(t) \in AnyMarket /\ Applied(t).ticker = t
    BY AppliedProperties DEF HeardAges, ScanInv
  <2>2. QED BY <1>1, <1>2, <2>1 DEF HeardAges, HeardInv
<1>5. \A t \in DOMAIN seen : AtMost(seen[t], now) /\ seen[t].bid \in Quote /\ seen[t].ask \in Quote
  BY DEF HeardAges, SeenAges, ScanInv, SeenInv, AnyMarket
<1>6. \A t \in DOMAIN seen : AtMost(Applied(t), now)
  <2>1. ASSUME NEW k \in DOMAIN deltas PROVE AtMost(deltas[k], now)
    <3>1. /\ deltas[k].at \in Int /\ now \in Int /\ deltas[k].at <= now
          /\ deltas[k].bid \in Quote /\ deltas[k].ask \in Quote /\ AtMost(deltas[k], deltas[k].at)
      BY <1>3, DeltasHeard DEF HeardAges
    <3>2. QED BY <3>1, AtMostLater
  <2>2. QED BY <1>5, <2>1, AppliedProperties DEF HeardAges, ScanInv
<1>7. \A t \in DOMAIN seen : \A i \in DOMAIN deltas : AtMost(Applied(t), deltas[i].at + Window)
  <2>1. SUFFICES ASSUME NEW t \in DOMAIN seen, NEW i \in DOMAIN deltas
                 PROVE  AtMost(Applied(t), deltas[i].at + Window)
    OBVIOUS
  <2>2. deltas[i].at \in Nat /\ deltas[i].at <= now
    BY DeltasHeard DEF HeardAges
  <2>3. AtMost(seen[t], deltas[i].at + Window)
    <3>1. AtMost(seen[t], deltas[i].at)
      BY DEF HeardAges, SeenAges
    <3>2. deltas[i].at \in Int /\ deltas[i].at + Window \in Int /\ deltas[i].at <= deltas[i].at + Window
      BY <1>3, <2>2
    <3>3. QED BY <1>5, <3>1, <3>2, AtMostLater
  <2>4. ASSUME NEW k \in DOMAIN deltas PROVE AtMost(deltas[k], deltas[i].at + Window)
    <3>1. /\ deltas[k].at \in Nat /\ deltas[k].at <= now
          /\ deltas[k].bid \in Quote /\ deltas[k].ask \in Quote /\ AtMost(deltas[k], deltas[k].at)
      BY DeltasHeard DEF HeardAges
    <3>2. /\ deltas[k].at \in Int /\ deltas[i].at + Window \in Int
          /\ deltas[k].at <= deltas[i].at + Window
      <4>1. deadline <= deltas[i].at + Window
        BY <1>3
      <4>2. QED BY <1>3, <2>2, <3>1, <4>1
    <3>3. QED BY <3>1, <3>2, AtMostLater
  <2>5. QED BY <2>3, <2>4, AppliedProperties DEF HeardAges, ScanInv
<1>8. SeenAges'
  BY <1>1 DEF HeardAges, SeenAges, AtMost
<1>9. FinalAges'
  BY <1>1, <1>2, <1>6, <1>7 DEF FinalAges
<1>10. WindowInv'
  BY <1>1 DEF WindowInv
<1>11. QED BY <1>4, <1>8, <1>9, <1>10 DEF HeardAges

LEMMA SocketAges == ASSUME ScanInv, HeardAges, SocketFails PROVE HeardAges'
<1>1. /\ step \in {"connect", "listen"} /\ step' = "select" /\ deltas' = <<>>
      /\ UNCHANGED <<now, out, seen, final>>
  BY DEF SocketFails, scan, Listening
<1>2. HeardInv'
  BY <1>1 DEF HeardAges, HeardInv
<1>3. SeenAges' /\ FinalAges' /\ WindowInv'
  BY <1>1 DEF HeardAges, SeenAges, FinalAges, WindowInv, AtMost
<1>4. QED BY <1>2, <1>3 DEF HeardAges

\* What comes after the listening, and before the next scan, leaves this as it is.
LEMMA AgesRest ==
  ASSUME HeardAges, UNCHANGED <<now, out, seen, heard>>,
         step' = step \/ (step # "scan" /\ step' \notin {"scan", "connect", "listen"})
  PROVE  HeardAges'
<1>1. UNCHANGED <<now, out, seen, deadline, deltas, final>>
  BY DEF heard
<1>2. HeardInv'
  BY <1>1 DEF HeardAges, HeardInv, AtMost
<1>3. SeenAges' /\ FinalAges' /\ WindowInv'
  BY <1>1 DEF HeardAges, SeenAges, FinalAges, WindowInv, AtMost
<1>4. QED BY <1>2, <1>3 DEF HeardAges

LEMMA HeardKeeps == ASSUME ScanInv, HeardAges, [Next]_vars PROVE HeardAges'
<1>1. CASE StartCycle \/ Tick \/ EndScan
  BY <1>1, StartAges, TickAges, EndScanAges
<1>2. CASE FetchPage \/ FetchFails
  BY <1>2, FetchAges
<1>3. CASE Subscribe \/ HearDelta
  BY <1>3, SubscribeAges, HearAges
<1>4. CASE StopListening \/ SocketFails
  BY <1>4, ListenedAges, SocketAges
<1>5. CASE DiscoverSeries \/ Stopped \/ UNCHANGED vars
  BY <1>5, AgesRest DEF DiscoverSeries, Stopped, vars, scan
<1>6. CASE SelectMarkets \/ FetchNoaaFails \/ EndEnrichment \/ EndFeed
  BY <1>6, AgesRest DEF SelectMarkets, FetchNoaaFails, EndEnrichment, EndFeed, Enriching, scan
<1>7. CASE UseCached \/ EnrichMarket
  BY <1>7, AgesRest DEF UseCached, EnrichMarket, scan
<1>8. QED BY <1>1, <1>2, <1>3, <1>4, <1>5, <1>6, <1>7 DEF Next

LEMMA HeardInit == Init => HeardAges
<1>1. SUFFICES ASSUME Init PROVE HeardAges
  OBVIOUS
<1>2. /\ step = "idle" /\ out = <<>> /\ deltas = <<>> /\ DOMAIN seen = {} /\ DOMAIN final = {}
  BY <1>1 DEF Init, Empty
<1>3. HeardInv
  BY <1>2 DEF HeardInv
<1>4. SeenAges /\ FinalAges /\ WindowInv
  BY <1>2 DEF SeenAges, FinalAges, WindowInv
<1>5. QED BY <1>3, <1>4 DEF HeardAges

(***************************************************************************)
(* The record of the scan.                                                 *)
(***************************************************************************)
LineBounded(r) ==
  \A q \in {r.bid, r.ask} \ {Nil} : q.at <= IF r.source = "snapshot" THEN r.ts ELSE r.ts + Window

Lines == {SnapshotEvent(t) : t \in DOMAIN seen} \cup {DeltaEvent(deltas[i]) : i \in DOMAIN deltas}

LEMMA SomeOrder ==
  ASSUME NEW S, IsFiniteSet(S)
  PROVE  Cardinality(S) \in Nat /\ SetToSeq(S) \in [1..Cardinality(S) -> S]
<1>1. Cardinality(S) \in Nat /\ ExistsBijection(1..Cardinality(S), S)
  BY FS_CardinalityType
<1>2. \E f \in [1..Cardinality(S) -> S] : IsInjective(f)
  BY <1>1 DEF ExistsBijection, Bijection, Injection
<1>3. QED BY <1>1, <1>2 DEF SetToSeq

LEMMA LinesBounded ==
  ASSUME ScanInv, HeardAges, step # "scan", NEW r \in Lines
  PROVE  LineBounded(r)
<1>1. CASE r \in {SnapshotEvent(t) : t \in DOMAIN seen}
  <2>1. PICK t \in DOMAIN seen : r = SnapshotEvent(t)
    BY <1>1
  <2>2. r.source = "snapshot" /\ r.ts = now /\ r.bid = seen[t].bid /\ r.ask = seen[t].ask
    BY <2>1 DEF SnapshotEvent
  <2>3. AtMost(seen[t], now)
    BY DEF HeardAges, SeenAges
  <2>4. QED BY <2>2, <2>3 DEF AtMost, LineBounded
<1>2. CASE r \in {DeltaEvent(deltas[i]) : i \in DOMAIN deltas}
  <2>1. PICK i \in DOMAIN deltas : r = DeltaEvent(deltas[i])
    BY <1>2
  <2> DEFINE d == deltas[i]
  <2>2. /\ r.source = "ws_delta" /\ r.ts = d.at
        /\ r.bid = IF d.bid # Nil THEN d.bid ELSE final[d.ticker].bid
        /\ r.ask = IF d.ask # Nil THEN d.ask ELSE final[d.ticker].ask
    BY <2>1 DEF DeltaEvent
  <2>3. /\ d.at \in Nat /\ d.bid \in Quote /\ d.ask \in Quote /\ AtMost(d, d.at)
    BY DeltasHeard DEF HeardAges
  <2>4. Window \in Nat
    BY Limits
  <2>5. AtMost(d, d.at + Window)
    <3>1. d.at \in Int /\ d.at + Window \in Int /\ d.at <= d.at + Window
      BY <2>3, <2>4
    <3> HIDE DEF d
    <3>2. QED BY <2>3, <3>1, AtMostLater
  <2>6. d.ticker \in DOMAIN final
    BY DEF HeardAges, HeardInv
  <2>7. AtMost(final[d.ticker], d.at + Window)
    BY <2>6 DEF HeardAges, FinalAges
  <2> HIDE DEF d
  <2>8. \A q \in {r.bid, r.ask} : q # Nil => q.at <= d.at + Window
    BY <2>2, <2>5, <2>7 DEF AtMost
  <2>9. QED BY <2>2, <2>8 DEF LineBounded
<1>3. QED BY <1>1, <1>2 DEF Lines

LEMMA EventsAreLines ==
  ASSUME ScanInv, HeardAges
  PROVE  ScanEvents \in Seq(Lines)
<1> DEFINE n == Cardinality(DOMAIN seen)
           order == SetToSeq(DOMAIN seen)
           a == [i \in 1..n |-> SnapshotEvent(order[i])]
           b == [i \in 1..Len(deltas) |-> DeltaEvent(deltas[i])]
<1>1. n \in Nat /\ order \in [1..n -> DOMAIN seen]
  BY SomeOrder DEF ScanInv, SeenInv
<1>2. Len(deltas) \in Nat /\ DOMAIN deltas = 1..Len(deltas)
  BY LenProperties DEF HeardAges, HeardInv
<1>3. a \in Seq(Lines)
  <2>1. \A i \in 1..n : order[i] \in DOMAIN seen
    BY <1>1
  <2> HIDE DEF n, order
  <2>2. a \in [1..n -> Lines]
    BY <2>1 DEF Lines
  <2> HIDE DEF a
  <2>3. QED BY <1>1, <2>2, SameLength
<1>4. b \in Seq(Lines)
  <2>1. b \in [1..Len(deltas) -> Lines]
    BY <1>2 DEF Lines
  <2> HIDE DEF b
  <2>2. QED BY <1>2, <2>1, SameLength
<1>5. ScanEvents = a \o b
  BY DEF ScanEvents
<1> HIDE DEF a, b
<1>6. QED BY <1>3, <1>4, <1>5, ConcatProperties

LEMMA RecordsKeep ==
  ASSUME ScanInv, HeardAges, LookaheadBounded, [Next]_vars PROVE LookaheadBounded'
<1>1. LookaheadBounded <=> \A r \in ToSet(records) : LineBounded(r)
  BY DEF LookaheadBounded, LineBounded
<1>2. LookaheadBounded' <=> \A r \in ToSet(records') : LineBounded(r)
  BY DEF LookaheadBounded, LineBounded
<1>3. CASE UNCHANGED records
  BY <1>1, <1>2, <1>3
<1>4. CASE StartCycle
  <2>1. records' = <<>>
    BY <1>4 DEF StartCycle
  <2>2. QED BY <1>2, <2>1 DEF ToSet
<1>5. CASE EndFeed
  <2>1. SUFFICES ASSUME ~ UNCHANGED records PROVE LookaheadBounded'
    BY <1>3
  <2>2. PICK written \in {Len(ScanEvents) \div 2, Len(ScanEvents)} : records' = Take(ScanEvents, written)
    BY <1>5, <2>1 DEF EndFeed, RecordScanTrace
  <2>3. ScanEvents \in Seq(Lines) /\ Len(ScanEvents) \in Nat
    BY EventsAreLines, LenProperties
  <2>4. written \in Nat
    BY <2>2, <2>3
  <2>5. records' \in Seq(Lines)
    BY <2>2, <2>3, <2>4, TakeProperties
  <2>6. \A r \in ToSet(records') : r \in Lines
    BY <2>5, LenProperties, ElementOfSeq DEF ToSet
  <2>7. step # "scan"
    BY <1>5 DEF EndFeed
  <2>8. QED BY <1>2, <2>6, <2>7, LinesBounded
<1>6. CASE Tick \/ FetchPage \/ FetchFails \/ DiscoverSeries \/ EndScan \/ Subscribe \/ HearDelta
  BY <1>3, <1>6 DEF Tick, FetchPage, FetchFails, DiscoverSeries, EndScan, Subscribe, HearDelta, ending
<1>7. CASE StopListening \/ SocketFails \/ SelectMarkets \/ UseCached \/ FetchNoaaFails
  BY <1>3, <1>7 DEF StopListening, SocketFails, SelectMarkets, UseCached, FetchNoaaFails, ending
<1>8. CASE EnrichMarket \/ EndEnrichment \/ Stopped \/ UNCHANGED vars
  BY <1>3, <1>8 DEF EnrichMarket, EndEnrichment, Stopped, vars, ending
<1>9. QED BY <1>4, <1>5, <1>6, <1>7, <1>8 DEF Next

LEMMA RecordsInit == Init => LookaheadBounded
BY DEF Init, LookaheadBounded, ToSet

\* For any window, messages and timing of the requests, and wherever a write of the
\* trace fails: no line of it holds a quote from after its date, but a delta's line
\* those that it borrows from deltas of the same listening.
THEOREM Lookahead == Spec => []LookaheadBounded
<1>1. ScanInv /\ HeardAges /\ LookaheadBounded /\ [Next]_vars =>
        ScanInv' /\ HeardAges' /\ LookaheadBounded'
  BY ScanKeeps, HeardKeeps, RecordsKeep
<1>2. QED BY ScanInit, HeardInit, RecordsInit, <1>1, PTL DEF Spec

(***************************************************************************)
(* The selection.                                                          *)
(***************************************************************************)
LEMMA FinalMarkets ==
  ASSUME ScanInv, HeardAges
  PROVE  IsFiniteSet(DOMAIN final) /\ DOMAIN final \subseteq Tickers /\ IsFiniteSet(Passing)
<1>1. DOMAIN final \in SUBSET (DOMAIN seen)
  BY DEF HeardAges, HeardInv
<1>2. IsFiniteSet(DOMAIN seen) /\ DOMAIN seen \subseteq Tickers
  BY DEF ScanInv, SeenInv
<1>3. IsFiniteSet(DOMAIN final)
  BY <1>1, <1>2, FS_Subset
<1>4. Passing \in SUBSET (DOMAIN final)
  BY DEF Passing
<1>5. IsFiniteSet(Passing)
  BY <1>3, <1>4, FS_Subset
<1>6. QED BY <1>1, <1>2, <1>3, <1>5

\* The markets that are valued and those that are enriched: some of those that pass,
\* once each.
LEMMA SelectionProperties ==
  ASSUME ScanInv, HeardAges, NEW s \in ByVolume(Passing)
  PROVE  LET c == CappedPerEvent(s)
             v == SelectForValuation(s)
             e == ToEnrich(v)
         IN /\ c \in Seq(Tickers) /\ v \in Seq(Tickers) /\ e \in Seq(Tickers) /\ IsInjective(e)
            /\ Len(v) <= ValuationLimit
            /\ \A i \in DOMAIN c : c[i] \in DOMAIN final
            /\ \A i \in DOMAIN v : \E j \in DOMAIN c : v[i] = c[j]
            /\ \A i \in DOMAIN e : \E j \in DOMAIN v : e[i] = v[j]
<1> DEFINE P == {i \in DOMAIN s : MaxPerEvent = 0 \/
                   Cardinality({j \in 1..(i - 1) : EventOf[s[j]] = EventOf[s[i]]}) < MaxPerEvent}
           c == CappedPerEvent(s)
           v == SelectForValuation(s)
           e == ToEnrich(v)
<1>1. Passing \subseteq DOMAIN final /\ Passing \subseteq Tickers
  BY FinalMarkets DEF Passing
<1>2. s \in Seq(Passing) /\ IsInjective(s)
  BY FinalMarkets, ByVolumeProperties
<1>3. s \in Seq(Tickers) /\ Len(s) \in Nat /\ DOMAIN s = 1..Len(s) /\ \A i \in DOMAIN s : s[i] \in DOMAIN final
  <2>1. \A S, T : S \subseteq T => Seq(S) \subseteq Seq(T)
    BY SeqDef
  <2>2. s \in Seq(Tickers)
    BY <1>1, <1>2, <2>1
  <2>3. Len(s) \in Nat /\ DOMAIN s = 1..Len(s) /\ \A i \in DOMAIN s : s[i] \in Passing
    BY <1>2, LenProperties, ElementOfSeq
  <2>4. QED BY <1>1, <2>2, <2>3
<1>4. c = At(s, P) /\ P \in SUBSET (DOMAIN s)
  BY DEF CappedPerEvent
<1> HIDE DEF P
<1>5. /\ c \in Seq(Tickers) /\ IsInjective(c)
      /\ \A i \in DOMAIN c : c[i] \in DOMAIN final
  <2>1. /\ At(s, P) \in Seq(Tickers) /\ IsInjective(At(s, P))
        /\ \A k \in 1..Len(At(s, P)) : \E i \in P : At(s, P)[k] = s[i]
    BY <1>2, <1>3, <1>4, AtProperties
  <2>2. DOMAIN At(s, P) = 1..Len(At(s, P))
    BY <2>1, LenProperties
  <2>3. \A i \in P : s[i] \in DOMAIN final
    BY <1>3, <1>4
  <2>4. QED BY <1>4, <2>1, <2>2, <2>3
<1> HIDE DEF c
<1>6. /\ v \in Seq(Tickers) /\ IsInjective(v) /\ Len(v) <= ValuationLimit
      /\ \A i \in DOMAIN v : \E j \in DOMAIN c : v[i] = c[j]
  <2>1. ValuationLimit \in Nat
    BY Limits
  <2>2. CASE Balanced
    <3>1. v = RoundRobin(c, ValuationLimit)
      BY <2>2 DEF SelectForValuation, c
    <3>2. QED BY <1>5, <2>1, <3>1, RoundRobinProperties
  <2>3. CASE ~Balanced
    <3>1. v = Take(c, ValuationLimit)
      BY <2>3 DEF SelectForValuation, c
    <3> HIDE DEF v
    <3>2. /\ v \in Seq(Tickers) /\ IsInjective(v) /\ Len(v) \in Nat /\ Len(c) \in Nat /\ Len(v) <= Len(c)
          /\ Len(v) <= ValuationLimit
          /\ \A i \in 1..Len(v) : v[i] = c[i]
      BY <1>5, <2>1, <3>1, TakeProperties
    <3>3. DOMAIN v = 1..Len(v) /\ DOMAIN c = 1..Len(c)
      BY <1>5, <3>2, LenProperties
    <3>4. QED BY <3>2, <3>3
  <2>4. QED BY <2>2, <2>3
<1> HIDE DEF v
<1>7. /\ e \in Seq(Tickers) /\ IsInjective(e)
      /\ \A i \in DOMAIN e : \E j \in DOMAIN v : e[i] = v[j]
  <2>1. EnrichmentLimit \in Nat /\ e = RoundRobin(v, EnrichmentLimit)
    BY Limits DEF ToEnrich
  <2>2. QED BY <1>6, <2>1, RoundRobinProperties
<1>8. QED BY <1>5, <1>6, <1>7 DEF c, v

\* A part of a set that is as large as the set may be is the set.
LEMMA AllOfIt ==
  ASSUME NEW S, IsFiniteSet(S), NEW T \in SUBSET S, NEW n \in Nat,
         Cardinality(S) <= n, Cardinality(T) >= n
  PROVE  T = S
<1>1. IsFiniteSet(T) /\ Cardinality(T) <= Cardinality(S)
  BY FS_Subset
<1>2. Cardinality(T) \in Nat /\ Cardinality(S) \in Nat
  BY <1>1, FS_CardinalityType
<1>3. Cardinality(T) = Cardinality(S)
  BY <1>1, <1>2
<1>4. QED BY <1>3, FS_Subset

\* Both round robins give a place to every vertical, if all find one: a vertical that
\* got none would have found every place taken by another one that is present.
LEMMA PlacesForAll ==
  ASSUME ScanInv, HeardAges, Balanced, NEW s \in ByVolume(Passing)
  PROVE  LET v == SelectForValuation(s)
             present == {Vertical(t) : t \in ToSet(v) \cup Certain}
         IN Cardinality(present) <= Lesser(ValuationLimit, EnrichmentLimit) =>
              present \subseteq {Vertical(t) : t \in ToSet(ToEnrich(v))}
<1> DEFINE c == CappedPerEvent(s)
           v == SelectForValuation(s)
           e == ToEnrich(v)
           present == {Vertical(t) : t \in ToSet(v) \cup Certain}
<1>1. /\ c \in Seq(Tickers) /\ v \in Seq(Tickers) /\ e \in Seq(Tickers)
      /\ \A i \in DOMAIN v : \E j \in DOMAIN c : v[i] = c[j]
      /\ \A i \in DOMAIN e : \E j \in DOMAIN v : e[i] = v[j]
  BY SelectionProperties
<1>2. ValuationLimit \in Nat /\ EnrichmentLimit \in Nat
  BY Limits
<1>3. v = RoundRobin(c, ValuationLimit) /\ e = RoundRobin(v, EnrichmentLimit)
  BY DEF SelectForValuation, ToEnrich
<1>4. \A t \in Certain : \E k \in DOMAIN c : c[k] = t
  BY FinalMarkets, CertainKept
<1> HIDE DEF c, v, e
<1>5. VerticalsIn(v) = {Vertical(t) : t \in ToSet(v)} /\ VerticalsIn(e) = {Vertical(t) : t \in ToSet(e)}
  BY DEF VerticalsIn, ToSet
<1>6. VerticalsIn(e) \subseteq VerticalsIn(v) /\ VerticalsIn(v) \subseteq present
  BY <1>1, <1>5 DEF VerticalsIn
<1>7. present \subseteq VerticalsIn(c)
  <2>1. \A t \in ToSet(v) : \E k \in DOMAIN c : c[k] = t
    BY <1>1 DEF ToSet
  <2>2. QED BY <1>4, <2>1 DEF VerticalsIn
<1> HIDE DEF present
<1>8. IsFiniteSet(present)
  <2>1. VerticalsIn(c) \in SUBSET Verticals /\ IsFiniteSet(Verticals)
    BY <1>1, VerticalsFinite
  <2>2. present \in SUBSET Verticals
    BY <1>7, <2>1
  <2>3. QED BY <2>1, <2>2, FS_Subset
<1>9. Cardinality(present) \in Nat
  BY <1>8, FS_CardinalityType
<1>10. SUFFICES ASSUME Cardinality(present) <= Lesser(ValuationLimit, EnrichmentLimit), NEW p \in present
                PROVE  p \in VerticalsIn(e)
  BY <1>5 DEF present, v, e
<1>11. Cardinality(present) <= ValuationLimit /\ Cardinality(present) <= EnrichmentLimit
  BY <1>2, <1>9, <1>10 DEF Lesser
<1>12. p \in VerticalsIn(v)
  <2>1. p \in VerticalsIn(v) \/ Cardinality(VerticalsIn(v)) >= ValuationLimit
    BY <1>1, <1>2, <1>3, <1>7, <1>10, RoundRobinProperties
  <2>2. Cardinality(VerticalsIn(v)) >= ValuationLimit => VerticalsIn(v) = present
    BY <1>2, <1>6, <1>8, <1>11, AllOfIt
  <2>3. QED BY <1>10, <2>1, <2>2
<1>13. p \in VerticalsIn(e) \/ Cardinality(VerticalsIn(e)) >= EnrichmentLimit
  BY <1>1, <1>2, <1>3, <1>12, RoundRobinProperties
<1>14. Cardinality(VerticalsIn(e)) >= EnrichmentLimit => VerticalsIn(e) = present
  <2>1. VerticalsIn(e) \in SUBSET present
    BY <1>6
  <2>2. QED BY <1>2, <1>8, <1>11, <2>1, AllOfIt
<1>15. QED BY <1>10, <1>13, <1>14

(***************************************************************************)
(* What is selected, and how far the enrichment is with it.                *)
(***************************************************************************)
ChosenInv ==
  /\ selected \in Seq(Tickers) /\ toEnrich \in Seq(Tickers) /\ IsInjective(toEnrich)
  /\ \A i \in DOMAIN selected : selected[i] \in DOMAIN final
  /\ \A i \in DOMAIN toEnrich : \E j \in DOMAIN selected : toEnrich[i] = selected[j]
  /\ step \in {"scan", "connect", "listen", "select"} =>
       selected = <<>> /\ toEnrich = <<>> /\ enriched = <<>>
  /\ step \in {"scan", "connect", "listen", "select", "enrich"} => fate = "none"

EnrichInv ==
  /\ Len(enriched) <= Len(toEnrich)
  /\ \A i \in DOMAIN enriched : enriched[i].ticker = toEnrich[i]
  /\ DOMAIN cache \subseteq Tickers /\ \A t \in DOMAIN cache : cache[t].data.ticker = t
  /\ \A s \in DOMAIN prices : prices[s].seen \in 0..MaxTime
  /\ fate \in {"none", "no_markets", "enrichment_failed", "valued"}

SelectionInv == ChosenInv /\ EnrichInv /\ VerticalsServed

FeedInv == AgeInv /\ ScanInv /\ HeardAges /\ SelectionInv

\* Nothing is chosen before the selection.
LEMMA NothingYet ==
  ASSUME FeedInv, step' \in {"scan", "connect", "listen", "select"},
         \/ /\ step = "idle" /\ selected' = <<>> /\ toEnrich' = <<>>
            /\ enriched' = <<>> /\ fate' = "none"
         \/ step \in {"scan", "connect", "listen", "select"} /\ UNCHANGED <<chosen, enriched, fate>>,
         UNCHANGED caches
  PROVE  SelectionInv'
<1>1. selected' = <<>> /\ toEnrich' = <<>> /\ enriched' = <<>> /\ fate' = "none"
  BY DEF FeedInv, SelectionInv, ChosenInv, chosen
<1>2. UNCHANGED <<cache, prices>>
  BY DEF caches
<1>3. ChosenInv'
  <2>1. \A s : s = <<>> => s \in Seq(Tickers) /\ IsInjective(s) /\ DOMAIN s = {}
    BY DEF IsInjective
  <2>2. selected' \in Seq(Tickers) /\ toEnrich' \in Seq(Tickers) /\ IsInjective(toEnrich')
        /\ DOMAIN selected' = {} /\ DOMAIN toEnrich' = {}
    BY <1>1, <2>1
  <2>3. QED BY <1>1, <2>2 DEF ChosenInv
<1>4. EnrichInv'
  <2>1. Len(enriched') = 0 /\ Len(toEnrich') = 0 /\ DOMAIN enriched' = {}
    BY <1>1
  <2>2. QED BY <1>1, <1>2, <2>1 DEF EnrichInv, FeedInv, SelectionInv
<1>5. VerticalsServed'
  BY DEF VerticalsServed
<1>6. QED BY <1>3, <1>4, <1>5 DEF SelectionInv

LEMMA SelectKeeps == ASSUME FeedInv, SelectMarkets PROVE SelectionInv'
<1>1. PICK s \in ByVolume(Passing) :
        /\ selected' = SelectForValuation(s)
        /\ toEnrich' = ToEnrich(SelectForValuation(s))
        /\ IF s = <<>> /\ mode = "trade"
           THEN step' = "record" /\ fate' = "no_markets"
           ELSE step' = "enrich" /\ UNCHANGED fate
  BY DEF SelectMarkets
<1>2. step = "select" /\ UNCHANGED <<final, enriched, cache, prices>>
  BY DEF SelectMarkets, heard, caches
<1>3. fate = "none" /\ enriched = <<>>
  BY <1>2 DEF FeedInv, SelectionInv, ChosenInv
<1>4. ScanInv /\ HeardAges
  BY DEF FeedInv
<1> DEFINE c == CappedPerEvent(s)
           v == SelectForValuation(s)
           e == ToEnrich(v)
<1>5. /\ v \in Seq(Tickers) /\ e \in Seq(Tickers) /\ IsInjective(e)
      /\ \A i \in DOMAIN c : c[i] \in DOMAIN final
      /\ \A i \in DOMAIN v : \E j \in DOMAIN c : v[i] = c[j]
      /\ \A i \in DOMAIN e : \E j \in DOMAIN v : e[i] = v[j]
  BY <1>4, SelectionProperties
<1>6. selected' = v /\ toEnrich' = e
  BY <1>1
<1>7. Balanced =>
        LET present == {Vertical(t) : t \in ToSet(v) \cup Certain}
        IN Cardinality(present) <= Lesser(ValuationLimit, EnrichmentLimit) =>
             present \subseteq {Vertical(t) : t \in ToSet(e)}
  BY <1>4, PlacesForAll
<1> HIDE DEF c, v, e
<1>8. ChosenInv'
  <2>1. \A i \in DOMAIN v : v[i] \in DOMAIN final
    BY <1>5
  <2>2. step' \notin {"scan", "connect", "listen", "select"} /\ (step' = "enrich" => fate' = "none")
    BY <1>1, <1>3
  <2>3. QED BY <1>2, <1>5, <1>6, <2>1, <2>2 DEF ChosenInv
<1>9. EnrichInv'
  <2>1. Len(enriched') = 0 /\ DOMAIN enriched' = {} /\ Len(toEnrich') \in Nat
    <3>1. enriched' = <<>>
      BY <1>2, <1>3
    <3>2. Len(e) \in Nat
      BY <1>5, LenProperties
    <3>3. QED BY <1>6, <3>1, <3>2
  <2>2. fate' \in {"none", "no_markets"}
    BY <1>1, <1>3
  <2>3. QED BY <1>2, <2>1, <2>2 DEF EnrichInv, FeedInv, SelectionInv
<1>10. VerticalsServed'
  <2>1. Certain' = Certain
    BY <1>2 DEF Certain, Spread
  <2>2. QED BY <1>6, <1>7, <2>1 DEF VerticalsServed
<1>11. QED BY <1>8, <1>9, <1>10 DEF SelectionInv

\* What the balance is about stays as it is once the markets are selected.
LEMMA StaysServed ==
  ASSUME SelectionInv, UNCHANGED <<final, selected, toEnrich>>,
         step' \in {"enrich", "record"} => step \in {"enrich", "record"},
         fate' = fate \/ step = "enrich"
  PROVE  VerticalsServed'
<1>1. Certain' = Certain
  BY DEF Certain, Spread
<1>2. step = "enrich" => fate # "no_markets"
  BY DEF SelectionInv, ChosenInv
<1>3. QED BY <1>1, <1>2 DEF SelectionInv, VerticalsServed

LEMMA OneMore ==
  ASSUME NEW S, NEW s \in Seq(S), NEW e
  PROVE  /\ Len(Append(s, e)) = Len(s) + 1 /\ Len(s) \in Nat /\ DOMAIN s = 1..Len(s)
         /\ DOMAIN Append(s, e) = 1..(Len(s) + 1)
         /\ \A i \in 1..Len(s) : Append(s, e)[i] = s[i]
         /\ Append(s, e)[Len(s) + 1] = e
<1> DEFINE T == S \cup {e}
<1>1. s \in Seq(T) /\ e \in T
  <2>1. \A A, B : A \subseteq B => Seq(A) \subseteq Seq(B)
    BY SeqDef
  <2>2. S \subseteq T /\ e \in T
    OBVIOUS
  <2> HIDE DEF T
  <2>3. QED BY <2>1, <2>2
<1> HIDE DEF T
<1>2. /\ Append(s, e) \in Seq(T) /\ Len(Append(s, e)) = Len(s) + 1
      /\ \A i \in 1..Len(s) : Append(s, e)[i] = s[i]
      /\ Append(s, e)[Len(s) + 1] = e
  BY <1>1, AppendProperties
<1>3. Len(s) \in Nat /\ DOMAIN s = 1..Len(s)
  BY LenProperties
<1>4. DOMAIN Append(s, e) = 1..Len(Append(s, e))
  BY <1>2, LenProperties
<1>5. QED BY <1>2, <1>3, <1>4

\* The market whose turn it is was not enriched before.
LEMMA CurrentMarket ==
  ASSUME FeedInv, Len(enriched) < Len(toEnrich)
  PROVE  /\ Current \in Tickers /\ Len(enriched) \in Nat /\ Len(enriched) + 1 \in DOMAIN toEnrich
         /\ \A i \in DOMAIN enriched : enriched[i].ticker # Current
<1>1. /\ toEnrich \in Seq(Tickers) /\ Len(toEnrich) \in Nat /\ DOMAIN toEnrich = 1..Len(toEnrich)
      /\ Len(enriched) \in Nat /\ DOMAIN enriched = 1..Len(enriched)
  BY LenProperties DEF FeedInv, AgeInv, SelectionInv, ChosenInv
<1>2. Len(enriched) + 1 \in DOMAIN toEnrich
  BY <1>1
<1>3. \A i \in DOMAIN enriched : i \in DOMAIN toEnrich /\ i # Len(enriched) + 1
  BY <1>1
<1>4. Current \in Tickers
  BY <1>1, <1>2, ElementOfSeq DEF Current
<1>5. \A i \in DOMAIN enriched : enriched[i].ticker = toEnrich[i]
  BY DEF FeedInv, SelectionInv, EnrichInv
<1>6. QED BY <1>1, <1>2, <1>3, <1>4, <1>5 DEF Current, FeedInv, SelectionInv, ChosenInv, IsInjective

\* The market whose turn it is has been enriched.
LEMMA EnrichedKeeps ==
  ASSUME FeedInv, Enriching, NEW e, e.ticker = Current, enriched' = Append(enriched, e),
         UNCHANGED <<step, now, heard, chosen, fate>>,
         DOMAIN cache' \subseteq Tickers /\ \A t \in DOMAIN cache' : cache'[t].data.ticker = t,
         \A s \in DOMAIN prices' : prices'[s].seen \in 0..MaxTime
  PROVE  SelectionInv'
<1>1. step = "enrich" /\ Len(enriched) < Len(toEnrich) /\ UNCHANGED <<step, final, selected, toEnrich, fate>>
  BY DEF Enriching, heard, chosen
<1>2. fate = "none" /\ SelectionInv
  BY <1>1 DEF FeedInv, SelectionInv, ChosenInv
<1>3. ChosenInv'
  BY <1>1, <1>2 DEF SelectionInv, ChosenInv
<1>4. enriched \in Seq(Enriched)
  BY DEF FeedInv, AgeInv
<1>5. /\ Len(enriched') = Len(enriched) + 1 /\ Len(enriched) \in Nat /\ DOMAIN enriched = 1..Len(enriched)
      /\ DOMAIN enriched' = 1..(Len(enriched) + 1)
      /\ \A i \in 1..Len(enriched) : enriched'[i] = enriched[i]
      /\ enriched'[Len(enriched) + 1] = e
  BY <1>4, OneMore
<1>6. Len(toEnrich) \in Nat
  BY <1>2, LenProperties DEF SelectionInv, ChosenInv
<1>7. EnrichInv'
  <2>1. Len(enriched') <= Len(toEnrich')
    BY <1>1, <1>5, <1>6
  <2>2. \A i \in DOMAIN enriched' : enriched'[i].ticker = toEnrich'[i]
    <3>1. \A i \in DOMAIN enriched' : i \in 1..Len(enriched) \/ i = Len(enriched) + 1
      BY <1>5
    <3>2. e.ticker = toEnrich[Len(enriched) + 1]
      BY DEF Current
    <3>3. \A i \in DOMAIN enriched : enriched[i].ticker = toEnrich[i]
      BY <1>2 DEF SelectionInv, EnrichInv
    <3>4. QED BY <1>1, <1>5, <3>1, <3>2, <3>3
  <2>3. fate' = "none"
    BY <1>1, <1>2
  <2>4. QED BY <2>1, <2>2, <2>3 DEF EnrichInv
<1>8. VerticalsServed'
  BY <1>1, <1>2, StaysServed
<1>9. QED BY <1>3, <1>7, <1>8 DEF SelectionInv

LEMMA UseCachedSelection == ASSUME FeedInv, UseCached PROVE SelectionInv'
<1> DEFINE data == cache[Current].data
           e == With(data, "got", now)
<1>1. /\ Enriching /\ Current \in DOMAIN cache /\ enriched' = Append(enriched, e)
      /\ UNCHANGED <<step, now, heard, chosen, fate, cache, prices>>
  BY DEF UseCached, Fresh, caches, ending
<1>2. DOMAIN data = DataFields /\ data.ticker = Current
  BY <1>1 DEF FeedInv, AgeInv, CacheAges, SelectionInv, EnrichInv
<1> HIDE DEF data
<1>3. e.ticker = Current
  BY <1>2 DEF DataFields, With
<1> HIDE DEF e
<1>4. /\ DOMAIN cache' \subseteq Tickers /\ \A t \in DOMAIN cache' : cache'[t].data.ticker = t
      /\ \A s \in DOMAIN prices' : prices'[s].seen \in 0..MaxTime
  BY <1>1 DEF FeedInv, SelectionInv, EnrichInv
<1>5. QED BY <1>1, <1>3, <1>4, EnrichedKeeps

LEMMA EnrichMarketSelection == ASSUME FeedInv, EnrichMarket PROVE SelectionInv'
<1>1. PICK signal, price :
        /\ price \in IF Priced(Current) THEN Price(SymbolOf[Current]) ELSE {Nil}
        /\ cache' = PutCached(Current, [ticker |-> Current, vertical |-> Vertical(Current),
                                        signal |-> signal, price |-> price])
        /\ enriched' = Append(enriched,
             With([ticker |-> Current, vertical |-> Vertical(Current),
                   signal |-> signal, price |-> price], "got", now))
        /\ prices' = IF Priced(Current) THEN Remember(SymbolOf[Current], price) ELSE prices
  BY DEF EnrichMarket
<1> DEFINE data == [ticker |-> Current, vertical |-> Vertical(Current),
                    signal |-> signal, price |-> price]
           e == With(data, "got", now)
<1>2. /\ Enriching /\ Len(enriched) < Len(toEnrich) /\ enriched' = Append(enriched, e)
      /\ UNCHANGED <<step, now, heard, chosen, fate>>
  BY <1>1 DEF EnrichMarket, Enriching, ending
<1>3. data.ticker = Current /\ e.ticker = Current
  BY DEF With
<1>4. cache' = PutCached(Current, data)
  BY <1>1
<1> HIDE DEF data, e
<1>5. Current \in Tickers
  BY <1>2, CurrentMarket
<1>6. DOMAIN cache' \subseteq Tickers /\ \A t \in DOMAIN cache' : cache'[t].data.ticker = t
  <2> DEFINE entry == [data |-> data, expires |-> now + Ttl]
  <2>1. \A t \in DOMAIN cache' :
          IF t = Current THEN cache'[t] = entry
          ELSE t \in DOMAIN cache /\ cache'[t] = cache[t]
    BY <1>4 DEF PutCached, With
  <2>2. entry.data = data
    OBVIOUS
  <2> HIDE DEF entry
  <2>3. DOMAIN cache \subseteq Tickers /\ \A t \in DOMAIN cache : cache[t].data.ticker = t
    BY DEF FeedInv, SelectionInv, EnrichInv
  <2>4. QED BY <1>3, <1>5, <2>1, <2>2, <2>3
<1>7. \A s \in DOMAIN prices' : prices'[s].seen \in 0..MaxTime
  <2>1. \A s \in DOMAIN prices : prices[s].seen \in 0..MaxTime
    BY DEF FeedInv, SelectionInv, EnrichInv
  <2>2. SUFFICES ASSUME Priced(Current), ~(Fresh(prices, SymbolOf[Current]) \/ price = Nil)
                 PROVE  \A s \in DOMAIN prices' : prices'[s].seen \in 0..MaxTime
    BY <1>1, <2>1 DEF Remember
  <2> DEFINE k == SymbolOf[Current]
             entry == [seen |-> price, expires |-> now + PriceTtl]
  <2>3. prices' = With(prices, k, entry)
    BY <1>1, <2>2 DEF Remember
  <2>4. price = now
    BY <1>1, <2>2 DEF Price
  <2>5. entry.seen \in 0..MaxTime
    BY <2>4 DEF FeedInv, ScanInv, ClockInv
  <2> HIDE DEF k, entry
  <2>6. QED BY <2>1, <2>3, <2>5 DEF With
<1>8. QED BY <1>2, <1>3, <1>6, <1>7, EnrichedKeeps

\* The enrichment ends, by NOAA's failure or when all markets are done.
LEMMA EndsKeep == ASSUME FeedInv, FetchNoaaFails \/ EndEnrichment PROVE SelectionInv'
<1>1. /\ step = "enrich" /\ step' = "record" /\ fate' \in {"enrichment_failed", "valued"}
      /\ UNCHANGED <<final, selected, toEnrich, enriched, cache, prices>>
  BY DEF FetchNoaaFails, EndEnrichment, Enriching, heard, chosen, caches
<1>2. SelectionInv
  BY DEF FeedInv
<1>3. ChosenInv'
  BY <1>1, <1>2 DEF SelectionInv, ChosenInv
<1>4. EnrichInv'
  BY <1>1, <1>2 DEF SelectionInv, EnrichInv, Current
<1>5. VerticalsServed'
  BY <1>1, <1>2, StaysServed
<1>6. QED BY <1>3, <1>4, <1>5 DEF SelectionInv

LEMMA SelectionRests ==
  ASSUME FeedInv, UNCHANGED <<final, chosen, enriched, caches, fate>>,
         step' = step \/ (step = "record" /\ step' = "idle")
  PROVE  SelectionInv'
<1>1. UNCHANGED <<final, selected, toEnrich, enriched, cache, prices, fate>>
  BY DEF chosen, caches
<1>2. SelectionInv
  BY DEF FeedInv
<1>3. ChosenInv'
  BY <1>1, <1>2 DEF SelectionInv, ChosenInv
<1>4. EnrichInv'
  BY <1>1, <1>2 DEF SelectionInv, EnrichInv, Current
<1>5. VerticalsServed'
  BY <1>1, <1>2, StaysServed
<1>6. QED BY <1>3, <1>4, <1>5 DEF SelectionInv

LEMMA SelectionKeeps == ASSUME FeedInv, [Next]_vars PROVE SelectionInv'
<1>1. CASE StartCycle
  BY <1>1, NothingYet DEF StartCycle
<1>2. CASE FetchPage \/ FetchFails \/ DiscoverSeries
  BY <1>2, NothingYet DEF FetchPage, FetchFails, DiscoverSeries, Querying, ending
<1>3. CASE EndScan \/ Subscribe \/ StopListening \/ SocketFails
  BY <1>3, NothingYet DEF EndScan, Subscribe, StopListening, SocketFails, Listening, ending
<1>4. CASE SelectMarkets
  BY <1>4, SelectKeeps
<1>5. CASE UseCached \/ EnrichMarket
  BY <1>5, UseCachedSelection, EnrichMarketSelection
<1>6. CASE FetchNoaaFails \/ EndEnrichment
  BY <1>6, EndsKeep
<1>7. CASE Tick \/ HearDelta \/ EndFeed \/ Stopped \/ UNCHANGED vars
  BY <1>7, SelectionRests DEF Tick, HearDelta, EndFeed, Stopped, vars, heard, ending
<1>8. QED BY <1>1, <1>2, <1>3, <1>4, <1>5, <1>6, <1>7 DEF Next

LEMMA FeedKeeps == ASSUME FeedInv, [Next]_vars PROVE FeedInv'
BY NextKeeps, ScanKeeps, HeardKeeps, SelectionKeeps DEF FeedInv

LEMMA FeedInit == Init => FeedInv
<1>1. SUFFICES ASSUME Init PROVE FeedInv
  OBVIOUS
<1>2. /\ selected = <<>> /\ toEnrich = <<>> /\ enriched = <<>> /\ fate = "none" /\ step = "idle"
      /\ DOMAIN cache = {} /\ DOMAIN prices = {}
  BY <1>1 DEF Init, Empty
<1>3. ChosenInv /\ EnrichInv
  BY <1>2 DEF ChosenInv, EnrichInv, IsInjective
<1>4. VerticalsServed
  BY <1>2 DEF VerticalsServed
<1>5. QED BY <1>1, <1>3, <1>4, InitKeeps, ScanInit, HeardInit DEF FeedInv, SelectionInv

\* The parts of the invariant keep one another, and every run starts with them.
THEOREM FeedInvariant == Spec => []FeedInv
BY FeedInit, FeedKeeps, PTL DEF Spec

\* For every value of the constants all variables keep their types: only tickers that
\* were scanned are heard of, selected and enriched, in the order of the selection.
THEOREM FeedTypeCorrect == Spec => []TypeOK
<1>1. FeedInv => TypeOK
  <2>1. SUFFICES ASSUME FeedInv PROVE TypeOK
    OBVIOUS
  <2>2. /\ now \in 0..MaxTime /\ mode \in Modes /\ cycle \in 0..MaxCycles[mode]
        /\ step \in {"idle", "scan", "connect", "listen", "select", "enrich", "record"}
    BY <2>1 DEF FeedInv, ScanInv, ClockInv
  <2>3. tier \in {1, 2} /\ queries \in 0..MaxTier2 /\ ToSet(todo) \subseteq Series
    BY <2>1, LenProperties, ElementOfSeq DEF FeedInv, ScanInv, PagesInv, ToSet
  <2>4. \A t \in DOMAIN seen : seen[t] \in [ticker : {t}, bid : Quote, ask : Quote, vol : Nat]
    BY <2>1 DEF FeedInv, ScanInv, SeenInv, AnyMarket
  <2>5. DOMAIN final \in {DOMAIN seen, {}} /\ \A d \in ToSet(deltas) : d.ticker \in DOMAIN seen
    BY <2>1 DEF FeedInv, HeardAges, HeardInv, ToSet
  <2>6. ToSet(selected) \subseteq DOMAIN final /\ ToSet(toEnrich) \subseteq ToSet(selected)
    BY <2>1 DEF FeedInv, SelectionInv, ChosenInv, ToSet
  <2>7. /\ Len(enriched) <= Len(toEnrich)
        /\ \A i \in DOMAIN enriched : enriched[i].ticker = toEnrich[i]
        /\ DOMAIN cache \subseteq Tickers /\ \A s \in DOMAIN prices : prices[s].seen \in 0..MaxTime
        /\ fate \in {"none", "no_markets", "enrichment_failed", "valued"}
    BY <2>1 DEF FeedInv, SelectionInv, EnrichInv
  <2>8. QED BY <2>2, <2>3, <2>4, <2>5, <2>6, <2>7 DEF TypeOK
<1>2. QED BY FeedInvariant, <1>1, PTL

(***************************************************************************)
(* What is handed to the valuation: nothing before the cycle's end, and    *)
(* then all that was selected, since the selection kept to the limit.      *)
(***************************************************************************)
BatchInv ==
  /\ step # "idle" => inputs = <<>>
  /\ fate = "valued" => step \in {"record", "idle"} /\ Len(enriched) = Len(toEnrich)
  /\ Len(selected) <= ValuationLimit
  /\ WholeBatchValued

LEMMA BatchRests ==
  ASSUME FeedInv, BatchInv, UNCHANGED <<selected, toEnrich, enriched, inputs, fate>>,
         \/ step' = step
         \/ step \in {"scan", "connect", "listen"} /\ step' # "idle"
  PROVE  BatchInv'
<1>1. step \in {"scan", "connect", "listen"} => fate = "none" /\ inputs = <<>>
  BY DEF FeedInv, SelectionInv, ChosenInv, BatchInv
<1>2. WholeBatchValued'
  BY DEF BatchInv, WholeBatchValued
<1>3. QED BY <1>1, <1>2 DEF BatchInv

\* Nothing is handed on as long as the cycle selects and enriches.
LEMMA BatchGrows ==
  ASSUME FeedInv, BatchInv, SelectMarkets \/ UseCached \/ EnrichMarket \/ FetchNoaaFails \/ EndEnrichment
  PROVE  BatchInv'
<1>1. step \in {"select", "enrich"} /\ step' \in {"enrich", "record"} /\ inputs' = inputs
  BY DEF SelectMarkets, UseCached, EnrichMarket, FetchNoaaFails, EndEnrichment, Enriching, ending
<1>2. inputs = <<>> /\ fate = "none"
  BY <1>1 DEF BatchInv, FeedInv, SelectionInv, ChosenInv
<1>3. fate' = "valued" => step' \in {"record", "idle"} /\ Len(enriched') = Len(toEnrich')
  BY <1>2 DEF SelectMarkets, UseCached, EnrichMarket, FetchNoaaFails, EndEnrichment, ending, chosen
<1>4. Len(selected') <= ValuationLimit
  <2>1. CASE SelectMarkets
    <3>1. PICK s \in ByVolume(Passing) : selected' = SelectForValuation(s)
      BY <2>1 DEF SelectMarkets
    <3>2. QED BY <3>1, SelectionProperties DEF FeedInv
  <2>2. CASE ~SelectMarkets
    BY <2>2 DEF UseCached, EnrichMarket, FetchNoaaFails, EndEnrichment, chosen, BatchInv
  <2>3. QED BY <2>1, <2>2
<1>5. QED BY <1>1, <1>2, <1>3, <1>4 DEF BatchInv, WholeBatchValued

\* No market is enriched twice, so what is found under its ticker is its own.
LEMMA FoundEnrichment ==
  ASSUME FeedInv, Len(enriched) = Len(toEnrich), NEW t \in ToSet(toEnrich)
  PROVE  \E j \in DOMAIN enriched : enriched[j].ticker = t /\ EnrichmentOf(t) = enriched[j]
<1>1. /\ DOMAIN toEnrich = 1..Len(toEnrich) /\ Len(toEnrich) \in Nat /\ IsInjective(toEnrich)
      /\ DOMAIN enriched = 1..Len(enriched)
      /\ \A i \in DOMAIN enriched : enriched[i].ticker = toEnrich[i]
  BY LenProperties DEF FeedInv, AgeInv, SelectionInv, ChosenInv, EnrichInv
<1>2. PICK j \in DOMAIN toEnrich : toEnrich[j] = t
  BY DEF ToSet
<1>3. j \in DOMAIN enriched /\ enriched[j].ticker = t /\ j \in Nat
  BY <1>1, <1>2
<1> DEFINE found == {i \in DOMAIN enriched : enriched[i].ticker = t}
<1>4. found = {j}
  BY <1>1, <1>2, <1>3 DEF IsInjective
<1>5. EnrichmentOf(t) = IF found = {} THEN Nil ELSE enriched[Min(found)]
  BY DEF EnrichmentOf
<1> HIDE DEF found
<1>6. Min({j}) = j
  BY <1>3 DEF Min
<1>7. QED BY <1>3, <1>4, <1>5, <1>6

LEMMA BatchHanded == ASSUME FeedInv, BatchInv, EndFeed PROVE BatchInv'
<1>1. /\ step' = "idle" /\ UNCHANGED <<selected, toEnrich, enriched, fate>>
      /\ fate = "valued" => Len(enriched) = Len(toEnrich)
  BY DEF EndFeed, chosen, BatchInv
<1>2. /\ selected \in Seq(Tickers) /\ Len(selected) \in Nat /\ DOMAIN selected = 1..Len(selected)
      /\ ValuationLimit \in Nat /\ Len(selected) <= ValuationLimit
  BY LenProperties, Limits DEF FeedInv, SelectionInv, ChosenInv, BatchInv
<1>3. Lesser(ValuationLimit, Len(selected)) = Len(selected)
  <2>1. \A m, n \in Nat : n <= m => Lesser(m, n) = n
    BY DEF Lesser
  <2>2. QED BY <1>2, <2>1
<1> DEFINE all == [i \in 1..Len(selected) |-> [ticker |-> selected[i], enrichment |-> EnrichmentOf(selected[i])]]
<1>4. inputs' = IF fate = "valued" /\ mode = "trade" THEN all ELSE <<>>
  BY <1>3 DEF EndFeed
<1>5. WholeBatchValued'
  <2>1. SUFFICES ASSUME inputs' # <<>>, NEW t \in ToSet(toEnrich)
                 PROVE  \E i \in DOMAIN inputs', j \in DOMAIN enriched :
                          /\ inputs'[i].ticker = t /\ enriched[j].ticker = t
                          /\ inputs'[i].enrichment = enriched[j]
    BY <1>1 DEF WholeBatchValued
  <2>2. fate = "valued" /\ inputs' = all
    BY <1>4, <2>1
  <2>3. PICK j \in DOMAIN enriched : enriched[j].ticker = t /\ EnrichmentOf(t) = enriched[j]
    BY <1>1, <2>1, <2>2, FoundEnrichment
  <2>4. PICK i \in DOMAIN selected : selected[i] = t
    BY <2>1 DEF ToSet, FeedInv, SelectionInv, ChosenInv
  <2>5. i \in DOMAIN all /\ all[i].ticker = t /\ all[i].enrichment = EnrichmentOf(t)
    BY <1>2, <2>4
  <2> HIDE DEF all
  <2>6. QED BY <2>2, <2>3, <2>5
<1>6. QED BY <1>1, <1>2, <1>5 DEF BatchInv

LEMMA BatchKeeps == ASSUME FeedInv, BatchInv, [Next]_vars PROVE BatchInv'
<1>1. CASE StartCycle
  <2>1. inputs' = <<>> /\ fate' = "none" /\ selected' = <<>>
    BY <1>1 DEF StartCycle
  <2>2. Len(selected') <= ValuationLimit
    BY <2>1, Limits
  <2>3. QED BY <2>1, <2>2 DEF BatchInv, WholeBatchValued
<1>2. CASE FetchPage \/ FetchFails \/ DiscoverSeries
  BY <1>2, BatchRests DEF FetchPage, FetchFails, DiscoverSeries, chosen, ending
<1>3. CASE EndScan \/ Subscribe \/ StopListening \/ SocketFails
  BY <1>3, BatchRests DEF EndScan, Subscribe, StopListening, SocketFails, Listening, chosen, ending
<1>4. CASE SelectMarkets \/ UseCached \/ EnrichMarket \/ FetchNoaaFails \/ EndEnrichment
  BY <1>4, BatchGrows
<1>5. CASE EndFeed
  BY <1>5, BatchHanded
<1>6. CASE Tick \/ HearDelta \/ Stopped \/ UNCHANGED vars
  BY <1>6, BatchRests DEF Tick, HearDelta, Stopped, vars, chosen, ending
<1>7. QED BY <1>1, <1>2, <1>3, <1>4, <1>5, <1>6 DEF Next

LEMMA BatchInit == Init => BatchInv
<1>1. SUFFICES ASSUME Init PROVE BatchInv
  OBVIOUS
<1>2. inputs = <<>> /\ fate = "none" /\ selected = <<>>
  BY <1>1 DEF Init
<1>3. Len(selected) <= ValuationLimit
  BY <1>2, Limits
<1>4. QED BY <1>2, <1>3 DEF BatchInv, WholeBatchValued

\* For every value of the constants, whichever requests fail: a batch that is handed to
\* the valuation has every market that was to be enriched, with its own enrichment of
\* this cycle.  The two limits are applied one after the other, and neither drops one.
THEOREM WholeBatch == Spec => []WholeBatchValued
<1>1. Init => FeedInv /\ BatchInv
  BY FeedInit, BatchInit
<1>2. FeedInv /\ BatchInv /\ [Next]_vars => (FeedInv /\ BatchInv)'
  BY FeedKeeps, BatchKeeps
<1>3. FeedInv /\ BatchInv => WholeBatchValued
  BY DEF BatchInv
<1>4. QED BY <1>1, <1>2, <1>3, PTL DEF Spec

\* For any markets, filters, caps and limits: with balancing every vertical that has a
\* market left has one enriched, if there are as many places as verticals.
THEOREM VerticalsGetPlaces == Spec => []VerticalsServed
<1>1. FeedInv => VerticalsServed
  BY DEF FeedInv, SelectionInv
<1>2. QED BY FeedInvariant, <1>1, PTL
==============================================================================
