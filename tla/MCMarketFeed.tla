----------------------------- MODULE MCMarketFeed -----------------------------
(* An instance of the market feed for TLC: a series with a weather market and one
   with two bitcoin markets of one event, and in tier 2 a series with a market that
   names two verticals and a sports market. *)
EXTENDS MarketFeed

CONSTANTS w1, c1, c2, f1, s1, weather, btc, misc, cold, coin, other, bitcoin, gc

MCListing == (weather :> <<w1>>) @@ (btc :> <<c1, c2>>) @@ (misc :> <<f1, s1>>)
MCEventOf == (w1 :> cold) @@ (c1 :> coin) @@ (c2 :> coin) @@ (f1 :> other) @@ (s1 :> other)
MCVolume  == (w1 :> 10) @@ (c1 :> 50) @@ (c2 :> 40) @@ (f1 :> 40) @@ (s1 :> 30)
MCCloseAt == (w1 :> Nil) @@ (c1 :> Nil) @@ (c2 :> Nil) @@ (f1 :> 3) @@ (s1 :> Nil)

Narrow == [bid |-> 40, ask |-> 44]
Bare   == [bid |-> Nil, ask |-> 44]
MCBooks == (w1 :> {Narrow}) @@ (c1 :> {Narrow}) @@ (c2 :> {Narrow}) @@
           (f1 :> {Narrow}) @@ (s1 :> {Bare})

\* A bid above the last ask, and trades that make the market the most traded one.
MCMessages ==
  (c2 :> { [bid |-> 46, ask |-> Nil, traded |-> 0], [bid |-> Nil, ask |-> Nil, traded |-> 10] })
  @@ [t \in Tickers |-> {}]

MCMentions == (w1 :> {"Weather"}) @@ (c1 :> {"Crypto"}) @@ (c2 :> {"Crypto"}) @@
              (f1 :> {"Finance", "Crypto"}) @@ (s1 :> {"Sports"})
MCSymbolOf == (w1 :> Nil) @@ (c1 :> bitcoin) @@ (c2 :> bitcoin) @@ (f1 :> gc) @@ (s1 :> Nil)

MCAllowlist    == <<weather, btc>>
MCRecency      == <<btc, misc>>
MCCategoriesOf == (weather :> {}) @@ (btc :> {"Sports"}) @@ (misc :> {"Sports"})

MCMaxCycles == ("trade" :> 2) @@ ("capture" :> 1)
==============================================================================
