---------------------------- MODULE MCTradeSizing ----------------------------
(* An instance of the sizing of trades for TLC: two markets of one event and one
   of another, with a narrow, a wide and a missing quote. *)
EXTENDS TradeSizing, TLC

CONSTANTS a1, a2, b1, eventA, eventB

MCEventOf == (a1 :> eventA) @@ (a2 :> eventA) @@ (b1 :> eventB)

Narrow  == [bid |-> 290, ask |-> 310]
Wide    == [bid |-> 400, ask |-> 600]
OneSide == [bid |-> Nil, ask |-> 420]

Val(t, b, mid, fair, conf) ==
  [ticker |-> t, book |-> b, mid |-> mid, fair |-> fair, conf |-> conf]

MCValuations ==
  { Val(a1, Narrow, 300, 400, 900), Val(a1, Narrow, 300, 150, 500),
    Val(a2, Wide, 500, 750, 830), Val(b1, OneSide, 420, 421, 100),
    Val(b1, Narrow, 300, 600, 800) }

MCBooks == { Wide, OneSide }

MCEstimates ==
  { [fill |-> 900, price |-> 320, markout |-> 10],
    [fill |-> 300, price |-> 600, markout |-> -5],
    [fill |-> 999, price |-> 200, markout |-> -50] }

MCVetoThreshold == -30

MCAliases == b1 :> b1
==============================================================================
