-------------------------- MODULE MCExecutionEngine --------------------------
(***************************************************************************)
(* Instances of the execution engine for TLC.  Quantities are half         *)
(* contracts: qty 4 is two contracts.                                      *)
(***************************************************************************)
EXTENDS ExecutionLedger, TLC

\* Three contracts at 50 cents.
LargeYes == [ask |-> 49, qty |-> 6, outcome |-> "yes"]
\* One contract at 50 cents.
SmallYes == [ask |-> 49, qty |-> 2, outcome |-> "yes"]
\* Two and a half contracts, so that the client rounds.
OddYes   == [ask |-> 49, qty |-> 5, outcome |-> "yes"]
\* One contract of NO at 40 cents: reports value it at 60.
CheapNo  == [ask |-> 39, qty |-> 2, outcome |-> "no"]
\* One contract at 96 cents.
DearYes == [ask |-> 95, qty |-> 2, outcome |-> "yes"]
\* An ask so high that the clamped limit does not cross it.
Uncrossed == [ask |-> 100, qty |-> 2, outcome |-> "yes"]

SmallSignals == {SmallYes}
LargeSignals == {LargeYes}
MixedSignals == {LargeYes, CheapNo}
ModesSignals == {OddYes, DearYes, Uncrossed}

\* Most markets take any price in cents; this one takes steps of 30 cents: a
\* limit of 50 is sent as 60, one of 40 as 30, which is a YES price of 70.
AnyCent == [min |-> 1, max |-> 99, tick |-> 1]
Steps   == [min |-> 5, max |-> 95, tick |-> 30]

FineGrid   == {AnyCent}
CoarseGrid == {Steps}

Symmetric == Permutations(Cids)
==============================================================================
