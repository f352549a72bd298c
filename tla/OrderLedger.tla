----------------------------- MODULE OrderLedger -----------------------------
(***************************************************************************)
(* What the execution engine promises about its orders, with the polls,    *)
(* retries, files and crashes left out.  An order id is intended once,     *)
(* then placed, then reported.  At most one order is active, only an       *)
(* active order is placed or reported, and an order that stopped being     *)
(* active stays as it is.                                                  *)
(***************************************************************************)
CONSTANTS
  Cids,      \* client order ids
  Simulated, \* are orders reported without being placed (paper trading)?
  Nil

VARIABLES
  stage,  \* how far each id has come
  active  \* the id of the order being worked on, or Nil

vars == <<stage, active>>

Stages == {"fresh", "intended", "placed", "reported"}

Init == stage = [c \in Cids |-> "fresh"] /\ active = Nil

Intend(c) ==
  /\ active = Nil /\ stage[c] = "fresh"
  /\ stage' = [stage EXCEPT ![c] = "intended"]
  /\ active' = c

\* The caller may never learn that the order was placed.
Place(c) ==
  /\ active = c /\ stage[c] \in {"intended", "placed"} /\ ~Simulated
  /\ stage' = [stage EXCEPT ![c] = "placed"]
  /\ active' \in {c, Nil}

Settle(c) ==
  /\ active = c /\ stage[c] = (IF Simulated THEN "intended" ELSE "placed")
  /\ stage' = [stage EXCEPT ![c] = "reported"]
  /\ active' = Nil

Abandon ==
  /\ active # Nil
  /\ active' = Nil
  /\ UNCHANGED stage

Next == Abandon \/ \E c \in Cids : Intend(c) \/ Place(c) \/ Settle(c)

Spec == Init /\ [][Next]_vars
==============================================================================
