----------------------------- MODULE OrderBook -----------------------------
(***************************************************************************)
(* What a price-aggregated order book promises, without deques, positions  *)
(* or error counters: which orders are live, and how much quantity stands  *)
(* at each price of each side.  An order enters once, under an id that no  *)
(* live order of either side has; it keeps its side and its price; it      *)
(* leaves with the quantity it has at that time.  Messages that a feed     *)
(* refuses, and trades, do not show.                                       *)
(***************************************************************************)
EXTENDS Naturals, Functions

CONSTANTS OrderId, Quantity, Price

VARIABLES
  live,    \* from the ids of the live orders to [side, qty, price]
  depth    \* the quantity that stands on a side at a price

vars == <<live, depth>>

Side == {"B", "S"}

LiveOrder == [side : Side, qty : Quantity, price : Price]

Init ==
  /\ live = << >>
  /\ depth = [side \in Side |-> [price \in Price |-> 0]]

Open(id, order) ==
  /\ id \notin DOMAIN live
  /\ live' = [k \in DOMAIN live \cup {id} |-> IF k = id THEN order ELSE live[k]]
  /\ depth' = [depth EXCEPT ![order.side][order.price] = @ + order.qty]

Close(id) ==
  /\ id \in DOMAIN live
  /\ live' = Restrict(live, DOMAIN live \ {id})
  /\ depth' = [depth EXCEPT ![live[id].side][live[id].price] = @ - live[id].qty]

Amend(id, qty) ==
  /\ id \in DOMAIN live
  /\ live' = [live EXCEPT ![id].qty = qty]
  /\ depth' = [depth EXCEPT ![live[id].side][live[id].price] =
                              (@ - live[id].qty) + qty]

Next ==
  \E id \in OrderId :
    \/ \E order \in LiveOrder : Open(id, order)
    \/ Close(id)
    \/ \E qty \in Quantity : Amend(id, qty)

Spec == Init /\ [][Next]_vars
=============================================================================
