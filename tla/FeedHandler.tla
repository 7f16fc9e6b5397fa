---------------------------- MODULE FeedHandler ----------------------------
(***************************************************************************)
(* FeedHandler: rebuilds the limit order book from the messages of a feed  *)
(* and tells the reporter, by one Data per accepted message, what it did   *)
(* to its two deques.                                                      *)
(*                                                                         *)
(* The code has each operation twice, once per side, with the comparator   *)
(* of std::lower_bound as the only difference (Before in Limits); here the *)
(* side is a parameter.  A message that Parser rejects only counts an      *)
(* error; which of the twenty parsing counters it is does not matter to   *)
(* the book, so one counter stands for all of them.                        *)
(***************************************************************************)
EXTENDS Limits

CONSTANTS
  OrderId,     \* the ids orders may have
  Quantity,    \* the quantities messages may carry
  MaxErrors    \* bound: no message is refused once a counter has this value

\* Ids and quantities are unsigned ints, and Parser refuses 0.
ASSUME OrderIdAssumption  == IsFiniteSet(OrderId)
ASSUME QuantityAssumption == Quantity \subseteq Nat \ {0}

VARIABLES
  limits,      \* bids_ and asks_
  orders,      \* buyOrders_ and sellOrders_: from the ids that live there
  errors,      \* the counters of Errors
  pushed       \* what this message gave to queue_.push_back, or NoData

vars == <<limits, orders, errors, pushed>>

ParsingErrors == "parsing"

CriticalErrors ==
  {"modifiesLimitQtyTooLow", "modifiesLimitNotFound",
   "cancelsLimitQtyTooLow", "cancelsLimitNotFound"}

Errors ==
  {ParsingErrors, "duplicateOrderIds",
   "modifiesWithUnknownOrderId", "modifiesNotMatchedPrice",
   "cancelsWithUnknownOrderId", "cancelsNotMatchedQtyOrPrice"}
  \cup CriticalErrors

\* The orders that messages can describe: Order{p.getQty(), p.getPrice()}.
MessageOrder == [qty : Quantity, price : Price]

Init ==
  /\ limits = [side \in Side |-> << >>]
  /\ orders = [side \in Side |-> << >>]
  /\ errors = [e \in Errors |-> 0]
  /\ pushed = NoData

-----------------------------------------------------------------------------
(* What the operations share.                                               *)

Live(side) == DOMAIN orders[side]

LimitAt(side, pos) == limits[side][pos + 1]

\* ++errors.<counter> and return: neither the book nor the queue changes.
Refuse(counter) ==
  /\ \A e \in Errors : errors[e] < MaxErrors
  /\ errors' = [errors EXCEPT ![counter] = @ + 1]
  /\ pushed' = NoData
  /\ UNCHANGED <<limits, orders>>

\* Mutant: a limit without quantity stays in the deque.
ChangeLimit_KeepsEmptyLimit(side, price, removed, added) ==
  LET pos   == lower_bound(limits[side], side, price)
      limit == [LimitAt(side, pos) EXCEPT !.qty = (@ - removed) + added]
  IN  /\ pushed' = Data("M", side, pos, limit)
      /\ limits' = [limits EXCEPT ![side] = ReplaceAt(@, pos + 1, limit)]

\* Mutant: the reporter is sent the limit as it was before the change.
ChangeLimit_PushesFirst(side, price, removed, added) ==
  LET pos   == lower_bound(limits[side], side, price)
      limit == [LimitAt(side, pos) EXCEPT !.qty = (@ - removed) + added]
  IN  \/ /\ limit.qty = 0
         /\ pushed' = Data("X", side, pos, NoLimit)
         /\ limits' = [limits EXCEPT ![side] = RemoveAt(@, pos + 1)]
      \/ /\ limit.qty # 0
         /\ pushed' = Data("M", side, pos, LimitAt(side, pos))
         /\ limits' = [limits EXCEPT ![side] = ReplaceAt(@, pos + 1, limit)]

\* The tail of a cancel or a modify, on the limit that lower_bound found:
\* the limit goes when its quantity reaches 0, and is overwritten otherwise.
ChangeLimit(side, price, removed, added) ==
  LET pos   == lower_bound(limits[side], side, price)
      limit == [LimitAt(side, pos) EXCEPT !.qty = (@ - removed) + added]
  IN  \/ /\ limit.qty = 0
         /\ pushed' = Data("X", side, pos, NoLimit)
         /\ limits' = [limits EXCEPT ![side] = RemoveAt(@, pos + 1)]
      \/ /\ limit.qty # 0
         /\ pushed' = Data("M", side, pos, limit)
         /\ limits' = [limits EXCEPT ![side] = ReplaceAt(@, pos + 1, limit)]

-----------------------------------------------------------------------------
(* newBuyOrder and newSellOrder.                                            *)

\* Mutant: the order replaces the quantity of the limit that it joins.
AddToLimits_Replaces(side, order) ==
  LET pos == lower_bound(limits[side], side, order.price)
  IN  \/ /\ ~PriceIsAt(limits[side], pos, order.price)
         /\ pushed' = Data("A", side, pos, order)
         /\ limits' = [limits EXCEPT ![side] = InsertAt(@, pos + 1, order)]
      \/ /\ PriceIsAt(limits[side], pos, order.price)
         /\ pushed' = Data("M", side, pos, order)
         /\ limits' = [limits EXCEPT ![side] = ReplaceAt(@, pos + 1, order)]

\* The order opens a new limit, or its quantity joins the limit at its price.
AddToLimits(side, order) ==
  LET pos   == lower_bound(limits[side], side, order.price)
      limit == [LimitAt(side, pos) EXCEPT !.qty = @ + order.qty]
  IN  \/ /\ ~PriceIsAt(limits[side], pos, order.price)
         /\ pushed' = Data("A", side, pos, order)
         /\ limits' = [limits EXCEPT ![side] = InsertAt(@, pos + 1, order)]
      \/ /\ PriceIsAt(limits[side], pos, order.price)
         /\ pushed' = Data("M", side, pos, limit)
         /\ limits' = [limits EXCEPT ![side] = ReplaceAt(@, pos + 1, limit)]

WithOrder(map, id, order) ==
  [k \in DOMAIN map \cup {id} |-> IF k = id THEN order ELSE map[k]]

\* Mutant: duplicates are looked for on the side of the order only.
newOrder_ChecksOwnSide(side, id, order) ==
  \/ /\ id \in Live(side)
     /\ Refuse("duplicateOrderIds")
  \/ /\ id \notin Live(side)
     /\ AddToLimits(side, order)
     /\ orders' = [orders EXCEPT ![side] = WithOrder(@, id, order)]
     /\ UNCHANGED errors

newOrder(side, id, order) ==
  \/ /\ \E s \in Side : id \in Live(s)
     /\ Refuse("duplicateOrderIds")
  \/ /\ \A s \in Side : id \notin Live(s)
     /\ AddToLimits(side, order)
     /\ orders' = [orders EXCEPT ![side] = WithOrder(@, id, order)]
     /\ UNCHANGED errors

-----------------------------------------------------------------------------
(* cancelBuyOrder and cancelSellOrder.  The early returns, in their order.   *)

Accepted == "accepted"

cancelRefusal(side, id, order) ==
  LET pos == lower_bound(limits[side], side, order.price)
  IN  IF id \notin Live(side) THEN "cancelsWithUnknownOrderId"
      ELSE IF orders[side][id] # order THEN "cancelsNotMatchedQtyOrPrice"
      ELSE IF ~PriceIsAt(limits[side], pos, order.price)
           THEN "cancelsLimitNotFound"
      ELSE IF LimitAt(side, pos).qty < order.qty THEN "cancelsLimitQtyTooLow"
      ELSE Accepted

cancelOrder(side, id, order) ==
  LET refusal == cancelRefusal(side, id, order)
  IN  \/ /\ refusal # Accepted
         /\ Refuse(refusal)
      \/ /\ refusal = Accepted
         /\ ChangeLimit(side, order.price, order.qty, 0)
         /\ orders' = [orders EXCEPT ![side] = Restrict(@, DOMAIN @ \ {id})]
         /\ UNCHANGED errors

-----------------------------------------------------------------------------
(* modifyBuyOrder and modifySellOrder: only the quantity may change.         *)

\* Mutant: a modify may move the order to another price.
modifyRefusal_AnyPrice(side, id, order) ==
  LET pos == lower_bound(limits[side], side, order.price)
  IN  IF id \notin Live(side) THEN "modifiesWithUnknownOrderId"
      ELSE IF ~PriceIsAt(limits[side], pos, order.price)
           THEN "modifiesLimitNotFound"
      ELSE IF LimitAt(side, pos).qty < orders[side][id].qty
           THEN "modifiesLimitQtyTooLow"
      ELSE Accepted

modifyRefusal(side, id, order) ==
  LET pos == lower_bound(limits[side], side, order.price)
  IN  IF id \notin Live(side) THEN "modifiesWithUnknownOrderId"
      ELSE IF orders[side][id].price # order.price
           THEN "modifiesNotMatchedPrice"
      ELSE IF ~PriceIsAt(limits[side], pos, order.price)
           THEN "modifiesLimitNotFound"
      ELSE IF LimitAt(side, pos).qty < orders[side][id].qty
           THEN "modifiesLimitQtyTooLow"
      ELSE Accepted

\* Mutant: the limit changes, the stored order does not.
modifyOrder_KeepsOrder(side, id, order) ==
  LET refusal == modifyRefusal(side, id, order)
  IN  \/ /\ refusal # Accepted
         /\ Refuse(refusal)
      \/ /\ refusal = Accepted
         /\ ChangeLimit(side, order.price, orders[side][id].qty, order.qty)
         /\ UNCHANGED <<orders, errors>>

modifyOrder(side, id, order) ==
  LET refusal == modifyRefusal(side, id, order)
  IN  \/ /\ refusal # Accepted
         /\ Refuse(refusal)
      \/ /\ refusal = Accepted
         /\ ChangeLimit(side, order.price, orders[side][id].qty, order.qty)
         /\ orders' = [orders EXCEPT ![side][id] = order]
         /\ UNCHANGED errors

-----------------------------------------------------------------------------
(* processMessage.                                                          *)

\* A trade is only forwarded: the feed does not look for its orders.
forwardTrade(trade) ==
  /\ pushed' = Data("T", NoSide, 0, trade)
  /\ UNCHANGED <<limits, orders, errors>>

processMessage ==
  \/ \E side \in Side, id \in OrderId, order \in MessageOrder :
       \/ newOrder(side, id, order)
       \/ cancelOrder(side, id, order)
       \/ modifyOrder(side, id, order)
  \/ \E trade \in MessageOrder : forwardTrade(trade)
  \/ Refuse(ParsingErrors)

Next == processMessage

Spec == Init /\ [][Next]_vars

-----------------------------------------------------------------------------
(* Properties.                                                              *)

\* The types of the fields; the maps are partial functions from the ids.
TypeOK ==
  /\ limits \in [Side -> Seq(Limit)]
  /\ orders \in [Side -> UNION {[ids -> MessageOrder] : ids \in SUBSET OrderId}]
  /\ errors \in [Errors -> Nat]
  /\ pushed \in DataType

\* Price priority: each deque is strictly sorted, best price first, whatever
\* the order in which limits were inserted and erased.  std::lower_bound is
\* only defined on such a deque, and every position the reporter is sent
\* comes from it.
SortedBook == \A side \in Side : Sorted(limits[side], side)

\* The units of quantity, one by one, of the orders that a map has at a price:
\* their number is the total quantity of these orders.
OrdersAt(map, price) == {id \in DOMAIN map : map[id].price = price}

UnitsAt(map, price) ==
  UNION {{id} \X (1 .. map[id].qty) : id \in OrdersAt(map, price)}

TotalQty(map, price) == Cardinality(UnitsAt(map, price))

\* The deques and the maps tell the same story: the quantity of a limit is
\* the sum over the live orders at its price (so there is one), and every
\* live order has a limit.  The code never recomputes a sum: it adds and
\* subtracts in six places.
AggregatedBook ==
  \A side \in Side :
    /\ \A i \in DOMAIN limits[side] :
         limits[side][i].qty = TotalQty(orders[side], limits[side][i].price)
    /\ \A id \in Live(side) : \E i \in DOMAIN limits[side] :
         limits[side][i].price = orders[side][id].price

\* An id lives on one side only, so that a cancel or a modify, which looks in
\* the map of the side in its message, cannot hit another order.
OneSidePerOrder == Live("B") \cap Live("S") = {}

\* "Critical errors that should never happen" (Common.h): the refusals that
\* would mean the deques and the maps disagree are never counted.
NoCriticalErrors == \A e \in CriticalErrors : errors[e] = 0

\* What a message did to the deques is what its Data tells the reporter to do,
\* at a position where that is defined; a message without Data did nothing.
EventReplays ==
  [][InRange(limits, pushed') /\ limits' = Replay(limits, pushed')]_vars

-----------------------------------------------------------------------------
(* The order book that the deques and the maps implement.                   *)

LiveOrders ==
  [id \in Live("B") \cup Live("S") |->
     LET side  == CHOOSE s \in Side : id \in Live(s)
         order == orders[side][id]
     IN  [side |-> side, qty |-> order.qty, price |-> order.price]]

Depth(side, price) ==
  LET at == {i \in DOMAIN limits[side] : limits[side][i].price = price}
  IN  IF at = {} THEN 0 ELSE limits[side][CHOOSE i \in at : TRUE].qty

Book == INSTANCE OrderBook WITH
  live  <- LiveOrders,
  depth <- [side \in Side |-> [price \in Price |-> Depth(side, price)]]

\* Binary searches, insertions and erasures in the deques implement the book
\* that is a map from prices to quantities: each accepted message is one step
\* of it, each refused message and each trade leaves it alone.
ImplementsBook == Book!Spec
=============================================================================
