----------------------------- MODULE MCReporter -----------------------------
(***************************************************************************)
(* Reporter with a record of the trades it was fed, to compare its output  *)
(* with the whole past and not just with its own state.                    *)
(***************************************************************************)
EXTENDS Reporter

CONSTANTS
  MaxTrades    \* bound on the trades of a behaviour

VARIABLES
  trades       \* the trades received, in order

historyVars == <<vars, trades>>

HistoryInit == Init /\ trades = << >>

HistoryNext ==
  \E data \in FittingData(book) :
    /\ report(data)
    /\ trades' = IF data.action = "T" THEN Append(trades, data.limit) ELSE trades
    /\ Len(trades') <= MaxTrades

HistorySpec == HistoryInit /\ [][HistoryNext]_historyVars

-----------------------------------------------------------------------------

\* The trades at the price of the last one, back to the last other price.
LastRun ==
  {i \in DOMAIN trades :
     \A j \in i .. Len(trades) : trades[j].price = Last(trades).price}

\* A trade line says the total quantity traded at the most recent trade price
\* since that became the price, also when trades went unreported for a while
\* because a side of the book was empty.
TradeLineIsTotal ==
  printed.kind = "trade" =>
    /\ printed.price = Last(trades).price
    /\ printed.qty = FoldFunctionOnSet(LAMBDA trade, sum : trade.qty + sum,
                                       0, trades, LastRun)

\* README (5)(e): "best sell order price at or below best buy order price, but
\* no trades occur"; test1.txt: "cross because trade will follow".  A message
\* that makes the cross is not yet a cross without trades.
NewCrossNotCounted == [][crosses' > crosses => Crossed(book)]_historyVars
=============================================================================
