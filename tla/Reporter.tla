------------------------------ MODULE Reporter ------------------------------
(***************************************************************************)
(* Reporter: a copy of the two deques, kept up to date by the Data that    *)
(* the feed pushes, and one line of output for each of them.  A step is    *)
(* one turn of the loop in main.cpp: processData, the periodic print of    *)
(* the whole book, printMidQuotesAndTrades.                                *)
(*                                                                         *)
(* The reporter is fed any Data that fits its deques: those are the Data   *)
(* that FeedHandler pushes (Pipeline checks that they fit).                *)
(***************************************************************************)
EXTENDS Limits

CONSTANTS
  Quantity,     \* the quantities of limits and trades
  BookPeriod,   \* 10: the literal that main.cpp compares the counter with
  MaxTraded,    \* bound on the quantity accumulated at one trade price
  MaxCrosses    \* bound on the counter of crosses

ASSUME ReporterAssumption ==
  /\ Quantity \subseteq Nat \ {0}
  /\ BookPeriod \in Nat

VARIABLES
  book,               \* bids_ and asks_ of the reporter
  currentTrade,       \* currentTrade_
  receivedNewTrade,   \* receivedNewTrade_
  detectCross,        \* detectCross_
  crosses,            \* errors.bestBidEqualOrUpperThanBestAsk
  counter,            \* counter, local to the thread
  bookPrinted,        \* did this turn call printCurrentOrderBook?
  printed             \* the line that this turn printed

vars == <<book, currentTrade, receivedNewTrade, detectCross, crosses, counter,
          bookPrinted, printed>>

\* What a line can say.  Lines are told apart by kind; a midquote is kept as
\* the sum of the two prices, which the code halves.
Line(kind, qty, price) == [kind |-> kind, qty |-> qty, price |-> price]

NAN == Line("NAN", 0, NoPrice)
TradeLine(trade) == Line("trade", trade.qty, trade.price)
CrossLine(bid, ask) == Line("cross", 0, bid + ask)
MidLine(bid, ask) == Line("mid", 0, bid + ask)
NoLine == Line("nothing", 0, NoPrice)
Start == Line("start", 0, NoPrice)    \* before the first event

Init ==
  /\ book = [side \in Side |-> << >>]
  /\ currentTrade = NoLimit
  /\ receivedNewTrade = FALSE
  /\ detectCross = FALSE
  /\ crosses = 0
  /\ counter = 0
  /\ bookPrinted = FALSE
  /\ printed = Start

-----------------------------------------------------------------------------

OneSided(b) == \E side \in Side : b[side] = << >>

\* Mutant: the bids read from the wrong end, as if sorted like the asks.
BestBid_WrongEnd(b) == Last(b["B"]).price

BestBid(b) == b["B"][1].price
BestAsk(b) == b["S"][1].price

Crossed(b) == ~OneSided(b) /\ BestBid(b) >= BestAsk(b)

\* Mutant: each trade replaces the current one.
treatTrade_Replaces(trade) == currentTrade' = trade

\* Quantities add up as long as trades come at the same price.
treatTrade(trade) ==
  /\ currentTrade' =
       IF trade.price = currentTrade.price
       THEN [currentTrade EXCEPT !.qty = @ + trade.qty]
       ELSE trade
  /\ currentTrade'.qty <= MaxTraded

processData(data) ==
  /\ book' = Replay(book, data)
  /\ IF data.action = "T" THEN treatTrade(data.limit)
                          ELSE UNCHANGED currentTrade

\* The five ways through printMidQuotesAndTrades, in the order of its tests.
\* "received" is receivedNewTrade_ as processData left it.
printNAN(received) ==
  /\ OneSided(book')
  /\ printed' = NAN
  /\ receivedNewTrade' = received
  /\ UNCHANGED <<detectCross, crosses>>

\* Mutant: the flag is not reset.
printTrade_KeepsFlag(received) ==
  /\ ~OneSided(book')
  /\ received
  /\ printed' = TradeLine(currentTrade')
  /\ receivedNewTrade' = TRUE
  /\ detectCross' = FALSE
  /\ UNCHANGED crosses

printTrade(received) ==
  /\ ~OneSided(book')
  /\ received
  /\ printed' = TradeLine(currentTrade')
  /\ receivedNewTrade' = FALSE
  /\ detectCross' = FALSE
  /\ UNCHANGED crosses

\* Mutant: the cross is noticed and forgotten.
noticeCross_Forgets(received) ==
  /\ Crossed(book')
  /\ ~received
  /\ ~detectCross
  /\ printed' = NoLine
  /\ UNCHANGED <<receivedNewTrade, detectCross, crosses>>

noticeCross(received) ==
  /\ Crossed(book')
  /\ ~received
  /\ ~detectCross
  /\ printed' = NoLine
  /\ detectCross' = TRUE
  /\ UNCHANGED <<receivedNewTrade, crosses>>

printCross(received) ==
  /\ Crossed(book')
  /\ ~received
  /\ detectCross
  /\ crosses < MaxCrosses
  /\ printed' = CrossLine(BestBid(book'), BestAsk(book'))
  /\ crosses' = crosses + 1
  /\ UNCHANGED <<receivedNewTrade, detectCross>>

printMidQuote(received) ==
  /\ ~OneSided(book')
  /\ ~received
  /\ ~Crossed(book')
  /\ printed' = MidLine(BestBid(book'), BestAsk(book'))
  /\ UNCHANGED <<receivedNewTrade, detectCross, crosses>>

printMidQuotesAndTrades(received) ==
  \/ printNAN(received)
  \/ printTrade(received)
  \/ noticeCross(received)
  \/ printCross(received)
  \/ printMidQuote(received)

\* Mutant: the counter is never reset.
countEvent_NoReset ==
  /\ bookPrinted' = (counter + 1 > BookPeriod)
  /\ counter' = counter + 1

\* ++counter, and every time it exceeds the literal, the whole book.
countEvent ==
  /\ bookPrinted' = (counter + 1 > BookPeriod)
  /\ counter' = IF counter + 1 > BookPeriod THEN 0 ELSE counter + 1

\* One turn of the loop of the reporter's thread.
report(data) ==
  /\ processData(data)
  /\ countEvent
  /\ printMidQuotesAndTrades(receivedNewTrade \/ data.action = "T")

-----------------------------------------------------------------------------
(* The Data that fit the deques b, as FeedHandler makes them.               *)

FittingData(b) ==
  LET limit == [qty : Quantity, price : Price]
  IN  (UNION {
        {Data("A", side, lower_bound(b[side], side, l.price), l) :
           l \in {x \in limit : \A i \in DOMAIN b[side] :
                                  b[side][i].price # x.price}}
        \cup {Data("X", side, i - 1, NoLimit) : i \in DOMAIN b[side]}
        \cup {Data("M", side, i - 1, [b[side][i] EXCEPT !.qty = q]) :
                i \in DOMAIN b[side], q \in Quantity}
        : side \in Side})
      \cup {Data("T", NoSide, 0, trade) : trade \in limit}

Next == \E data \in FittingData(book) : report(data)

Spec == Init /\ [][Next]_vars

-----------------------------------------------------------------------------
(* Properties.                                                              *)

TypeOK ==
  /\ book \in [Side -> Seq(Limit)]
  /\ currentTrade \in Limit \cup {NoLimit}
  /\ receivedNewTrade \in BOOLEAN
  /\ detectCross \in BOOLEAN
  /\ crosses \in Nat
  /\ counter \in 0 .. BookPeriod
  /\ bookPrinted \in BOOLEAN
  /\ printed \in [kind : {"NAN", "trade", "cross", "mid", "nothing", "start"},
                  qty : Nat, price : Nat]

\* A received trade waits for its line only while a side of the book is
\* empty: the first event that leaves the book two-sided reports it.
TradeWaitsForBook == receivedNewTrade => OneSided(book)

\* A midquote is the average of the best prices of the whole book, not just
\* of what the positions happened to put in front.
MidquoteOfBestPrices ==
  printed.kind = "mid" =>
    LET prices(side) == {book[side][i].price : i \in DOMAIN book[side]}
    IN  printed.price = Max(prices("B")) + Min(prices("S"))

\* A cross that lasts is counted: when an event that is not a trade leaves the
\* book crossed, and the line before was no trade but was itself about a
\* crossed book, the counter goes up.
LastingCrossIsCounted ==
  [][ /\ Crossed(book) /\ printed.kind # "trade"
      /\ Crossed(book') /\ printed'.kind # "trade"
      => crosses' = crosses + 1 ]_vars

=============================================================================
