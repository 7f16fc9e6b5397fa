--------------------------- MODULE ReporterProofs ---------------------------
(***************************************************************************)
(* What the reporter prints and counts, for any prices and quantities and  *)
(* any events that fit its deques; and its line of a trade against the     *)
(* history of trades that MCReporter keeps.                                *)
(***************************************************************************)
EXTENDS MCReporter, TLAPS, FiniteSetTheorems, SequenceTheorems

-----------------------------------------------------------------------------
(* Deques of limits: what FeedHandlerProofs shows of the operators of       *)
(* Limits, whatever there is in the book.                                   *)

Feed == INSTANCE FeedHandlerProofs WITH
  OrderId <- {}, MaxErrors <- 0,
  limits <- book, orders <- {}, errors <- {}, pushed <- NoData

\* What the proofs about the feed assume.
LEMMA FeedAssumes ==
  Feed!IsFiniteSet({}) /\ Price \subseteq Nat \ {0} /\ Quantity \subseteq Nat \ {0}
BY PriceAssumption, ReporterAssumption, FS_EmptySet DEF IsFiniteSet, Feed!IsFiniteSet

LEMMA SameInsert ==
  ASSUME NEW s, NEW i, NEW e
  PROVE  Feed!InsertAt(s, i, e) = InsertAt(s, i, e) /\ Feed!ReplaceAt(s, i, e) = ReplaceAt(s, i, e)
BY Zenon DEF Feed!InsertAt, InsertAt, Feed!ReplaceAt, ReplaceAt

LEMMA LeastNatural ==
  ASSUME NEW T \in SUBSET Nat, T # {}
  PROVE  \E m \in T : \A k \in T : m <= k
BY FeedAssumes, Feed!LeastNatural, Zenon

LEMMA CountTo ==
  ASSUME NEW n \in Nat
  PROVE  IsFiniteSet(1 .. n) /\ Cardinality(1 .. n) = n
BY FeedAssumes, Feed!CountTo, Zenon
   DEF IsFiniteSet, Feed!IsFiniteSet, Cardinality, Feed!Cardinality

LEMMA LimitPrices ==
  ASSUME NEW deque \in Seq(Limit)
  PROVE  /\ Len(deque) \in Nat
         /\ DOMAIN deque = 1 .. Len(deque)
         /\ \A i \in 1 .. Len(deque) :
              /\ deque[i] \in Limit
              /\ deque[i].price \in Price
              /\ deque[i].price \in Nat
              /\ deque[i].qty \in Nat \ {0}
BY FeedAssumes, Feed!LimitPrices, Zenon
   DEF Limit, Feed!Limit

LEMMA LowerBoundIsPlace ==
  ASSUME NEW side \in Side, NEW deque \in Seq(Limit), Sorted(deque, side),
         NEW price \in Price
  PROVE  /\ lower_bound(deque, side, price) \in 0 .. Len(deque)
         /\ \A i \in 1 .. Len(deque) :
              i <= lower_bound(deque, side, price)
                <=> Before(side, deque[i].price, price)
BY FeedAssumes, Feed!LowerBoundIsPlace, Zenon
   DEF Side, Feed!Side, Limit, Feed!Limit, Sorted, Feed!Sorted, lower_bound,
       Feed!lower_bound, Before, Feed!Before, Cardinality, Feed!Cardinality

LEMMA InsertAtPlace ==
  ASSUME NEW S, NEW s \in Seq(S), NEW e \in S, NEW pos \in 0 .. Len(s)
  PROVE  /\ InsertAt(s, pos + 1, e) \in Seq(S)
         /\ Len(InsertAt(s, pos + 1, e)) = Len(s) + 1
         /\ \A i \in 1 .. Len(s) + 1 :
              InsertAt(s, pos + 1, e)[i] = IF i <= pos THEN s[i]
                                           ELSE IF i = pos + 1 THEN e
                                           ELSE s[i - 1]
<1>. DEFINE new == Feed!InsertAt(s, pos + 1, e)
<1>1. /\ new \in Seq(S)
      /\ Len(new) = Len(s) + 1
      /\ \A i \in 1 .. Len(s) + 1 :
           new[i] = IF i <= pos THEN s[i] ELSE IF i = pos + 1 THEN e ELSE s[i - 1]
  BY FeedAssumes, Feed!InsertAtPlace
<1>2. new = InsertAt(s, pos + 1, e)
  BY SameInsert
<1>. HIDE DEF new
<1>. QED  BY <1>1, <1>2

LEMMA RemoveAtPlace ==
  ASSUME NEW S, NEW s \in Seq(S), NEW pos \in 0 .. Len(s) - 1
  PROVE  /\ RemoveAt(s, pos + 1) \in Seq(S)
         /\ Len(RemoveAt(s, pos + 1)) = Len(s) - 1
         /\ \A i \in 1 .. Len(s) - 1 :
              RemoveAt(s, pos + 1)[i] = IF i <= pos THEN s[i] ELSE s[i + 1]
BY FeedAssumes, Feed!RemoveAtPlace, Zenon
   DEF RemoveAt, Feed!RemoveAt

LEMMA ReplaceAtPlace ==
  ASSUME NEW S, NEW s \in Seq(S), NEW e \in S, NEW pos \in 0 .. Len(s) - 1
  PROVE  /\ ReplaceAt(s, pos + 1, e) \in Seq(S)
         /\ Len(ReplaceAt(s, pos + 1, e)) = Len(s)
         /\ \A i \in 1 .. Len(s) :
              ReplaceAt(s, pos + 1, e)[i] = IF i = pos + 1 THEN e ELSE s[i]
<1>. DEFINE new == Feed!ReplaceAt(s, pos + 1, e)
<1>1. /\ new \in Seq(S)
      /\ Len(new) = Len(s)
      /\ \A i \in 1 .. Len(s) : new[i] = IF i = pos + 1 THEN e ELSE s[i]
  BY FeedAssumes, Feed!ReplaceAtPlace
<1>2. new = ReplaceAt(s, pos + 1, e)
  BY SameInsert
<1>. HIDE DEF new
<1>. QED  BY <1>1, <1>2

LEMMA InsertKeepsSorted ==
  ASSUME NEW side \in Side, NEW deque \in Seq(Limit), Sorted(deque, side),
         NEW limit \in Limit,
         ~PriceIsAt(deque, lower_bound(deque, side, limit.price), limit.price)
  PROVE  Sorted(InsertAt(deque, lower_bound(deque, side, limit.price) + 1, limit),
                side)
BY FeedAssumes, Feed!InsertKeepsSorted, SameInsert, Zenon
   DEF Side, Feed!Side, Limit, Feed!Limit, Sorted, Feed!Sorted, lower_bound,
       Feed!lower_bound, Before, Feed!Before, Cardinality, Feed!Cardinality,
       PriceIsAt, Feed!PriceIsAt

LEMMA RemoveKeepsSorted ==
  ASSUME NEW side \in Side, NEW deque \in Seq(Limit), Sorted(deque, side),
         NEW pos \in 0 .. Len(deque) - 1
  PROVE  Sorted(RemoveAt(deque, pos + 1), side)
BY FeedAssumes, Feed!RemoveKeepsSorted, Zenon
   DEF Side, Feed!Side, Limit, Feed!Limit, Sorted, Feed!Sorted, Before,
       Feed!Before, RemoveAt, Feed!RemoveAt

LEMMA ReplaceKeepsSorted ==
  ASSUME NEW side \in Side, NEW deque \in Seq(Limit), Sorted(deque, side),
         NEW pos \in 0 .. Len(deque) - 1, NEW limit \in Limit,
         limit.price = deque[pos + 1].price
  PROVE  Sorted(ReplaceAt(deque, pos + 1, limit), side)
BY FeedAssumes, Feed!ReplaceKeepsSorted, SameInsert, Zenon
   DEF Side, Feed!Side, Limit, Feed!Limit, Sorted, Feed!Sorted, Before,
       Feed!Before

-----------------------------------------------------------------------------
(* The reporter.                                                            *)

\* Both deques are sorted, although the reporter never looks at a price to
\* place a limit.
SortedCopy == \A side \in Side : Sorted(book[side], side)

\* A crossed book has been noticed, unless the last line was a trade.
CrossIsNoticed ==
  Crossed(book) /\ printed.kind # "trade" => detectCross

IInv ==
  /\ TypeOK
  /\ SortedCopy
  /\ TradeWaitsForBook
  /\ CrossIsNoticed
  /\ MidquoteOfBestPrices

-----------------------------------------------------------------------------
(* The copy of the book.                                                    *)

\* Events that fit are of one of four forms.
LEMMA FittingDataForms ==
  ASSUME NEW b \in [Side -> Seq(Limit)], NEW data \in FittingData(b)
  PROVE  \/ \E side \in Side, limit \in Limit :
              /\ data = Data("A", side, lower_bound(b[side], side, limit.price), limit)
              /\ \A i \in DOMAIN b[side] : b[side][i].price # limit.price
         \/ \E side \in Side : \E i \in DOMAIN b[side] :
              data = Data("X", side, i - 1, NoLimit)
         \/ \E side \in Side : \E i \in DOMAIN b[side] : \E q \in Quantity :
              data = Data("M", side, i - 1, [b[side][i] EXCEPT !.qty = q])
         \/ \E trade \in Limit : data = Data("T", NoSide, 0, trade)
<1>1. [qty : Quantity, price : Price] \subseteq Limit
  BY ReporterAssumption DEF Limit
<1> DEFINE limit   == [qty : Quantity, price : Price]
           adds(side) ==
             {Data("A", side, lower_bound(b[side], side, l.price), l) :
                l \in {x \in limit : \A i \in DOMAIN b[side] :
                                       b[side][i].price # x.price}}
           cancels(side) == {Data("X", side, i - 1, NoLimit) : i \in DOMAIN b[side]}
           modified(side, i, q) ==
             Data("M", side, i - 1, [b[side][i] EXCEPT !.qty = q])
           modifies(side) ==
             {modified(side, i, q) : i \in DOMAIN b[side], q \in Quantity}
           dealt == {Data("T", NoSide, 0, trade) : trade \in limit}
<1>2. FittingData(b) =
        (UNION {adds(side) \cup cancels(side) \cup modifies(side) : side \in Side})
          \cup dealt
  BY DEF FittingData
<1>3. ASSUME NEW side \in Side, data \in adds(side)
      PROVE  \E l \in Limit :
               /\ data = Data("A", side, lower_bound(b[side], side, l.price), l)
               /\ \A i \in DOMAIN b[side] : b[side][i].price # l.price
  <2>1. PICK l \in {x \in limit : \A i \in DOMAIN b[side] :
                                  b[side][i].price # x.price} :
               data = Data("A", side, lower_bound(b[side], side, l.price), l)
    BY <1>3, Zenon
  <2>. QED  BY <2>1, <1>1, Zenon
<1>4. ASSUME NEW side \in Side, data \in cancels(side)
      PROVE  \E i \in DOMAIN b[side] : data = Data("X", side, i - 1, NoLimit)
  BY <1>4, Zenon
<1>5. ASSUME NEW side \in Side, data \in modifies(side)
      PROVE  \E i \in DOMAIN b[side] : \E q \in Quantity :
               data = Data("M", side, i - 1, [b[side][i] EXCEPT !.qty = q])
  <2>. HIDE DEF modified
  <2>1. \E i \in DOMAIN b[side] : \E q \in Quantity : data = modified(side, i, q)
    BY <1>5
  <2>. QED  BY <2>1 DEF modified
<1>6. ASSUME data \in dealt
      PROVE  \E trade \in Limit : data = Data("T", NoSide, 0, trade)
  BY <1>6, <1>1, Zenon
<1>7. \/ \E side \in Side : data \in adds(side) \/ data \in cancels(side)
                            \/ data \in modifies(side)
      \/ data \in dealt
  <2>. HIDE DEF adds, cancels, modifies, dealt
  <2>. QED  BY <1>2
<1>. HIDE DEF adds, cancels, modifies, dealt
<1>. QED  BY <1>3, <1>4, <1>5, <1>6, <1>7, Zenon

\* Replaying an event that fits changes at most one deque, and keeps it typed
\* and sorted.
LEMMA ReplayKeepsBook ==
  ASSUME NEW b \in [Side -> Seq(Limit)],
         \A side \in Side : Sorted(b[side], side),
         NEW data \in FittingData(b)
  PROVE  /\ Replay(b, data) \in [Side -> Seq(Limit)]
         /\ \A side \in Side : Sorted(Replay(b, data)[side], side)
<1>1. ASSUME NEW side \in Side, NEW limit \in Limit,
             data = Data("A", side, lower_bound(b[side], side, limit.price), limit),
             \A i \in DOMAIN b[side] : b[side][i].price # limit.price
      PROVE  /\ Replay(b, data) \in [Side -> Seq(Limit)]
             /\ \A s \in Side : Sorted(Replay(b, data)[s], s)
  <2> DEFINE pos == lower_bound(b[side], side, limit.price)
             new == InsertAt(b[side], pos + 1, limit)
  <2>1. Replay(b, data) = [b EXCEPT ![side] = new]
    BY <1>1 DEF Replay, Data
  <2>2. b[side] \in Seq(Limit) /\ Sorted(b[side], side) /\ limit.price \in Price
    BY DEF Limit
  <2>3. pos \in 0 .. Len(b[side])
    BY <2>2, LowerBoundIsPlace
  <2>4. new \in Seq(Limit)
    BY <2>2, <2>3, InsertAtPlace
  <2>5. ~PriceIsAt(b[side], pos, limit.price)
    <3>1. DOMAIN b[side] = 1 .. Len(b[side]) /\ Len(b[side]) \in Nat
      BY <2>2, LenProperties
    <3>. HIDE DEF pos
    <3>. QED  BY <1>1, <2>3, <3>1 DEF PriceIsAt
  <2>6. Sorted(new, side)
    BY <2>2, <2>5, InsertKeepsSorted
  <2>. HIDE DEF new
  <2>. QED  BY <2>1, <2>4, <2>6
<1>2. ASSUME NEW side \in Side, NEW i \in DOMAIN b[side],
             data = Data("X", side, i - 1, NoLimit)
      PROVE  /\ Replay(b, data) \in [Side -> Seq(Limit)]
             /\ \A s \in Side : Sorted(Replay(b, data)[s], s)
  <2> DEFINE pos == i - 1
             new == RemoveAt(b[side], pos + 1)
  <2>1. Replay(b, data) = [b EXCEPT ![side] = new]
    BY <1>2 DEF Replay, Data
  <2>2. b[side] \in Seq(Limit) /\ Sorted(b[side], side)
    OBVIOUS
  <2>3. pos \in 0 .. Len(b[side]) - 1
    BY <2>2, LenProperties
  <2>4. new \in Seq(Limit)
    BY <2>2, <2>3, RemoveAtPlace
  <2>5. Sorted(new, side)
    BY <2>2, <2>3, RemoveKeepsSorted
  <2>. HIDE DEF new
  <2>. QED  BY <2>1, <2>4, <2>5
<1>3. ASSUME NEW side \in Side, NEW i \in DOMAIN b[side], NEW q \in Quantity,
             data = Data("M", side, i - 1, [b[side][i] EXCEPT !.qty = q])
      PROVE  /\ Replay(b, data) \in [Side -> Seq(Limit)]
             /\ \A s \in Side : Sorted(Replay(b, data)[s], s)
  <2> DEFINE pos   == i - 1
             limit == [b[side][i] EXCEPT !.qty = q]
             new   == ReplaceAt(b[side], pos + 1, limit)
  <2>1. Replay(b, data) = [b EXCEPT ![side] = new]
    BY <1>3 DEF Replay, Data
  <2>2. b[side] \in Seq(Limit) /\ Sorted(b[side], side)
    OBVIOUS
  <2>3. pos \in 0 .. Len(b[side]) - 1 /\ i = pos + 1 /\ i \in 1 .. Len(b[side])
    BY <2>2, LenProperties
  <2>4. b[side][i] \in Limit
    BY <2>2, <2>3, ElementOfSeq
  <2>5. limit \in Limit /\ limit.price = b[side][pos + 1].price
    BY <2>3, <2>4, ReporterAssumption DEF Limit
  <2>. HIDE DEF limit
  <2>6. new \in Seq(Limit)
    BY <2>2, <2>3, <2>5, ReplaceAtPlace
  <2>7. Sorted(new, side)
    BY <2>2, <2>3, <2>5, ReplaceKeepsSorted
  <2>. HIDE DEF new
  <2>. QED  BY <2>1, <2>6, <2>7
<1>4. ASSUME NEW trade \in Limit, data = Data("T", NoSide, 0, trade)
      PROVE  /\ Replay(b, data) \in [Side -> Seq(Limit)]
             /\ \A s \in Side : Sorted(Replay(b, data)[s], s)
  BY <1>4 DEF Replay, Data
<1>5. \/ \E side \in Side, limit \in Limit :
           /\ data = Data("A", side, lower_bound(b[side], side, limit.price), limit)
           /\ \A i \in DOMAIN b[side] : b[side][i].price # limit.price
      \/ \E side \in Side : \E i \in DOMAIN b[side] :
           data = Data("X", side, i - 1, NoLimit)
      \/ \E side \in Side : \E i \in DOMAIN b[side] : \E q \in Quantity :
           data = Data("M", side, i - 1, [b[side][i] EXCEPT !.qty = q])
      \/ \E trade \in Limit : data = Data("T", NoSide, 0, trade)
  BY FittingDataForms
<1>6. CASE \E side \in Side, limit \in Limit :
             /\ data = Data("A", side, lower_bound(b[side], side, limit.price), limit)
             /\ \A i \in DOMAIN b[side] : b[side][i].price # limit.price
  BY <1>1, <1>6
<1>7. CASE \E side \in Side : \E i \in DOMAIN b[side] :
             data = Data("X", side, i - 1, NoLimit)
  BY <1>2, <1>7
<1>8. CASE \E side \in Side : \E i \in DOMAIN b[side] : \E q \in Quantity :
             data = Data("M", side, i - 1, [b[side][i] EXCEPT !.qty = q])
  BY <1>3, <1>8
<1>. QED  BY <1>4, <1>5, <1>6, <1>7, <1>8

\* On a sorted side the price in front is the best of all.
LEMMA BestIsInFront ==
  ASSUME NEW b \in [Side -> Seq(Limit)],
         \A side \in Side : Sorted(b[side], side), ~OneSided(b)
  PROVE  /\ BestBid(b) = Max({b["B"][i].price : i \in DOMAIN b["B"]})
         /\ BestAsk(b) = Min({b["S"][i].price : i \in DOMAIN b["S"]})
         /\ BestBid(b) \in Nat /\ BestAsk(b) \in Nat
<1>1. ASSUME NEW side \in Side
      PROVE  /\ 1 \in DOMAIN b[side]
             /\ \A i \in DOMAIN b[side] :
                  /\ b[side][i].price \in Nat
                  /\ i = 1 \/ Before(side, b[side][1].price, b[side][i].price)
  <2>1. b[side] \in Seq(Limit) /\ b[side] # << >> /\ Sorted(b[side], side)
    BY DEF OneSided
  <2>2. DOMAIN b[side] = 1 .. Len(b[side]) /\ Len(b[side]) \in Nat
    BY <2>1, LenProperties
  <2>3. Len(b[side]) # 0
    BY <2>1, EmptySeq
  <2>4. \A i \in 1 .. Len(b[side]) : b[side][i].price \in Nat
    BY <2>1, LimitPrices
  <2>5. \A i \in 1 .. Len(b[side]) :
          i = 1 \/ Before(side, b[side][1].price, b[side][i].price)
    BY <2>1, <2>2, <2>3 DEF Sorted
  <2>. QED  BY <2>2, <2>3, <2>4, <2>5
<1>2. BestBid(b) = Max({b["B"][i].price : i \in DOMAIN b["B"]})
  <2> DEFINE prices == {b["B"][i].price : i \in DOMAIN b["B"]}
  <2>1. /\ BestBid(b) \in prices /\ prices \subseteq Nat
        /\ \A p \in prices : BestBid(b) >= p
    BY <1>1, SMTT(30) DEF BestBid, Before, Side
  <2>. HIDE DEF prices
  <2>2. ASSUME NEW x \in prices, \A p \in prices : x >= p
        PROVE  x = BestBid(b)
    <3>1. x \in Nat /\ BestBid(b) \in Nat /\ x >= BestBid(b) /\ BestBid(b) >= x
      BY <2>1, <2>2
    <3>. QED  BY <3>1
  <2>3. Max(prices) = BestBid(b)
    BY <2>1, <2>2 DEF Max
  <2>. QED  BY <2>3 DEF prices
<1>3. BestAsk(b) = Min({b["S"][i].price : i \in DOMAIN b["S"]})
  <2> DEFINE prices == {b["S"][i].price : i \in DOMAIN b["S"]}
  <2>1. /\ BestAsk(b) \in prices /\ prices \subseteq Nat
        /\ \A p \in prices : BestAsk(b) <= p
    BY <1>1 DEF BestAsk, Before, Side
  <2>. HIDE DEF prices
  <2>2. ASSUME NEW x \in prices, \A p \in prices : x <= p
        PROVE  x = BestAsk(b)
    <3>1. x \in Nat /\ BestAsk(b) \in Nat /\ x <= BestAsk(b) /\ BestAsk(b) <= x
      BY <2>1, <2>2
    <3>. QED  BY <3>1
  <2>3. Min(prices) = BestAsk(b)
    BY <2>1, <2>2 DEF Min
  <2>. QED  BY <2>3 DEF prices
<1>4. BestBid(b) \in Nat /\ BestAsk(b) \in Nat
  BY <1>1 DEF BestBid, BestAsk, Side
<1>. QED  BY <1>2, <1>3, <1>4

-----------------------------------------------------------------------------
(* The invariant.                                                           *)

LEMMA InitIInv == Init => IInv
<1>. SUFFICES ASSUME Init PROVE IInv
  OBVIOUS
<1>1. \A side \in Side : book[side] = << >>
  BY DEF Init
<1>2. TypeOK
  <2>1. book \in [Side -> Seq(Limit)]
    BY DEF Init
  <2>2. counter \in 0 .. BookPeriod
    BY ReporterAssumption DEF Init
  <2>3. printed \in [kind : {"NAN", "trade", "cross", "mid", "nothing", "start"},
                    qty : Nat, price : Nat]
    BY DEF Init, Start, Line, NoPrice
  <2>. QED  BY <2>1, <2>2, <2>3 DEF Init, TypeOK
<1>3. SortedCopy
  BY <1>1 DEF SortedCopy, Sorted
<1>4. TradeWaitsForBook
  BY DEF Init, TradeWaitsForBook
<1>5. CrossIsNoticed
  BY <1>1 DEF CrossIsNoticed, Crossed, OneSided, Side
<1>6. MidquoteOfBestPrices
  BY DEF Init, MidquoteOfBestPrices, Start, Line
<1>. QED  BY <1>2, <1>3, <1>4, <1>5, <1>6 DEF IInv

\* The current trade is one that came, with a quantity that only grew.
LEMMA TradeKeepsType ==
  ASSUME currentTrade \in Limit \cup {NoLimit}, NEW trade \in Limit,
         treatTrade(trade)
  PROVE  currentTrade' \in Limit
<1>1. CASE trade.price = currentTrade.price
  <2>1. currentTrade \in Limit
    BY <1>1, PriceAssumption DEF Limit, NoLimit, NoPrice
  <2>2. currentTrade' = [currentTrade EXCEPT !.qty = @ + trade.qty]
    BY <1>1 DEF treatTrade
  <2>. QED  BY <2>1, <2>2 DEF Limit
<1>2. CASE trade.price # currentTrade.price
  BY <1>2 DEF treatTrade
<1>. QED  BY <1>1, <1>2

\* One turn of the loop.
LEMMA ReportKeepsIInv ==
  ASSUME IInv, NEW data \in FittingData(book), report(data)
  PROVE  IInv'
<1> DEFINE received == receivedNewTrade \/ data.action = "T"
<1>1. book' \in [Side -> Seq(Limit)] /\ SortedCopy'
  <2>1. book \in [Side -> Seq(Limit)] /\ \A side \in Side : Sorted(book[side], side)
    BY DEF IInv, TypeOK, SortedCopy
  <2>2. book' = Replay(book, data)
    BY DEF report, processData
  <2>. QED  BY <2>1, <2>2, ReplayKeepsBook DEF SortedCopy
<1>2. currentTrade' \in Limit \cup {NoLimit}
  <2>1. CASE data.action = "T"
    <3>1. book \in [Side -> Seq(Limit)]
      BY DEF IInv, TypeOK
    <3>2. data.limit \in Limit
      BY <2>1, <3>1, FittingDataForms DEF Data
    <3>3. treatTrade(data.limit)
      BY <2>1 DEF report, processData
    <3>. QED  BY <3>2, <3>3, TradeKeepsType DEF IInv, TypeOK
  <2>2. CASE data.action # "T"
    BY <2>2 DEF report, processData, IInv, TypeOK
  <2>. QED  BY <2>1, <2>2
<1>3. counter' \in 0 .. BookPeriod /\ bookPrinted' \in BOOLEAN
  BY ReporterAssumption DEF report, countEvent, IInv, TypeOK
<1>4. /\ received \in BOOLEAN /\ detectCross \in BOOLEAN /\ crosses \in Nat
      /\ printMidQuotesAndTrades(received)
  BY DEF report, IInv, TypeOK
<1>5. ~OneSided(book') =>
        /\ BestBid(book') = Max({book'["B"][i].price : i \in DOMAIN book'["B"]})
        /\ BestAsk(book') = Min({book'["S"][i].price : i \in DOMAIN book'["S"]})
        /\ BestBid(book') \in Nat /\ BestAsk(book') \in Nat
  <2>1. \A side \in Side : Sorted(book'[side], side)
    BY <1>1 DEF SortedCopy
  <2>. QED  BY <1>1, <2>1, BestIsInFront
<1> DEFINE printedType ==
             [kind : {"NAN", "trade", "cross", "mid", "nothing", "start"},
              qty : Nat, price : Nat]
           outcome ==
             /\ receivedNewTrade' \in BOOLEAN /\ detectCross' \in BOOLEAN
             /\ crosses' \in Nat /\ printed' \in printedType
             /\ TradeWaitsForBook' /\ CrossIsNoticed' /\ MidquoteOfBestPrices'
<1>. HIDE DEF received
<1>6. ASSUME printNAN(received) PROVE outcome
  <2>1. printed' = NAN /\ printed'.kind = "NAN" /\ printed' \in printedType
    BY <1>6 DEF printNAN, NAN, Line, NoPrice
  <2>2. OneSided(book') /\ receivedNewTrade' = received
        /\ UNCHANGED <<detectCross, crosses>>
    BY <1>6 DEF printNAN
  <2>. QED  BY <1>4, <2>1, <2>2 DEF TradeWaitsForBook, CrossIsNoticed,
                                    MidquoteOfBestPrices, Crossed
<1>7. ASSUME printTrade(received) PROVE outcome
  <2>1. currentTrade'.qty \in Nat /\ currentTrade'.price \in Nat
    <3>1. CASE currentTrade' \in Limit
      BY <3>1, PriceAssumption DEF Limit
    <3>2. CASE currentTrade' = NoLimit
      BY <3>2 DEF NoLimit, NoPrice
    <3>. QED  BY <1>2, <3>1, <3>2
  <2>2. printed' \in printedType /\ printed'.kind = "trade"
    BY <1>7, <2>1 DEF printTrade, TradeLine, Line
  <2>3. ~receivedNewTrade' /\ receivedNewTrade' \in BOOLEAN
        /\ detectCross' \in BOOLEAN /\ crosses' \in Nat
    BY <1>4, <1>7 DEF printTrade
  <2>. QED  BY <2>2, <2>3 DEF TradeWaitsForBook, CrossIsNoticed,
                              MidquoteOfBestPrices
<1>8. ASSUME noticeCross(received) PROVE outcome
  <2>1. printed' \in printedType /\ printed'.kind = "nothing"
    BY <1>8 DEF noticeCross, NoLine, Line, NoPrice
  <2>2. receivedNewTrade' = receivedNewTrade /\ detectCross' = TRUE
        /\ crosses' = crosses /\ ~received
    BY <1>8 DEF noticeCross
  <2>3. ~receivedNewTrade' /\ receivedNewTrade' \in BOOLEAN
    BY <2>2, Zenon DEF received, IInv, TypeOK
  <2>. QED  BY <1>4, <2>1, <2>2, <2>3 DEF TradeWaitsForBook, CrossIsNoticed,
                                          MidquoteOfBestPrices
<1>9. ASSUME printCross(received) PROVE outcome
  <2>1. ~OneSided(book')
    BY <1>9 DEF printCross, Crossed
  <2>2. printed' \in printedType /\ printed'.kind = "cross"
    BY <1>5, <1>9, <2>1 DEF printCross, CrossLine, Line
  <2>3. receivedNewTrade' = receivedNewTrade /\ detectCross' = detectCross
        /\ detectCross /\ crosses' = crosses + 1 /\ ~received
    BY <1>9 DEF printCross
  <2>4. ~receivedNewTrade' /\ receivedNewTrade' \in BOOLEAN
    BY <2>3, Zenon DEF received, IInv, TypeOK
  <2>. QED  BY <1>4, <2>2, <2>3, <2>4 DEF TradeWaitsForBook, CrossIsNoticed,
                                          MidquoteOfBestPrices
<1>10. ASSUME printMidQuote(received) PROVE outcome
  <2>1. ~OneSided(book') /\ ~Crossed(book') /\ ~received
        /\ receivedNewTrade' = receivedNewTrade /\ detectCross' = detectCross
        /\ crosses' = crosses
        /\ printed' = MidLine(BestBid(book'), BestAsk(book'))
    BY <1>10 DEF printMidQuote
  <2>2. printed' \in printedType
    BY <1>5, <2>1 DEF MidLine, Line
  <2>3. printed'.price = BestBid(book') + BestAsk(book')
    BY <2>1 DEF MidLine, Line
  <2>4. MidquoteOfBestPrices'
    BY <1>5, <2>1, <2>3, Zenon DEF MidquoteOfBestPrices
  <2>5. ~receivedNewTrade' /\ receivedNewTrade' \in BOOLEAN
    BY <2>1, Zenon DEF received, IInv, TypeOK
  <2>. QED  BY <1>4, <2>1, <2>2, <2>4, <2>5 DEF TradeWaitsForBook, CrossIsNoticed
<1>11. outcome
  <2>. HIDE DEF outcome
  <2>. QED  BY <1>4, <1>6, <1>7, <1>8, <1>9, <1>10 DEF printMidQuotesAndTrades
<1>. QED  BY <1>1, <1>2, <1>3, <1>11 DEF IInv, TypeOK

LEMMA NextKeepsIInv == IInv /\ [Next]_vars => IInv'
<1>. SUFFICES ASSUME IInv, [Next]_vars PROVE IInv'
  OBVIOUS
<1>1. CASE Next
  BY <1>1, ReportKeepsIInv DEF Next
<1>2. CASE UNCHANGED vars
  BY <1>2 DEF vars, IInv, TypeOK, SortedCopy, TradeWaitsForBook, CrossIsNoticed,
              MidquoteOfBestPrices, Crossed, OneSided, BestBid, BestAsk
<1>. QED  BY <1>1, <1>2

LEMMA InvariantHolds == Spec => []IInv
  BY InitIInv, NextKeepsIInv, PTL DEF Spec

-----------------------------------------------------------------------------
(* The theorems.                                                            *)

\* Everything that the reporter keeps and prints has its type (Reporter.h:22-25):
\* the counter of main.cpp:76 stays within its period.
THEOREM TypeIsOK == Spec => []TypeOK
<1>1. IInv => TypeOK
  BY DEF IInv
<1>. QED  BY <1>1, InvariantHolds, PTL

\* A trade waits for its line only while a side is empty (Reporter.cpp:62-71).
THEOREM TradesWaitForBook == Spec => []TradeWaitsForBook
<1>1. IInv => TradeWaitsForBook
  BY DEF IInv
<1>. QED  BY <1>1, InvariantHolds, PTL

\* A midquote is of the best prices of the copy (Reporter.cpp:72, :83), since
\* the positions that the feed computed keep it sorted.
THEOREM MidquotesAreOfBestPrices == Spec => []MidquoteOfBestPrices
<1>1. IInv => MidquoteOfBestPrices
  BY DEF IInv
<1>. QED  BY <1>1, InvariantHolds, PTL

\* A cross that lasts is counted (Reporter.cpp:72-80).
THEOREM LastingCrossesAreCounted == Spec => LastingCrossIsCounted
<1> DEFINE counted ==
             Crossed(book) /\ printed.kind # "trade"
             /\ Crossed(book') /\ printed'.kind # "trade"
             => crosses' = crosses + 1
<1>1. IInv /\ [Next]_vars => [counted]_vars
  <2>. SUFFICES ASSUME IInv, Next, Crossed(book), printed.kind # "trade",
                       Crossed(book'), printed'.kind # "trade"
                PROVE  crosses' = crosses + 1
    OBVIOUS
  <2>1. detectCross
    BY DEF IInv, CrossIsNoticed
  <2>2. PICK data \in FittingData(book) : report(data)
    BY DEF Next
  <2> DEFINE received == receivedNewTrade \/ data.action = "T"
  <2>3. printMidQuotesAndTrades(received)
    BY <2>2 DEF report
  <2>. HIDE DEF received
  <2>4. ~OneSided(book')
    BY DEF Crossed
  <2>5. ~printTrade(received)
    BY DEF printTrade, TradeLine, Line
  <2>. QED  BY <2>1, <2>3, <2>4, <2>5
            DEF printMidQuotesAndTrades, printNAN, noticeCross, printCross,
                printMidQuote
<1>. QED  BY <1>1, InvariantHolds, PTL DEF Spec, LastingCrossIsCounted

-----------------------------------------------------------------------------
(* Sums as numbers of units.                                                *)

\* A trade of quantity q has q units.
Units(deals, places) == UNION {{i} \X (1 .. deals[i].qty) : i \in places}

\* The sum of TradeLineIsTotal.
Sum(deals, places) ==
  FoldFunctionOnSet(LAMBDA trade, sum : trade.qty + sum, 0, deals, places)

LEMMA UnitsOfNone ==
  ASSUME NEW deals
  PROVE  IsFiniteSet(Units(deals, {})) /\ Cardinality(Units(deals, {})) = 0
<1>1. Units(deals, {}) = {}
  BY DEF Units
<1>. QED  BY <1>1, FS_EmptySet

\* One more trade adds its quantity.
LEMMA UnitsOfOneMore ==
  ASSUME NEW deals, NEW places, NEW i, i \notin places,
         deals[i].qty \in Nat,
         IsFiniteSet(Units(deals, places))
  PROVE  /\ IsFiniteSet(Units(deals, places \cup {i}))
         /\ Cardinality(Units(deals, places \cup {i})) =
              deals[i].qty + Cardinality(Units(deals, places))
<1>. DEFINE own  == {i} \X (1 .. deals[i].qty)
            rest == Units(deals, places)
            q    == deals[i].qty
<1>1. Units(deals, places \cup {i}) = rest \cup own
  BY DEF Units
<1>2. IsFiniteSet(own) /\ Cardinality(own) = q
  <2>1. IsFiniteSet({i}) /\ Cardinality({i}) = 1
    BY FS_Singleton
  <2>2. IsFiniteSet(1 .. q) /\ Cardinality(1 .. q) = q
    BY CountTo
  <2>3. IsFiniteSet(own) /\ Cardinality(own) = Cardinality({i}) * Cardinality(1 .. q)
    BY <2>1, <2>2, FS_Product
  <2>. QED  BY <2>1, <2>2, <2>3
<1>3. rest \cap own = {}
  BY DEF Units
<1>4. Cardinality(rest) \in Nat
  BY FS_CardinalityType
<1>. HIDE DEF own, rest
<1>5. /\ IsFiniteSet(rest \cup own)
      /\ Cardinality(rest \cup own) =
           Cardinality(rest) + Cardinality(own) - Cardinality(rest \cap own)
  BY <1>2, FS_Union DEF rest
<1>6. Cardinality(rest \cap own) = 0
  BY <1>3, FS_EmptySet
<1>7. Cardinality(rest \cup own) = q + Cardinality(rest)
  <2>1. q \in Nat
    OBVIOUS
  <2>. HIDE DEF q
  <2>. QED  BY <1>2, <1>4, <1>5, <1>6, <2>1
<1>. QED  BY <1>1, <1>5, <1>7 DEF rest

\* The units of a finite set of trades are finitely many.
LEMMA UnitsAreFinite ==
  ASSUME NEW deals, NEW places, IsFiniteSet(places),
         \A i \in places : deals[i].qty \in Nat
  PROVE  IsFiniteSet(Units(deals, places))
<1>. DEFINE own(i) == {i} \X (1 .. deals[i].qty)
            all == {own(i) : i \in places}
            f   == [i \in places |-> own(i)]
<1>1. f \in Surjection(places, all)
  BY DEF Surjection
<1>2. IsFiniteSet(all)
  BY <1>1, FS_Surjection
<1>3. ASSUME NEW i \in places
      PROVE  IsFiniteSet(own(i))
  <2>1. IsFiniteSet({i})
    BY FS_Singleton
  <2>2. IsFiniteSet(1 .. deals[i].qty)
    BY CountTo
  <2>. QED  BY <2>1, <2>2, FS_Product
<1>4. \A units \in all : IsFiniteSet(units)
  <2>. HIDE DEF own
  <2>. QED  BY <1>3
<1>5. IsFiniteSet(UNION all)
  <2>. HIDE DEF all
  <2>. QED  BY <1>2, <1>4, FS_UNION
<1>. QED  BY <1>5 DEF Units

\* The sum is the number of units, in whatever order the fold goes through
\* the trades.
LEMMA SumIsUnits ==
  ASSUME NEW deals, NEW places, IsFiniteSet(places),
         \A i \in places : deals[i].qty \in Nat
  PROVE  Sum(deals, places) = Cardinality(Units(deals, places))
<1>. DEFINE pick(s) == CHOOSE x \in s : TRUE
            Turn(g, s) == IF s = {} THEN 0
                                    ELSE deals[pick(s)].qty + g[s \ {pick(s)}]
            iter == CHOOSE g : g = [s \in SUBSET places |-> Turn(g, s)]
            f    == [s \in SUBSET places |-> Cardinality(Units(deals, s))]
            bad  == {s \in SUBSET places : iter[s] # f[s]}
            sizes == {Cardinality(s) : s \in bad}
<1>1. Sum(deals, places) = iter[places]
  BY DEF Sum, FoldFunctionOnSet, MapThenFoldSet
<1>2. ASSUME NEW s \in SUBSET places, s # {}
      PROVE  /\ pick(s) \in s /\ s \ {pick(s)} \in SUBSET places
             /\ f[s] = deals[pick(s)].qty + f[s \ {pick(s)}]
  <2>1. pick(s) \in s
    BY <1>2
  <2>. DEFINE x    == pick(s)
              rest == s \ {x}
  <2>. HIDE DEF x
  <2>2. /\ x \in s /\ x \in places /\ deals[x].qty \in Nat
        /\ rest \in SUBSET places /\ x \notin rest /\ rest \cup {x} = s
    BY <2>1 DEF x
  <2>3. IsFiniteSet(rest) /\ \A i \in rest : deals[i].qty \in Nat
    BY <2>2, FS_Subset
  <2>. HIDE DEF rest
  <2>4. IsFiniteSet(Units(deals, rest))
    BY <2>3, UnitsAreFinite
  <2>5. Cardinality(Units(deals, rest \cup {x})) =
          deals[x].qty + Cardinality(Units(deals, rest))
    BY <2>2, <2>4, UnitsOfOneMore
  <2>6. f[s] = deals[x].qty + f[rest]
    BY <2>2, <2>5
  <2>. QED  BY <2>2, <2>6 DEF x, rest
<1>3. f[{}] = 0
  BY UnitsOfNone
<1>. HIDE DEF f, pick
<1>4. f = [s \in SUBSET places |-> Turn(f, s)]
  <2>1. \A s \in SUBSET places : f[s] = Turn(f, s)
    BY <1>2, <1>3
  <2>2. f = [s \in SUBSET places |-> f[s]]
    BY DEF f
  <2>. HIDE DEF Turn
  <2>. QED  BY <2>1, <2>2
<1>5. iter = [s \in SUBSET places |-> Turn(iter, s)]
  <2>. HIDE DEF Turn
  <2>. QED  BY <1>4, Zenon
<1>. HIDE DEF iter
<1>6. ASSUME bad # {} PROVE FALSE
  <2>1. \A s \in SUBSET places : IsFiniteSet(s) /\ Cardinality(s) \in Nat
    BY FS_Subset, FS_CardinalityType
  <2>2. sizes \in SUBSET Nat /\ sizes # {}
    BY <1>6, <2>1
  <2>3. \E m \in sizes : \A k \in sizes : m <= k
    <3>. HIDE DEF sizes
    <3>. QED  BY <2>2, LeastNatural
  <2>4. PICK s \in bad : \A other \in bad : Cardinality(s) <= Cardinality(other)
    BY <2>3
  <2>5. s \in SUBSET places /\ iter[s] # f[s]
    OBVIOUS
  <2>6. s # {}
    BY <1>3, <1>5, <2>5
  <2>7. /\ pick(s) \in s /\ s \ {pick(s)} \in SUBSET places
        /\ f[s] = deals[pick(s)].qty + f[s \ {pick(s)}]
    BY <1>2, <2>5, <2>6
  <2>8. iter[s] = deals[pick(s)].qty + iter[s \ {pick(s)}]
    BY <1>5, <2>5, <2>6
  <2>9. ~(Cardinality(s) <= Cardinality(s \ {pick(s)}))
    <3>1. Cardinality(s \ {pick(s)}) = Cardinality(s) - 1
      BY <2>1, <2>5, <2>7, FS_RemoveElement
    <3>. QED  BY <2>1, <2>5, <3>1
  <2>10. iter[s \ {pick(s)}] = f[s \ {pick(s)}]
    BY <2>4, <2>7, <2>9
  <2>. QED  BY <2>5, <2>7, <2>8, <2>10
<1>7. iter[places] = f[places]
  BY <1>6
<1>. QED  BY <1>1, <1>7 DEF f

\* What the runs of trades need of sums.
LEMMA SumOfOne ==
  ASSUME NEW deals, NEW i, deals[i].qty \in Nat
  PROVE  Sum(deals, {i}) = deals[i].qty
<1>1. IsFiniteSet({i})
  BY FS_Singleton
<1>2. Sum(deals, {i}) = Cardinality(Units(deals, {i}))
  BY <1>1, SumIsUnits
<1>3. /\ IsFiniteSet(Units(deals, {})) /\ Cardinality(Units(deals, {})) = 0
  BY UnitsOfNone
<1>4. Cardinality(Units(deals, {} \cup {i})) = deals[i].qty + Cardinality(Units(deals, {}))
  BY <1>3, UnitsOfOneMore
<1>5. {} \cup {i} = {i}
  OBVIOUS
<1>. QED  BY <1>2, <1>3, <1>4, <1>5

LEMMA SumOfOneMore ==
  ASSUME NEW deals, NEW places, NEW i, i \notin places, IsFiniteSet(places),
         \A k \in places \cup {i} : deals[k].qty \in Nat
  PROVE  Sum(deals, places \cup {i}) = deals[i].qty + Sum(deals, places)
<1>1. IsFiniteSet(places \cup {i})
  BY FS_AddElement
<1>2. /\ Sum(deals, places) = Cardinality(Units(deals, places))
      /\ IsFiniteSet(Units(deals, places))
  BY SumIsUnits, UnitsAreFinite
<1>3. Sum(deals, places \cup {i}) = Cardinality(Units(deals, places \cup {i}))
  BY <1>1, SumIsUnits
<1>4. Cardinality(Units(deals, places \cup {i})) =
        deals[i].qty + Cardinality(Units(deals, places))
  <2>1. deals[i].qty \in Nat
    OBVIOUS
  <2>. QED  BY <1>2, <2>1, UnitsOfOneMore
<1>. QED  BY <1>2, <1>3, <1>4

\* A sum depends on the trades that it is over.
LEMMA SumOfSame ==
  ASSUME NEW deals, NEW others, NEW places, IsFiniteSet(places),
         \A k \in places : deals[k].qty \in Nat /\ others[k] = deals[k]
  PROVE  Sum(others, places) = Sum(deals, places)
<1>1. Units(others, places) = Units(deals, places)
  BY DEF Units
<1>2. Sum(deals, places) = Cardinality(Units(deals, places))
  BY SumIsUnits
<1>3. Sum(others, places) = Cardinality(Units(others, places))
  BY SumIsUnits
<1>. QED  BY <1>1, <1>2, <1>3

-----------------------------------------------------------------------------
(* The invariant.                                                           *)

\* The run at the end of a history.
RunOf(deals) ==
  {i \in DOMAIN deals :
     \A j \in i .. Len(deals) : deals[j].price = deals[Len(deals)].price}

\* The current trade is the sum of the last run, reported or not.
CurrentIsTotal ==
  IF trades = << >>
  THEN currentTrade = NoLimit /\ ~receivedNewTrade
  ELSE /\ currentTrade.price = trades[Len(trades)].price
       /\ currentTrade.qty = Sum(trades, RunOf(trades))

\* A trade line is that of the current trade.
LineIsCurrent ==
  printed.kind = "trade" => trades # << >> /\ printed = TradeLine(currentTrade)

HistoryIInv ==
  /\ IInv
  /\ trades \in Seq(Limit)
  /\ CurrentIsTotal
  /\ LineIsCurrent

LEMMA LimitsArePositive ==
  ASSUME NEW trade \in Limit
  PROVE  trade.qty \in Nat /\ trade.price \in Nat /\ trade.price # 0
BY PriceAssumption DEF Limit

\* How the run at the end changes with one more trade.
LEMMA RunGrows ==
  ASSUME NEW deals \in Seq(Limit), NEW trade \in Limit
  PROVE  LET more == Append(deals, trade)
             n    == Len(deals) + 1
         IN  /\ Len(more) = n /\ more \in Seq(Limit) /\ more[n] = trade
             /\ n \notin RunOf(deals) /\ IsFiniteSet(RunOf(deals))
             /\ \A k \in RunOf(deals) : deals[k] \in Limit /\ more[k] = deals[k]
             /\ deals # << >> /\ deals[Len(deals)].price = trade.price
                  => RunOf(more) = RunOf(deals) \cup {n}
             /\ deals = << >> \/ deals[Len(deals)].price # trade.price
                  => RunOf(more) = {n}
<1>. DEFINE more == Append(deals, trade)
            L    == Len(deals)
            n    == L + 1
<1>1. L \in Nat /\ DOMAIN deals = 1 .. L
  BY LenProperties
<1>2. /\ more \in Seq(Limit) /\ Len(more) = n /\ DOMAIN more = 1 .. n
      /\ \A k \in 1 .. L : more[k] = deals[k]
      /\ more[n] = trade
  BY AppendProperties, LenProperties
<1>3. \A k \in 1 .. L : deals[k] \in Limit
  BY ElementOfSeq
<1>4. deals # << >> => L \in 1 .. L
  BY <1>1, EmptySeq
<1>. HIDE DEF more
<1>5. /\ RunOf(deals) = {i \in 1 .. L : \A j \in i .. L : deals[j].price = deals[L].price}
      /\ RunOf(more) = {i \in 1 .. n : \A j \in i .. n : more[j].price = trade.price}
  BY <1>1, <1>2 DEF RunOf
<1>6. RunOf(deals) \subseteq 1 .. L /\ n \notin 1 .. L
  BY <1>1, <1>5
<1>7. IsFiniteSet(RunOf(deals))
  <2>1. IsFiniteSet(1 .. L)
    BY <1>1, CountTo
  <2>. QED  BY <1>6, <2>1, FS_Subset
<1>8. ASSUME deals # << >>, deals[L].price = trade.price
      PROVE  RunOf(more) = RunOf(deals) \cup {n}
  <2>1. ASSUME NEW i \in 1 .. L
        PROVE  i \in RunOf(more) <=> i \in RunOf(deals)
    <3>1. i \in 1 .. n /\ \A j : j \in i .. n <=> j \in i .. L \/ j = n
      BY <1>1
    <3>2. \A j \in i .. L : more[j].price = deals[j].price
      BY <1>1, <1>2
    <3>. QED  BY <1>2, <1>5, <1>8, <3>1, <3>2
  <2>2. n \in RunOf(more)
    <3>1. n \in 1 .. n /\ \A j \in n .. n : j = n
      BY <1>1
    <3>. QED  BY <1>2, <1>5, <3>1
  <2>3. \A i : i \in 1 .. n <=> i \in 1 .. L \/ i = n
    BY <1>1
  <2>. QED  BY <1>5, <1>6, <2>1, <2>2, <2>3
<1>9. ASSUME deals = << >> \/ deals[L].price # trade.price
      PROVE  RunOf(more) = {n}
  <2>1. ASSUME NEW i \in 1 .. L
        PROVE  i \notin RunOf(more)
    <3>1. L \in 1 .. L /\ L \in i .. n /\ deals # << >>
      BY <1>1
    <3>2. more[L].price # trade.price
      BY <1>2, <1>9, <3>1
    <3>. QED  BY <1>5, <3>1, <3>2
  <2>2. n \in RunOf(more)
    <3>1. n \in 1 .. n /\ \A j \in n .. n : j = n
      BY <1>1
    <3>. QED  BY <1>2, <1>5, <3>1
  <2>3. \A i : i \in 1 .. n <=> i \in 1 .. L \/ i = n
    BY <1>1
  <2>. QED  BY <1>5, <2>1, <2>2, <2>3
<1>. QED  BY <1>2, <1>3, <1>6, <1>7, <1>8, <1>9 DEF more

LEMMA InitHistoryIInv == HistoryInit => HistoryIInv
<1>. SUFFICES ASSUME HistoryInit PROVE HistoryIInv
  OBVIOUS
<1>1. IInv
  BY InitIInv DEF HistoryInit
<1>2. trades = << >> /\ currentTrade = NoLimit /\ receivedNewTrade = FALSE
      /\ printed.kind # "trade"
  BY DEF HistoryInit, Init, Start, Line
<1>3. trades \in Seq(Limit)
  BY <1>2, EmptySeq
<1>4. CurrentIsTotal /\ LineIsCurrent
  BY <1>2 DEF CurrentIsTotal, LineIsCurrent
<1>. QED  BY <1>1, <1>3, <1>4 DEF HistoryIInv

\* A trade becomes the current one or adds to it.
LEMMA TradeKeepsTotal ==
  ASSUME IInv, trades \in Seq(Limit), CurrentIsTotal,
         NEW trade \in Limit, treatTrade(trade),
         trades' = Append(trades, trade)
  PROVE  trades' \in Seq(Limit) /\ trades' # << >> /\ CurrentIsTotal'
<1>. DEFINE L    == Len(trades)
            n    == L + 1
            more == Append(trades, trade)
<1>1. /\ Len(more) = n /\ more \in Seq(Limit) /\ more[n] = trade
      /\ n \notin RunOf(trades) /\ IsFiniteSet(RunOf(trades))
      /\ \A k \in RunOf(trades) : trades[k] \in Limit /\ more[k] = trades[k]
      /\ trades # << >> /\ trades[L].price = trade.price
           => RunOf(more) = RunOf(trades) \cup {n}
      /\ trades = << >> \/ trades[L].price # trade.price
           => RunOf(more) = {n}
  BY RunGrows
<1>2. trade.qty \in Nat /\ trade.price \in Nat /\ trade.price # 0
  BY LimitsArePositive
<1>3. \A k \in RunOf(trades) : trades[k].qty \in Nat
  BY <1>1, LimitsArePositive
<1>4. L \in Nat
  BY LenProperties
<1>. HIDE DEF more, L
<1>5. more # << >>
  BY <1>1, <1>4, EmptySeq
<1>. DEFINE run == RunOf(trades)
<1>6. ASSUME trades # << >>, trades[L].price = trade.price
      PROVE  /\ currentTrade'.price = trade.price
             /\ currentTrade'.qty = Sum(more, RunOf(more))
  <2>1. /\ currentTrade.price = trade.price
        /\ currentTrade.qty = Sum(trades, RunOf(trades))
    BY <1>6 DEF CurrentIsTotal, L
  <2>2. currentTrade \in Limit
    BY <1>2, <2>1 DEF IInv, TypeOK, NoLimit, NoPrice
  <2>3. /\ currentTrade'.price = trade.price
        /\ currentTrade'.qty = currentTrade.qty + trade.qty
    <3>1. currentTrade' = [currentTrade EXCEPT !.qty = @ + trade.qty]
      BY <2>1 DEF treatTrade
    <3>. QED  BY <2>1, <2>2, <3>1 DEF Limit
  <2>4. Sum(more, run) = Sum(trades, run)
    <3>. HIDE DEF run
    <3>1. IsFiniteSet(run)
          /\ \A k \in run : trades[k].qty \in Nat /\ more[k] = trades[k]
      BY <1>1, <1>3 DEF run
    <3>. QED  BY <3>1, SumOfSame
  <2>5. Sum(more, run \cup {n}) = more[n].qty + Sum(more, run)
    <3>1. n \notin run /\ IsFiniteSet(run)
          /\ \A k \in run \cup {n} : more[k].qty \in Nat
      BY <1>1, <1>2, <1>3
    <3>. HIDE DEF run, n
    <3>. QED  BY <3>1, SumOfOneMore
  <2>6. currentTrade.qty \in Nat
    BY <2>2, LimitsArePositive
  <2>7. RunOf(more) = run \cup {n} /\ more[n] = trade
    BY <1>1, <1>6
  <2>. HIDE DEF n, run
  <2>8. Sum(more, RunOf(more)) = trade.qty + Sum(trades, run)
    BY <2>4, <2>5, <2>7
  <2>9. currentTrade.qty = Sum(trades, run)
    BY <2>1 DEF run
  <2>. QED  BY <1>2, <2>3, <2>6, <2>8, <2>9
<1>7. ASSUME trades = << >> \/ trades[L].price # trade.price
      PROVE  /\ currentTrade'.price = trade.price
             /\ currentTrade'.qty = Sum(more, RunOf(more))
  <2>1. trade.price # currentTrade.price
    <3>1. CASE trades = << >>
      BY <1>2, <3>1 DEF CurrentIsTotal, NoLimit, NoPrice
    <3>2. CASE trades # << >>
      BY <1>7, <3>2 DEF CurrentIsTotal, L
    <3>. QED  BY <3>1, <3>2
  <2>2. currentTrade' = trade
    BY <2>1 DEF treatTrade
  <2>3. RunOf(more) = {n} /\ more[n] = trade
    BY <1>1, <1>7
  <2>. HIDE DEF n
  <2>4. Sum(more, {n}) = more[n].qty
    BY <1>2, <2>3, SumOfOne
  <2>. QED  BY <2>2, <2>3, <2>4
<1>8. /\ currentTrade'.price = trade.price
      /\ currentTrade'.qty = Sum(more, RunOf(more))
  BY <1>6, <1>7
<1>9. trades' = more
  BY DEF more
<1>10. trades'[Len(trades')] = trade
  BY <1>1, <1>9
<1>11. currentTrade'.qty = Sum(trades', RunOf(trades'))
  BY <1>8, <1>9
<1>. QED  BY <1>1, <1>5, <1>8, <1>9, <1>10, <1>11 DEF CurrentIsTotal

\* A line of a trade says the current trade, and needs one to be received; the
\* mark of a received trade is set by nothing else.
LEMMA ReportedTrade ==
  ASSUME IInv, NEW data, report(data)
  PROVE  /\ printed'.kind = "trade" => printed' = TradeLine(currentTrade')
         /\ data.action # "T" =>
              /\ receivedNewTrade' => receivedNewTrade
              /\ printed'.kind = "trade" => receivedNewTrade
<1>. DEFINE received == receivedNewTrade \/ data.action = "T"
<1>1. printMidQuotesAndTrades(received)
  BY DEF report
<1>2. data.action # "T" => (received <=> receivedNewTrade)
  OBVIOUS
<1>3. receivedNewTrade \in BOOLEAN /\ received \in BOOLEAN
  BY DEF IInv, TypeOK
<1>. HIDE DEF received
<1>4. CASE printNAN(received)
  BY <1>2, <1>3, <1>4 DEF printNAN, NAN, Line
<1>5. CASE printTrade(received)
  BY <1>2, <1>3, <1>5 DEF printTrade
<1>6. CASE noticeCross(received)
  BY <1>6 DEF noticeCross, NoLine, Line
<1>7. CASE printCross(received)
  BY <1>7 DEF printCross, CrossLine, Line
<1>8. CASE printMidQuote(received)
  BY <1>8 DEF printMidQuote, MidLine, Line
<1>. QED  BY <1>1, <1>4, <1>5, <1>6, <1>7, <1>8 DEF printMidQuotesAndTrades

\* One turn of the loop: a trade is counted before a line is chosen, and a
\* line of a trade says what was counted.
LEMMA HistoryNextKeepsIInv ==
  HistoryIInv /\ [HistoryNext]_historyVars => HistoryIInv'
<1>. SUFFICES ASSUME HistoryIInv, [HistoryNext]_historyVars PROVE HistoryIInv'
  OBVIOUS
<1>1. CASE HistoryNext
  <2>1. PICK data \in FittingData(book) :
          /\ report(data)
          /\ trades' = IF data.action = "T" THEN Append(trades, data.limit)
                                            ELSE trades
    BY <1>1 DEF HistoryNext
  <2>2. IInv /\ IInv'
    BY <2>1, ReportKeepsIInv DEF HistoryIInv
  <2>3. CASE data.action = "T"
    <3>1. book \in [Side -> Seq(Limit)]
      BY DEF HistoryIInv, IInv, TypeOK
    <3>2. data.limit \in Limit
      BY <2>3, <3>1, FittingDataForms DEF Data
    <3>3. treatTrade(data.limit) /\ trades' = Append(trades, data.limit)
      BY <2>1, <2>3 DEF report, processData
    <3>4. trades' \in Seq(Limit) /\ trades' # << >> /\ CurrentIsTotal'
      BY <3>2, <3>3, TradeKeepsTotal DEF HistoryIInv
    <3>5. LineIsCurrent'
      BY <2>1, <2>2, <3>4, ReportedTrade DEF LineIsCurrent
    <3>. QED  BY <2>2, <3>4, <3>5 DEF HistoryIInv
  <2>4. CASE data.action # "T"
    <3>1. trades' = trades /\ currentTrade' = currentTrade
      BY <2>1, <2>4 DEF report, processData
    <3>2. /\ receivedNewTrade' => receivedNewTrade
          /\ printed'.kind = "trade" => receivedNewTrade
      BY <2>1, <2>2, <2>4, ReportedTrade
    <3>3. CurrentIsTotal'
      BY <3>1, <3>2 DEF HistoryIInv, CurrentIsTotal
    <3>4. LineIsCurrent'
      BY <2>1, <2>2, <3>1, <3>2, ReportedTrade
        DEF HistoryIInv, CurrentIsTotal, LineIsCurrent
    <3>. QED  BY <2>2, <3>1, <3>3, <3>4 DEF HistoryIInv
  <2>. QED  BY <2>3, <2>4
<1>2. CASE UNCHANGED historyVars
  <2>1. IInv'
    <3>1. UNCHANGED vars
      BY <1>2 DEF historyVars
    <3>. QED  BY <3>1, NextKeepsIInv DEF HistoryIInv
  <2>2. UNCHANGED <<trades, currentTrade, receivedNewTrade, printed>>
    BY <1>2 DEF historyVars, vars
  <2>. QED  BY <2>1, <2>2 DEF HistoryIInv, CurrentIsTotal, LineIsCurrent
<1>. QED  BY <1>1, <1>2
LEMMA HistoryInvariantHolds == HistorySpec => []HistoryIInv
  BY InitHistoryIInv, HistoryNextKeepsIInv, PTL DEF HistorySpec

-----------------------------------------------------------------------------
(* The theorems.                                                            *)

\* The record of trades adds nothing to the reporter: what is proved
\* of its specification holds with the record, too.
THEOREM HistoryIsAReporter == HistorySpec => Spec
<1>1. HistoryInit => Init
  BY DEF HistoryInit
<1>2. [HistoryNext]_historyVars => [Next]_vars
  BY DEF HistoryNext, Next, historyVars
<1>. QED  BY <1>1, <1>2, PTL DEF HistorySpec, Spec

\* A trade line says the total quantity traded at the price of the last trade
\* since that became the price (Reporter.cpp:46-55, :62-71), for any number of
\* trades, reported or not.
THEOREM TradeLinesAreTotals == HistorySpec => []TradeLineIsTotal
<1>1. HistoryIInv => TradeLineIsTotal
  <2>. SUFFICES ASSUME HistoryIInv, printed.kind = "trade"
                PROVE  /\ printed.price = Last(trades).price
                       /\ printed.qty = Sum(trades, LastRun)
    BY DEF TradeLineIsTotal, Sum
  <2>1. trades # << >> /\ printed = TradeLine(currentTrade)
    BY DEF HistoryIInv, LineIsCurrent
  <2>2. /\ currentTrade.price = trades[Len(trades)].price
        /\ currentTrade.qty = Sum(trades, RunOf(trades))
    BY <2>1 DEF HistoryIInv, CurrentIsTotal
  <2>3. Last(trades) = trades[Len(trades)] /\ LastRun = RunOf(trades)
    BY DEF LastRun, RunOf, Last
  <2>. QED  BY <2>1, <2>2, <2>3 DEF TradeLine, Line
<1>. QED  BY <1>1, HistoryInvariantHolds, PTL
=============================================================================
