--------------------------- MODULE PipelineProofs ---------------------------
(***************************************************************************)
(* The two ends of the queue, for any number of orders, quantities, prices *)
(* and messages: the pending events always lead from the reporter's deques *)
(* to the feed's.  As in Pipeline, the event that is taken is the one that *)
(* is read: of the program the theorems speak as long as no event is read  *)
(* after its node was freed and used again (queue_recycle).                *)
(***************************************************************************)
EXTENDS Pipeline, TLAPS, FiniteSetTheorems, SequenceTheorems

FP == INSTANCE FeedHandlerProofs

\* Of the reporter only the Data that fit are of interest here, and no record of
\* its trades.
RP == INSTANCE ReporterProofs WITH
  Quantity <- AggregatedQty, MaxTrades <- 0, trades <- << >>

-----------------------------------------------------------------------------
(* The constants.                                                           *)

MaxQty == Max(Quantity)

LEMMA MaxQtyIsLargest ==
  MaxQty \in Nat \ {0} /\ \A q \in Quantity : q <= MaxQty
<1>1. PICK q \in Quantity : \A r \in Quantity : r <= q
  BY PipelineAssumption
<1>2. q \in Quantity /\ \A r \in Quantity : q >= r
  BY <1>1, PipelineAssumption
<1>3. MaxQty \in Quantity /\ \A r \in Quantity : MaxQty >= r
  BY <1>2 DEF MaxQty, Max
<1>. QED  BY <1>3, PipelineAssumption

\* The quantities of the limits, whatever the messages.
LEMMA AggregatedQtyIs ==
  /\ MaxMessages * MaxQty \in Nat
  /\ AggregatedQty = 1 .. (MaxMessages * MaxQty)
  /\ AggregatedQty \subseteq Nat \ {0}
<1>1. MaxMessages * MaxQty \in Nat
  BY MaxQtyIsLargest, PipelineAssumption
<1>2. AggregatedQty = 1 .. (MaxMessages * MaxQty)
  BY DEF AggregatedQty, MaxQty
<1>. QED  BY <1>1, <1>2

\* What the proofs about the feed and about the reporter assume.
LEMMA ComponentsAssume ==
  /\ FP!IsFiniteSet(OrderId)
  /\ Price \subseteq Nat \ {0}
  /\ Quantity \subseteq Nat \ {0}
  /\ AggregatedQty \subseteq Nat \ {0}
  /\ BookPeriod \in Nat
BY PriceAssumption, PipelineAssumption, AggregatedQtyIs DEF IsFiniteSet, FP!IsFiniteSet

-----------------------------------------------------------------------------
(* Deques of limits: what FeedHandlerProofs shows of the operators of       *)
(* Limits.                                                                  *)

LEMMA SameInsert ==
  ASSUME NEW s, NEW i, NEW e
  PROVE  FP!InsertAt(s, i, e) = InsertAt(s, i, e) /\ FP!ReplaceAt(s, i, e) = ReplaceAt(s, i, e)
BY Zenon DEF FP!InsertAt, InsertAt, FP!ReplaceAt, ReplaceAt

LEMMA LeastNatural ==
  ASSUME NEW T \in SUBSET Nat, T # {}
  PROVE  \E m \in T : \A k \in T : m <= k
BY ComponentsAssume, FP!LeastNatural, Zenon

LEMMA CountTo ==
  ASSUME NEW n \in Nat
  PROVE  IsFiniteSet(1 .. n) /\ Cardinality(1 .. n) = n
BY ComponentsAssume, FP!CountTo, Zenon
   DEF IsFiniteSet, FP!IsFiniteSet, Cardinality, FP!Cardinality

LEMMA LimitPrices ==
  ASSUME NEW deque \in Seq(Limit)
  PROVE  /\ Len(deque) \in Nat
         /\ DOMAIN deque = 1 .. Len(deque)
         /\ \A i \in 1 .. Len(deque) :
              /\ deque[i] \in Limit
              /\ deque[i].price \in Price
              /\ deque[i].price \in Nat
              /\ deque[i].qty \in Nat \ {0}
BY ComponentsAssume, FP!LimitPrices, Zenon
   DEF Limit, FP!Limit

LEMMA InsertAtPlace ==
  ASSUME NEW S, NEW s \in Seq(S), NEW e \in S, NEW pos \in 0 .. Len(s)
  PROVE  /\ InsertAt(s, pos + 1, e) \in Seq(S)
         /\ Len(InsertAt(s, pos + 1, e)) = Len(s) + 1
         /\ \A i \in 1 .. Len(s) + 1 :
              InsertAt(s, pos + 1, e)[i] = IF i <= pos THEN s[i]
                                           ELSE IF i = pos + 1 THEN e
                                           ELSE s[i - 1]
<1>. DEFINE new == FP!InsertAt(s, pos + 1, e)
<1>1. /\ new \in Seq(S)
      /\ Len(new) = Len(s) + 1
      /\ \A i \in 1 .. Len(s) + 1 :
           new[i] = IF i <= pos THEN s[i] ELSE IF i = pos + 1 THEN e ELSE s[i - 1]
  BY ComponentsAssume, FP!InsertAtPlace
<1>2. new = InsertAt(s, pos + 1, e)
  BY SameInsert
<1>. HIDE DEF new
<1>. QED  BY <1>1, <1>2

LEMMA RemoveAtPlace ==
  ASSUME NEW S, NEW s \in Seq(S), NEW pos \in 0 .. Len(s) - 1
  PROVE  /\ RemoveAt(s, pos + 1) \in Seq(S)
         /\ Len(RemoveAt(s, pos + 1)) = Len(s) - 1
         /\ \A i \in 1 .. Len(s) - 1 :
              RemoveAt(s, pos + 1)[i] = IF i <= pos THEN s[i] ELSE s[i + 1]
BY ComponentsAssume, FP!RemoveAtPlace, Zenon
   DEF RemoveAt, FP!RemoveAt

LEMMA ReplaceAtPlace ==
  ASSUME NEW S, NEW s \in Seq(S), NEW e \in S, NEW pos \in 0 .. Len(s) - 1
  PROVE  /\ ReplaceAt(s, pos + 1, e) \in Seq(S)
         /\ Len(ReplaceAt(s, pos + 1, e)) = Len(s)
         /\ \A i \in 1 .. Len(s) :
              ReplaceAt(s, pos + 1, e)[i] = IF i = pos + 1 THEN e ELSE s[i]
<1>. DEFINE new == FP!ReplaceAt(s, pos + 1, e)
<1>1. /\ new \in Seq(S)
      /\ Len(new) = Len(s)
      /\ \A i \in 1 .. Len(s) : new[i] = IF i = pos + 1 THEN e ELSE s[i]
  BY ComponentsAssume, FP!ReplaceAtPlace
<1>2. new = ReplaceAt(s, pos + 1, e)
  BY SameInsert
<1>. HIDE DEF new
<1>. QED  BY <1>1, <1>2

-----------------------------------------------------------------------------
(* Feed and FP, Rep and RP: the same definitions, instantiated twice.       *)

LEMMA SameFeed ==
  /\ Feed!Init <=> FP!Init
  /\ Feed!processMessage <=> FP!processMessage
  /\ Feed!TypeOK <=> FP!TypeOK
BY Zenon
   DEF Feed!Side, FP!Side, Feed!NoSide, FP!NoSide, Feed!Limit, FP!Limit,
       Feed!NoPrice, FP!NoPrice, Feed!NoLimit, FP!NoLimit, Feed!Before,
       FP!Before, Feed!lower_bound, FP!lower_bound, Feed!PriceIsAt,
       FP!PriceIsAt, Feed!Data, FP!Data, Feed!NoData, FP!NoData,
       Feed!DataType, FP!DataType, Feed!InsertAt, FP!InsertAt,
       Feed!RemoveAt, FP!RemoveAt, Feed!ReplaceAt, FP!ReplaceAt,
       Feed!Cardinality, FP!Cardinality, Feed!ParsingErrors,
       FP!ParsingErrors, Feed!CriticalErrors, FP!CriticalErrors,
       Feed!Errors, FP!Errors, Feed!MessageOrder, FP!MessageOrder,
       Feed!Init, FP!Init, Feed!Live, FP!Live, Feed!LimitAt,
       FP!LimitAt, Feed!Refuse, FP!Refuse, Feed!ChangeLimit,
       FP!ChangeLimit, Feed!AddToLimits, FP!AddToLimits,
       Feed!WithOrder, FP!WithOrder, Feed!newOrder, FP!newOrder,
       Feed!Accepted, FP!Accepted, Feed!cancelRefusal,
       FP!cancelRefusal, Feed!Restrict, FP!Restrict, Feed!cancelOrder,
       FP!cancelOrder, Feed!modifyRefusal, FP!modifyRefusal,
       Feed!modifyOrder, FP!modifyOrder, Feed!forwardTrade,
       FP!forwardTrade, Feed!processMessage, FP!processMessage,
       Feed!TypeOK, FP!TypeOK

LEMMA SameReplay ==
  ASSUME NEW b, NEW data
  PROVE  Rep!Replay(b, data) = RP!Replay(b, data)
BY Zenon
   DEF Rep!InsertAt, RP!InsertAt, Rep!RemoveAt, RP!RemoveAt, Rep!ReplaceAt,
       RP!ReplaceAt, Rep!Replay, RP!Replay

LEMMA SameFittingData ==
  ASSUME NEW b
  PROVE  Rep!FittingData(b) = RP!FittingData(b)
<1>1. \A deque, side, price :
        Rep!lower_bound(deque, side, price) = RP!lower_bound(deque, side, price)
  BY Zenon DEF Rep!lower_bound, RP!lower_bound, Rep!Before, RP!Before,
               Rep!Cardinality, RP!Cardinality
<1>2. \A action, side, pos, limit :
        Rep!Data(action, side, pos, limit) = RP!Data(action, side, pos, limit)
  BY DEF Rep!Data, RP!Data
<1> DEFINE limit == [qty : AggregatedQty, price : Price]
           fresh(side) == {x \in limit : \A i \in DOMAIN b[side] :
                                           b[side][i].price # x.price}
           changed(side, i, q) == [b[side][i] EXCEPT !.qty = q]
<1> DEFINE all(data(_, _, _, _), bound(_, _, _), none) ==
             (UNION {
               {data("A", side, bound(b[side], side, l.price), l) : l \in fresh(side)}
               \cup {data("X", side, i - 1, none) : i \in DOMAIN b[side]}
               \cup {data("M", side, i - 1, changed(side, i, q)) :
                       i \in DOMAIN b[side], q \in AggregatedQty}
               : side \in Side})
             \cup {data("T", NoSide, 0, trade) : trade \in limit}
<1>3. Rep!FittingData(b) = all(Rep!Data, Rep!lower_bound, NoLimit)
  BY DEF Rep!FittingData, Rep!Side, Side, Rep!NoSide, NoSide,
         Rep!NoLimit, NoLimit, Rep!NoPrice, NoPrice
<1>4. RP!FittingData(b) = all(RP!Data, RP!lower_bound, NoLimit)
  BY DEF RP!FittingData, RP!Side, Side, RP!NoSide, NoSide,
         RP!NoLimit, NoLimit, RP!NoPrice, NoPrice
<1>. HIDE DEF changed
<1>5. all(Rep!Data, Rep!lower_bound, NoLimit) = all(RP!Data, RP!lower_bound, NoLimit)
  BY <1>1, <1>2, SMT
<1>. HIDE DEF all
<1>. QED  BY <1>3, <1>4, <1>5

LEMMA SameReport ==
  ASSUME NEW data
  PROVE  Rep!report(data) <=> RP!report(data)
BY SameReplay, Zenon
   DEF Rep!Line, RP!Line, Rep!NAN, RP!NAN, Rep!TradeLine, RP!TradeLine,
       Rep!CrossLine, RP!CrossLine, Rep!MidLine, RP!MidLine,
       Rep!NoLine, RP!NoLine, Rep!NoPrice, RP!NoPrice, Rep!OneSided,
       RP!OneSided, Rep!Side, RP!Side, Rep!BestBid, RP!BestBid,
       Rep!BestAsk, RP!BestAsk, Rep!Crossed, RP!Crossed,
       Rep!treatTrade, RP!treatTrade, Rep!processData, RP!processData,
       Rep!printNAN, RP!printNAN, Rep!printTrade, RP!printTrade,
       Rep!noticeCross, RP!noticeCross, Rep!printCross, RP!printCross,
       Rep!printMidQuote, RP!printMidQuote,
       Rep!printMidQuotesAndTrades, RP!printMidQuotesAndTrades,
       Rep!countEvent, RP!countEvent, Rep!report, RP!report

LEMMA SameReporter ==
  /\ Rep!Init <=> RP!Init
  /\ Rep!Next <=> RP!Next
  /\ Rep!vars = RP!vars
  /\ Rep!TypeOK <=> RP!TypeOK
<1>1. /\ Rep!Init <=> RP!Init
      /\ Rep!vars = RP!vars
      /\ Rep!TypeOK <=> RP!TypeOK
  BY Zenon
     DEF Rep!Side, RP!Side, Rep!NoPrice, RP!NoPrice, Rep!NoLimit, RP!NoLimit,
         Rep!Limit, RP!Limit, Rep!Line, RP!Line, Rep!Start, RP!Start,
         Rep!Init, RP!Init, Rep!vars, RP!vars, Rep!TypeOK, RP!TypeOK
<1>2. Rep!Next <=> RP!Next
  BY SameFittingData, SameReport, Zenon DEF Rep!Next, RP!Next
<1>. QED  BY <1>1, <1>2
-----------------------------------------------------------------------------
(* Events.                                                                  *)

Deques == [Side -> Seq(Limit)]

Bounded(b, most) == \A side \in Side : \A i \in DOMAIN b[side] : b[side][i].qty <= most

\* An event that the feed can push on the deques b, if no limit exceeds most
\* before and after it.
Event(b, most, data) ==
  \/ \E side \in Side, limit \in Limit :
       /\ limit.qty <= most
       /\ data = Data("A", side, lower_bound(b[side], side, limit.price), limit)
       /\ \A i \in DOMAIN b[side] : b[side][i].price # limit.price
  \/ \E side \in Side : \E i \in DOMAIN b[side] :
       data = Data("X", side, i - 1, NoLimit)
  \/ \E side \in Side : \E i \in DOMAIN b[side] : \E q \in Nat \ {0} :
       /\ q <= most
       /\ data = Data("M", side, i - 1, [b[side][i] EXCEPT !.qty = q])
  \/ \E trade \in Limit : trade.qty <= most /\ data = Data("T", NoSide, 0, trade)

LEMMA EventIsMonotone ==
  ASSUME NEW b, NEW data, NEW most \in Nat, NEW more \in Nat, most <= more,
         Event(b, most, data)
  PROVE  Event(b, more, data)
<1>1. \A q \in Nat : q <= most => q <= more
  OBVIOUS
<1>2. \A limit \in Limit : limit.qty \in Nat
  BY DEF Limit
<1>. QED  BY <1>1, <1>2, Zenon DEF Event

\* The reporter's specification admits every event of a feed that has read at
\* most MaxMessages lines.
LEMMA EventFits ==
  ASSUME NEW b, NEW data, Event(b, MaxMessages * MaxQty, data)
  PROVE  data \in Rep!FittingData(b)
<1> DEFINE most  == MaxMessages * MaxQty
           limit == [qty : AggregatedQty, price : Price]
           fresh(side) == {x \in limit : \A i \in DOMAIN b[side] :
                                           b[side][i].price # x.price}
           changed(side, i, q) == [b[side][i] EXCEPT !.qty = q]
           adds(side) == {Data("A", side, lower_bound(b[side], side, l.price), l) :
                            l \in fresh(side)}
           cancels(side) == {Data("X", side, i - 1, NoLimit) : i \in DOMAIN b[side]}
           modifies(side) == {Data("M", side, i - 1, changed(side, i, q)) :
                                i \in DOMAIN b[side], q \in AggregatedQty}
           trades == {Data("T", NoSide, 0, trade) : trade \in limit}
<1>1. Rep!FittingData(b) =
        (UNION {adds(side) \cup cancels(side) \cup modifies(side) : side \in Side})
        \cup trades
  <2>1. \A deque, side, price :
          Rep!lower_bound(deque, side, price) = lower_bound(deque, side, price)
    BY Zenon DEF Rep!lower_bound, lower_bound, Rep!Before, Before,
                 Rep!Cardinality, Cardinality
  <2>2. \A action, side, pos, l : Rep!Data(action, side, pos, l) = Data(action, side, pos, l)
    BY DEF Rep!Data, Data
  <2> DEFINE all(data_(_, _, _, _), bound(_, _, _)) ==
               (UNION {
                 {data_("A", side, bound(b[side], side, l.price), l) : l \in fresh(side)}
                 \cup {data_("X", side, i - 1, NoLimit) : i \in DOMAIN b[side]}
                 \cup {data_("M", side, i - 1, changed(side, i, q)) :
                         i \in DOMAIN b[side], q \in AggregatedQty}
                 : side \in Side})
               \cup {data_("T", NoSide, 0, trade) : trade \in limit}
  <2>3. Rep!FittingData(b) = all(Rep!Data, Rep!lower_bound)
    BY DEF Rep!FittingData, Rep!Side, Side, Rep!NoSide, NoSide,
           Rep!NoLimit, NoLimit, Rep!NoPrice, NoPrice
  <2>. HIDE DEF changed
  <2>4. all(Rep!Data, Rep!lower_bound) = all(Data, lower_bound)
    BY <2>1, <2>2, SMT
  <2>. HIDE DEF all
  <2>5. Rep!FittingData(b) = all(Data, lower_bound)
    BY <2>3, <2>4
  <2>. QED  BY <2>5 DEF all
<1>2. \A q \in Nat \ {0} : q <= most => q \in AggregatedQty
  BY AggregatedQtyIs
<1>3. \A l \in Limit : l.qty <= most => l \in limit
  <2>1. \A l \in Limit : l.qty \in Nat \ {0} /\ l.price \in Price
                         /\ l = [qty |-> l.qty, price |-> l.price]
    BY DEF Limit
  <2>. QED  BY <1>2, <2>1
<1>4. ASSUME NEW side \in Side, NEW l \in Limit, l.qty <= most,
             data = Data("A", side, lower_bound(b[side], side, l.price), l),
             \A i \in DOMAIN b[side] : b[side][i].price # l.price
      PROVE  data \in adds(side)
  <2>1. l \in fresh(side)
    BY <1>3, <1>4
  <2>. QED  BY <1>4, <2>1, Zenon
<1>5. ASSUME NEW side \in Side, NEW i \in DOMAIN b[side],
             data = Data("X", side, i - 1, NoLimit)
      PROVE  data \in cancels(side)
  BY <1>5, Zenon
<1>6. ASSUME NEW side \in Side, NEW i \in DOMAIN b[side], NEW q \in Nat \ {0},
             q <= most, data = Data("M", side, i - 1, [b[side][i] EXCEPT !.qty = q])
      PROVE  data \in modifies(side)
  <2>1. q \in AggregatedQty /\ data = Data("M", side, i - 1, changed(side, i, q))
    BY <1>2, <1>6
  <2>. HIDE DEF changed
  <2>. QED  BY <2>1, SMT
<1>7. ASSUME NEW trade \in Limit, trade.qty <= most,
             data = Data("T", NoSide, 0, trade)
      PROVE  data \in trades
  BY <1>3, <1>7, Zenon
<1>8. \/ \E side \in Side : \/ data \in adds(side)
                            \/ data \in cancels(side)
                            \/ data \in modifies(side)
      \/ data \in trades
  <2>. HIDE DEF adds, cancels, modifies, trades
  <2>. QED  BY <1>4, <1>5, <1>6, <1>7, Zenon DEF Event
<1>. HIDE DEF adds, cancels, modifies, trades
<1>. QED  BY <1>1, <1>8

\* An event makes no limit larger than the event's own.
LEMMA EventKeepsBound ==
  ASSUME NEW b \in Deques, NEW most \in Nat, Bounded(b, most),
         NEW data, Event(b, most, data), InRange(b, data)
  PROVE  Bounded(Replay(b, data), most)
<1>1. ASSUME NEW side \in Side, NEW deque,
             \A i \in DOMAIN deque : deque[i].qty <= most
      PROVE  Bounded([b EXCEPT ![side] = deque], most)
  BY <1>1 DEF Bounded, Deques
<1>2. \A side \in Side : /\ b[side] \in Seq(Limit)
                         /\ Len(b[side]) \in Nat
                         /\ DOMAIN b[side] = 1 .. Len(b[side])
                         /\ \A i \in 1 .. Len(b[side]) : b[side][i] \in Limit
                                                         /\ b[side][i].qty <= most
  BY LimitPrices DEF Deques, Bounded
<1>3. CASE \E side \in Side, limit \in Limit :
             /\ limit.qty <= most
             /\ data = Data("A", side, lower_bound(b[side], side, limit.price), limit)
  <2>1. PICK side \in Side, limit \in Limit :
               /\ limit.qty <= most
               /\ data = Data("A", side, lower_bound(b[side], side, limit.price), limit)
    BY <1>3
  <2> DEFINE pos == lower_bound(b[side], side, limit.price)
             new == InsertAt(b[side], pos + 1, limit)
  <2>2. Replay(b, data) = [b EXCEPT ![side] = new]
    BY <2>1 DEF Replay, Data
  <2>3. pos <= Len(b[side])
    BY <2>1 DEF InRange, Data
  <2>4. pos \in Nat
    <3>1. IsFiniteSet(DOMAIN b[side])
      BY <1>2, CountTo
    <3>2. IsFiniteSet({i \in DOMAIN b[side] : Before(side, b[side][i].price, limit.price)})
      BY <3>1, FS_Subset
    <3>. QED  BY <3>2, FS_CardinalityType DEF lower_bound
  <2>5. pos \in 0 .. Len(b[side])
    BY <1>2, <2>3, <2>4
  <2>. HIDE DEF pos
  <2>6. /\ new \in Seq(Limit) /\ Len(new) = Len(b[side]) + 1
        /\ \A i \in 1 .. Len(b[side]) + 1 :
             new[i] = IF i <= pos THEN b[side][i]
                      ELSE IF i = pos + 1 THEN limit ELSE b[side][i - 1]
    <3> DEFINE deque == b[side]
    <3>1. deque \in Seq(Limit) /\ pos \in 0 .. Len(deque)
      BY <1>2, <2>5
    <3>. HIDE DEF deque
    <3>2. /\ InsertAt(deque, pos + 1, limit) \in Seq(Limit)
          /\ Len(InsertAt(deque, pos + 1, limit)) = Len(deque) + 1
          /\ \A i \in 1 .. Len(deque) + 1 :
               InsertAt(deque, pos + 1, limit)[i]
                 = IF i <= pos THEN deque[i]
                   ELSE IF i = pos + 1 THEN limit ELSE deque[i - 1]
      BY <3>1, InsertAtPlace
    <3>. QED  BY <3>2 DEF deque
  <2>7. DOMAIN new = 1 .. Len(b[side]) + 1
    BY <2>6, LimitPrices
  <2>. HIDE DEF new
  <2>8. \A i \in DOMAIN new : new[i].qty <= most
    BY <1>2, <2>1, <2>5, <2>6, <2>7, SMTT(30)
  <2>. QED  BY <1>1, <2>2, <2>8
<1>4. CASE \E side \in Side : \E i \in DOMAIN b[side] :
             data = Data("X", side, i - 1, NoLimit)
  <2>0. PICK side \in Side : \E i \in DOMAIN b[side] :
               data = Data("X", side, i - 1, NoLimit)
    BY <1>4
  <2>1. PICK i \in DOMAIN b[side] : data = Data("X", side, i - 1, NoLimit)
    BY <2>0
  <2> DEFINE pos == i - 1
             new == RemoveAt(b[side], pos + 1)
  <2>2. Replay(b, data) = [b EXCEPT ![side] = new]
    BY <2>1 DEF Replay, Data
  <2>3. pos \in 0 .. Len(b[side]) - 1
    BY <1>2
  <2>. HIDE DEF pos
  <2>4. /\ new \in Seq(Limit) /\ Len(new) = Len(b[side]) - 1
        /\ \A k \in 1 .. Len(b[side]) - 1 :
             new[k] = IF k <= pos THEN b[side][k] ELSE b[side][k + 1]
    BY <1>2, <2>3, RemoveAtPlace, ZenonT(60)
  <2>5. DOMAIN new = 1 .. Len(b[side]) - 1
    BY <2>4, LimitPrices
  <2>. HIDE DEF new
  <2>6. \A k \in DOMAIN new : new[k].qty <= most
    BY <1>2, <2>3, <2>4, <2>5, SMTT(30)
  <2>. QED  BY <1>1, <2>2, <2>6
<1>5. CASE \E side \in Side : \E i \in DOMAIN b[side] : \E q \in Nat \ {0} :
             /\ q <= most
             /\ data = Data("M", side, i - 1, [b[side][i] EXCEPT !.qty = q])
  <2>0. PICK side \in Side : \E i \in DOMAIN b[side] : \E q \in Nat \ {0} :
               /\ q <= most
               /\ data = Data("M", side, i - 1, [b[side][i] EXCEPT !.qty = q])
    BY <1>5
  <2>1. PICK i \in DOMAIN b[side], q \in Nat \ {0} :
               /\ q <= most
               /\ data = Data("M", side, i - 1, [b[side][i] EXCEPT !.qty = q])
    BY <2>0
  <2> DEFINE pos   == i - 1
             limit == [b[side][i] EXCEPT !.qty = q]
             new   == ReplaceAt(b[side], pos + 1, limit)
  <2>2. Replay(b, data) = [b EXCEPT ![side] = new]
    BY <2>1 DEF Replay, Data
  <2>3. pos \in 0 .. Len(b[side]) - 1
    BY <1>2
  <2>4. limit \in Limit /\ limit.qty <= most
    <3>1. b[side][i] \in Limit
      BY <1>2
    <3>. QED  BY <2>1, <3>1 DEF Limit
  <2>. HIDE DEF pos, limit
  <2>5. /\ new \in Seq(Limit) /\ Len(new) = Len(b[side])
        /\ \A k \in 1 .. Len(b[side]) :
             new[k] = IF k = pos + 1 THEN limit ELSE b[side][k]
    BY <1>2, <2>3, <2>4, ReplaceAtPlace
  <2>6. DOMAIN new = 1 .. Len(b[side])
    BY <2>5, LimitPrices
  <2>. HIDE DEF new
  <2>7. \A k \in DOMAIN new : new[k].qty <= most
    BY <1>2, <2>4, <2>5, <2>6
  <2>. QED  BY <1>1, <2>2, <2>7
<1>6. CASE \E trade \in Limit : data = Data("T", NoSide, 0, trade)
  BY <1>6 DEF Replay, Data
<1>. QED  BY <1>3, <1>4, <1>5, <1>6 DEF Event
-----------------------------------------------------------------------------
(* The feed's step.                                                         *)

\* What FP says, in the words of this module.
LEMMA FeedVocabulary ==
  /\ FP!Side = Side /\ FP!Limit = Limit /\ FP!NoData = NoData /\ FP!DataType = DataType
  /\ FP!NoSide = NoSide /\ FP!NoLimit = NoLimit
  /\ FP!MessageOrder = [qty : Quantity, price : Price]
  /\ \A action, side, pos, limit : FP!Data(action, side, pos, limit) = Data(action, side, pos, limit)
  /\ \A deque, side, price :
       FP!lower_bound(deque, side, price) = lower_bound(deque, side, price)
<1>1. \A deque, side, price :
        FP!lower_bound(deque, side, price) = lower_bound(deque, side, price)
  BY Zenon DEF FP!lower_bound, lower_bound, FP!Before, Before, FP!Cardinality, Cardinality
<1>2. FP!Side = Side /\ FP!NoSide = NoSide /\ FP!NoLimit = NoLimit /\ FP!Limit = Limit
  BY DEF FP!Side, Side, FP!NoSide, NoSide, FP!NoLimit, NoLimit, FP!NoPrice, NoPrice,
         FP!Limit, Limit
<1>3. \A action, side, pos, limit : FP!Data(action, side, pos, limit) = Data(action, side, pos, limit)
  BY DEF FP!Data, Data
<1>4. FP!NoData = NoData /\ FP!DataType = DataType
  BY <1>2, <1>3 DEF FP!NoData, NoData, FP!DataType, DataType
<1>. QED  BY <1>1, <1>2, <1>3, <1>4 DEF FP!MessageOrder

LEMMA SameReplays ==
  /\ \A b, data : FP!Replay(b, data) = Replay(b, data)
  /\ \A b, data : FP!InRange(b, data) <=> InRange(b, data)
<1>1. \A b, data : FP!Replay(b, data) = Replay(b, data)
  BY Zenon DEF FP!Replay, Replay, FP!InsertAt, InsertAt, FP!RemoveAt, RemoveAt,
               FP!ReplaceAt, ReplaceAt
<1>2. \A b, data : FP!InRange(b, data) <=> InRange(b, data)
  BY DEF FP!InRange, InRange
<1>. QED  BY <1>1, <1>2

FeedTyped == limits \in Deques /\ pushed \in DataType

LEMMA FeedDeques == FP!IInv => FeedTyped
<1>. SUFFICES ASSUME FP!IInv PROVE FeedTyped
  OBVIOUS
<1>1. limits = [side \in Side |-> limits[side]] /\ \A side \in Side : limits[side] \in Seq(Limit)
  BY FeedVocabulary DEF FP!IInv, FP!Consistent
<1>. QED  BY <1>1, FeedVocabulary DEF FP!IInv, Deques, FeedTyped

LEMMA NextFeedDeques == FP!IInv' => FeedTyped'
BY FeedDeques, PTL

\* A message changes the deques as its event says, and the event's quantity is
\* at most one message's more than any that the deques had.
LEMMA FeedStep ==
  ASSUME FP!IInv, Feed!processMessage, NEW most \in Nat, Bounded(limits, most)
  PROVE  /\ FP!IInv'
         /\ InRange(limits, pushed') /\ limits' = Replay(limits, pushed')
         /\ pushed' # NoData => Event(limits, most + MaxQty, pushed')
<1>1. FP!processMessage
  BY SameFeed
<1>2. FP!IInv' /\ FP!Replays
  BY <1>1, ComponentsAssume, FP!MessageIsSafe
<1>3. InRange(limits, pushed') /\ limits' = Replay(limits, pushed')
  BY <1>2, SameReplays DEF FP!Replays
<1>4. FP!EventForm(pushed')
  BY <1>1, ComponentsAssume, FP!EventHasForm
<1> DEFINE data == pushed'
           more == most + MaxQty
<1>5. MaxQty \in Nat /\ more \in Nat /\ \A q \in Quantity : q \in Nat \ {0} /\ q <= more
  BY MaxQtyIsLargest, PipelineAssumption
<1>6. \A order \in FP!MessageOrder : order \in Limit /\ order.qty <= more
  BY <1>5, FeedVocabulary DEF Limit
<1>7. \A side \in Side : \A i \in DOMAIN limits[side] :
        limits[side][i].qty \in Nat /\ limits[side][i].qty <= most
  BY FeedDeques, LimitPrices DEF FeedTyped, Deques, Bounded
<1>8. ASSUME data # NoData
      PROVE  Event(limits, more, data)
  <2>1. CASE \E side \in FP!Side, order \in FP!MessageOrder :
               /\ data = FP!Data("A", side, FP!lower_bound(limits[side], side, order.price), order)
               /\ \A i \in DOMAIN limits[side] : limits[side][i].price # order.price
    <3>. HIDE DEF data, more
    <3>. QED  BY <2>1, <1>6, FeedVocabulary, Zenon DEF Event
  <2>2. CASE \E side \in FP!Side : \E i \in DOMAIN limits[side] :
               data = FP!Data("X", side, i - 1, FP!NoLimit)
    <3>. HIDE DEF data, more
    <3>. QED  BY <2>2, FeedVocabulary, Zenon DEF Event
  <2>3. CASE \E side \in FP!Side : \E i \in DOMAIN limits[side] : \E q \in Nat \ {0} :
               /\ data = FP!Data("M", side, i - 1, [limits[side][i] EXCEPT !.qty = q])
               /\ \E added \in Quantity : q <= limits[side][i].qty + added
    <3>1. PICK side \in Side : \E i \in DOMAIN limits[side] : \E q \in Nat \ {0} :
                 /\ data = Data("M", side, i - 1, [limits[side][i] EXCEPT !.qty = q])
                 /\ \E added \in Quantity : q <= limits[side][i].qty + added
      <4>. HIDE DEF data
      <4>. QED  BY <2>3, FeedVocabulary, Zenon
    <3>2. PICK i \in DOMAIN limits[side], q \in Nat \ {0} :
                 /\ data = Data("M", side, i - 1, [limits[side][i] EXCEPT !.qty = q])
                 /\ \E added \in Quantity : q <= limits[side][i].qty + added
      <4>. HIDE DEF data
      <4>. QED  BY <3>1, Zenon
    <3>3. PICK added \in Quantity : q <= limits[side][i].qty + added
      BY <3>2
    <3>4. added \in Nat /\ added <= MaxQty
      BY MaxQtyIsLargest, PipelineAssumption
    <3>5. limits[side][i].qty \in Nat /\ limits[side][i].qty <= most
      BY <1>7
    <3>6. q <= more
      BY <1>5, <3>3, <3>4, <3>5
    <3>. HIDE DEF data, more
    <3>. QED  BY <3>2, <3>6, Zenon DEF Event
  <2>4. CASE \E trade \in FP!MessageOrder : data = FP!Data("T", FP!NoSide, 0, trade)
    <3>. HIDE DEF data, more
    <3>. QED  BY <2>4, <1>6, FeedVocabulary, Zenon DEF Event
  <2>. QED  BY <1>4, <1>8, <2>1, <2>2, <2>3, <2>4, FeedVocabulary DEF FP!EventForm
<1>. QED  BY <1>2, <1>3, <1>8

-----------------------------------------------------------------------------
(* Trails.                                                                  *)

\* f goes through the deques that the reporter will have, from its own to
\* those of the feed, as it pops the pending events.
Trail(f, from, events, to) ==
  /\ f \in [0 .. Len(events) -> Deques]
  /\ f[0] = from
  /\ f[Len(events)] = to
  /\ \A n \in 1 .. Len(events) :
       /\ Event(f[n - 1], MaxMessages * MaxQty, events[n])
       /\ InRange(f[n - 1], events[n])
       /\ f[n] = Replay(f[n - 1], events[n])

\* The feed pushes.
LEMMA TrailGrows ==
  ASSUME NEW f, NEW from, NEW to, NEW events \in Seq(DataType \ {NoData}),
         Trail(f, from, events, to),
         NEW data \in DataType \ {NoData}, Event(to, MaxMessages * MaxQty, data), InRange(to, data),
         Replay(to, data) \in Deques
  PROVE  \E g : Trail(g, from, Append(events, data), Replay(to, data))
<1> DEFINE n    == Len(events)
           more == Append(events, data)
           g    == [k \in 0 .. n + 1 |-> IF k <= n THEN f[k] ELSE Replay(to, data)]
<1>1. n \in Nat /\ Len(more) = n + 1 /\ more[n + 1] = data
      /\ \A k \in 1 .. n : more[k] = events[k]
  BY AppendProperties, LenProperties
<1>2. /\ f \in [0 .. n -> Deques] /\ f[0] = from /\ f[n] = to
      /\ \A k \in 1 .. n : /\ Event(f[k - 1], MaxMessages * MaxQty, events[k])
                           /\ InRange(f[k - 1], events[k])
                           /\ f[k] = Replay(f[k - 1], events[k])
  BY DEF Trail
<1>. HIDE DEF n, more
<1>3. /\ \A k \in 0 .. n : k \in 0 .. n + 1 /\ g[k] = f[k]
      /\ g[n + 1] = Replay(to, data) /\ 0 \in 0 .. n /\ n \in 0 .. n
  BY <1>1
<1>4. g \in [0 .. n + 1 -> Deques]
  BY <1>1, <1>2
<1>. HIDE DEF g
<1>5. ASSUME NEW k \in 1 .. n + 1
      PROVE  /\ Event(g[k - 1], MaxMessages * MaxQty, more[k])
             /\ InRange(g[k - 1], more[k])
             /\ g[k] = Replay(g[k - 1], more[k])
  <2>1. CASE k \in 1 .. n
    <3>1. k - 1 \in 0 .. n /\ k \in 0 .. n
      BY <1>1, <2>1
    <3>2. g[k - 1] = f[k - 1] /\ g[k] = f[k] /\ more[k] = events[k]
      BY <1>1, <1>3, <2>1, <3>1
    <3>. QED  BY <1>2, <2>1, <3>2
  <2>2. CASE k = n + 1
    <3>1. k - 1 = n
      BY <1>1, <2>2
    <3>2. g[k - 1] = to /\ g[k] = Replay(to, data) /\ more[k] = data
      BY <1>1, <1>2, <1>3, <2>2, <3>1
    <3>. QED  BY <3>2
  <2>. QED  BY <1>1, <2>1, <2>2
<1>6. Trail(g, from, more, Replay(to, data))
  BY <1>1, <1>2, <1>3, <1>4, <1>5 DEF Trail
<1>. QED  BY <1>6 DEF more

\* The reporter pops.
LEMMA TrailShrinks ==
  ASSUME NEW f, NEW from, NEW to, NEW events \in Seq(DataType \ {NoData}), events # << >>,
         Trail(f, from, events, to)
  PROVE  \E g : Trail(g, Replay(from, Head(events)), Tail(events), to)
<1> DEFINE n    == Len(events)
           rest == Tail(events)
           g    == [k \in 0 .. n - 1 |-> f[k + 1]]
<1>1. n \in Nat \ {0} /\ Len(rest) = n - 1 /\ Head(events) = events[1]
      /\ \A k \in 1 .. n - 1 : rest[k] = events[k + 1]
  BY HeadTailProperties, LenProperties, EmptySeq
<1>2. /\ f \in [0 .. n -> Deques] /\ f[0] = from /\ f[n] = to
      /\ \A k \in 1 .. n : /\ Event(f[k - 1], MaxMessages * MaxQty, events[k])
                           /\ InRange(f[k - 1], events[k])
                           /\ f[k] = Replay(f[k - 1], events[k])
  BY DEF Trail
<1>. HIDE DEF n, rest
<1>3. /\ \A k \in 0 .. n - 1 : k + 1 \in 0 .. n /\ g[k] = f[k + 1]
      /\ 0 \in 0 .. n - 1 /\ n - 1 \in 0 .. n - 1 /\ (n - 1) + 1 = n /\ 1 \in 1 .. n /\ 1 - 1 = 0 /\ 0 + 1 = 1
  BY <1>1
<1>4. g \in [0 .. n - 1 -> Deques]
  BY <1>2, <1>3
<1>. HIDE DEF g
<1>5. g[0] = Replay(from, Head(events)) /\ g[n - 1] = to
  BY <1>1, <1>2, <1>3
<1>6. ASSUME NEW k \in 1 .. n - 1
      PROVE  /\ Event(g[k - 1], MaxMessages * MaxQty, rest[k])
             /\ InRange(g[k - 1], rest[k])
             /\ g[k] = Replay(g[k - 1], rest[k])
  <2>1. k - 1 \in 0 .. n - 1 /\ k \in 0 .. n - 1 /\ (k - 1) + 1 = k
        /\ (k + 1) - 1 = k /\ k + 1 \in 1 .. n
    BY <1>1
  <2>2. g[k - 1] = f[k] /\ g[k] = f[k + 1] /\ rest[k] = events[k + 1]
    BY <1>1, <1>3, <2>1
  <2>3. /\ Event(f[(k + 1) - 1], MaxMessages * MaxQty, events[k + 1])
        /\ InRange(f[(k + 1) - 1], events[k + 1])
        /\ f[k + 1] = Replay(f[(k + 1) - 1], events[k + 1])
    BY <1>2, <2>1
  <2>. QED  BY <2>1, <2>2, <2>3
<1>7. Trail(g, Replay(from, Head(events)), rest, to)
  BY <1>1, <1>4, <1>5, <1>6 DEF Trail
<1>. QED  BY <1>7 DEF rest

\* A trail is what After computes, so there is one at most.
LEMMA TrailIsAfter ==
  ASSUME NEW f, Trail(f, book, queue, limits), Len(queue) \in Nat
  PROVE  \A n \in 0 .. Len(queue) : After[n] = f[n]
<1> DEFINE L == Len(queue)
           Turn(g, n) == IF n = 0 THEN book ELSE Replay(g[n - 1], queue[n])
           bad == {n \in 0 .. L : After[n] # f[n]}
<1>1. /\ f \in [0 .. L -> Deques] /\ f[0] = book
      /\ \A n \in 1 .. L : f[n] = Replay(f[n - 1], queue[n])
  BY DEF Trail
<1>2. f = [n \in 0 .. L |-> Turn(f, n)]
  BY <1>1
<1>3. After = CHOOSE g : g = [n \in 0 .. L |-> Turn(g, n)]
  BY DEF After
<1>4. After = [n \in 0 .. L |-> Turn(After, n)]
  <2>. HIDE DEF Turn, L
  <2>. QED  BY <1>2, <1>3, Zenon
<1>5. ASSUME bad # {} PROVE FALSE
  <2>1. PICK m \in bad : \A k \in bad : m <= k
    <3>1. bad \in SUBSET Nat
      OBVIOUS
    <3>. HIDE DEF bad
    <3>. QED  BY <1>5, <3>1, LeastNatural
  <2>2. m \in 0 .. L /\ After[m] # f[m]
    OBVIOUS
  <2>3. m # 0
    BY <1>1, <1>4, <2>2
  <2>4. m - 1 \in 0 .. L /\ m \in 1 .. L /\ ~(m <= m - 1)
    BY <2>2, <2>3
  <2>5. After[m - 1] = f[m - 1]
    BY <2>1, <2>4
  <2>6. After[m] = Replay(After[m - 1], queue[m])
    BY <1>4, <2>2, <2>3
  <2>. QED  BY <1>1, <2>2, <2>4, <2>5, <2>6
<1>. QED  BY <1>5

-----------------------------------------------------------------------------
(* The invariant.                                                           *)

\* The lines read so far bound the quantities.
QtyRead == (MaxMessages - unread) * MaxQty

Typed ==
  /\ queue \in Seq(DataType \ {NoData})
  /\ dontSpin_ \in BOOLEAN
  /\ main \in {"reading", "join", "printed"}
  /\ thread \in {"pop", "sawEmpty", "stopped"}
  /\ unread \in 0 .. MaxMessages

TrailExists == \E f : Trail(f, book, queue, limits)

IInv ==
  /\ FP!IInv
  /\ Typed
  /\ Bounded(limits, QtyRead)
  /\ TrailExists

\* Unless the main thread processes a line, the feed keeps its book.
LEMMA FeedStays ==
  ASSUME FP!IInv, Bounded(limits, QtyRead), UNCHANGED <<feedVars, unread>>
  PROVE  FP!IInv' /\ Bounded(limits, QtyRead)'
<1>1. UNCHANGED FP!vars
  BY DEF feedVars, FP!vars
<1>2. FP!IInv'
  BY <1>1, ComponentsAssume, FP!StepIsSafe
<1>3. Bounded(limits, QtyRead)'
  BY DEF feedVars, Bounded, QtyRead
<1>. QED  BY <1>2, <1>3

LEMMA InitIInv == Init => IInv
<1>. SUFFICES ASSUME Init PROVE IInv
  OBVIOUS
<1>1. FP!IInv
  BY SameFeed, ComponentsAssume, FP!InitIsConsistent DEF Init
<1>2. Typed
  <2>1. << >> \in Seq(DataType \ {NoData})
    BY EmptySeq
  <2>. QED  BY <2>1 DEF Init, Typed
<1>3. limits = [side \in Side |-> << >>] /\ book = [side \in Side |-> << >>] /\ queue = << >>
  BY DEF Init, Feed!Init, Rep!Init, Feed!Side, Rep!Side, Side
<1>4. Bounded(limits, QtyRead)
  BY <1>3 DEF Bounded
<1>5. Trail([n \in 0 .. 0 |-> book], book, queue, limits)
  <2>1. book \in Deques
    BY <1>3, EmptySeq DEF Deques
  <2>2. Len(queue) = 0
    BY <1>3, EmptySeq
  <2>. QED  BY <1>3, <2>1, <2>2 DEF Trail
<1>. QED  BY <1>1, <1>2, <1>4, <1>5 DEF IInv, TrailExists

LEMMA processLineKeepsIInv ==
  ASSUME IInv, processLine
  PROVE  IInv'
<1>1. /\ unread > 0 /\ unread' = unread - 1 /\ Feed!processMessage
      /\ queue' = (IF pushed' = NoData THEN queue ELSE Append(queue, pushed'))
      /\ UNCHANGED <<dontSpin_, main, thread>> /\ book' = book
  BY DEF processLine, reporterVars
<1>2. /\ FP!IInv /\ Bounded(limits, QtyRead) /\ queue \in Seq(DataType \ {NoData})
      /\ unread \in 0 .. MaxMessages /\ Typed
  BY DEF IInv, Typed
<1>3. MaxQty \in Nat /\ MaxMessages \in Nat
  BY MaxQtyIsLargest, PipelineAssumption
<1>4. /\ QtyRead \in Nat /\ QtyRead' \in Nat /\ MaxMessages * MaxQty \in Nat
      /\ QtyRead' = QtyRead + MaxQty /\ QtyRead' <= MaxMessages * MaxQty
      /\ QtyRead <= QtyRead'
  <2> DEFINE read == MaxMessages - unread
  <2>1. /\ read \in Nat /\ read + 1 \in Nat /\ read + 1 <= MaxMessages
        /\ MaxMessages - unread' = read + 1
    BY <1>1, <1>2, <1>3
  <2>2. \A r, m, q \in Nat : r + 1 <= m =>
          /\ r * q \in Nat /\ (r + 1) * q \in Nat /\ m * q \in Nat
          /\ (r + 1) * q = (r * q) + q /\ (r + 1) * q <= m * q /\ r * q <= (r + 1) * q
    OBVIOUS
  <2>3. QtyRead = read * MaxQty /\ QtyRead' = (read + 1) * MaxQty
    BY <2>1 DEF QtyRead
  <2>. HIDE DEF read
  <2>. QED  BY <1>3, <2>1, <2>2, <2>3
<1>5. /\ FP!IInv'
      /\ InRange(limits, pushed') /\ limits' = Replay(limits, pushed')
      /\ pushed' # NoData => Event(limits, QtyRead', pushed')
  BY <1>1, <1>2, <1>4, FeedStep
<1>6. limits \in Deques /\ limits' \in Deques /\ pushed' \in DataType
  BY <1>2, <1>5, FeedDeques, NextFeedDeques DEF FeedTyped
<1>7. Typed'
  <2>1. queue' \in Seq(DataType \ {NoData})
    BY <1>1, <1>2, <1>6, AppendProperties
  <2>. QED  BY <1>1, <1>2, <1>3, <2>1 DEF Typed
<1>8. CASE pushed' = NoData
  <2>1. limits' = limits /\ queue' = queue
    BY <1>1, <1>5, <1>8 DEF Replay, NoData, Data
  <2>2. Bounded(limits, QtyRead)'
    <3>1. \A side \in Side : \A i \in DOMAIN limits[side] : limits[side][i].qty \in Nat
      BY <1>6, LimitPrices DEF Deques
    <3>. QED  BY <1>2, <1>4, <2>1, <3>1 DEF Bounded
  <2>3. TrailExists'
    BY <1>1, <2>1 DEF IInv, TrailExists
  <2>. QED  BY <1>5, <1>7, <2>2, <2>3 DEF IInv
<1>9. CASE pushed' # NoData
  <2>1. Bounded(limits, QtyRead')
    <3>1. \A side \in Side : \A i \in DOMAIN limits[side] : limits[side][i].qty \in Nat
      BY <1>6, LimitPrices DEF Deques
    <3>. QED  BY <1>2, <1>4, <3>1 DEF Bounded
  <2>2. Bounded(Replay(limits, pushed'), QtyRead')
    BY <1>4, <1>5, <1>6, <1>9, <2>1, EventKeepsBound
  <2>3. Bounded(limits, QtyRead)'
    BY <1>5, <2>2 DEF Bounded
  <2>4. PICK f : Trail(f, book, queue, limits)
    BY DEF IInv, TrailExists
  <2>5. Event(limits, MaxMessages * MaxQty, pushed')
    BY <1>4, <1>5, <1>9, EventIsMonotone
  <2>6. \E g : Trail(g, book, Append(queue, pushed'), Replay(limits, pushed'))
    <3>1. pushed' \in DataType \ {NoData} /\ Replay(limits, pushed') \in Deques
      BY <1>5, <1>6, <1>9
    <3>. QED  BY <1>2, <1>5, <2>4, <2>5, <3>1, TrailGrows
  <2>7. queue' = Append(queue, pushed')
    BY <1>1, <1>9
  <2>8. TrailExists'
    BY <1>1, <1>5, <2>6, <2>7 DEF TrailExists
  <2>. QED  BY <1>5, <1>7, <2>3, <2>8 DEF IInv
<1>. QED  BY <1>8, <1>9

\* The pending event fits the deques that the reporter has when it pops it.
LEMMA PoppedFits ==
  ASSUME IInv, queue # << >>
  PROVE  Head(queue) \in Rep!FittingData(book)
<1>1. PICK f : Trail(f, book, queue, limits)
  BY DEF IInv, TrailExists
<1>2. Len(queue) \in Nat \ {0}
  BY EmptySeq DEF IInv, Typed
<1>3. Event(f[1 - 1], MaxMessages * MaxQty, queue[1]) /\ f[0] = book
  BY <1>1, <1>2 DEF Trail
<1>4. Event(book, MaxMessages * MaxQty, queue[1])
  BY <1>3
<1>5. Head(queue) = queue[1]
  BY <1>2 DEF IInv, Typed
<1>. QED  BY <1>4, <1>5, EventFits

LEMMA popAndReportKeepsIInv ==
  ASSUME IInv, popAndReport
  PROVE  IInv'
<1>1. /\ queue # << >> /\ Rep!report(Head(queue)) /\ queue' = Tail(queue)
      /\ UNCHANGED <<feedVars, dontSpin_, main, thread, unread>>
  BY DEF popAndReport
<1>2. FP!IInv' /\ Bounded(limits, QtyRead)'
  BY <1>1, FeedStays DEF IInv
<1>3. Typed'
  <2>1. queue' \in Seq(DataType \ {NoData})
    BY <1>1, HeadTailProperties DEF IInv, Typed
  <2>. QED  BY <1>1, <2>1 DEF IInv, Typed
<1>4. book' = Replay(book, Head(queue))
  <2>1. \A b, data : Rep!Replay(b, data) = Replay(b, data)
    BY Zenon DEF Rep!Replay, Replay, Rep!InsertAt, InsertAt, Rep!RemoveAt, RemoveAt,
                 Rep!ReplaceAt, ReplaceAt
  <2>. QED  BY <1>1, <2>1 DEF Rep!report, Rep!processData
<1>5. PICK f : Trail(f, book, queue, limits)
  BY DEF IInv, TrailExists
<1>6. \E g : Trail(g, Replay(book, Head(queue)), Tail(queue), limits)
  BY <1>1, <1>5, TrailShrinks DEF IInv, Typed
<1>7. TrailExists'
  BY <1>1, <1>4, <1>6 DEF TrailExists, feedVars
<1>. QED  BY <1>2, <1>3, <1>7 DEF IInv

LEMMA NextKeepsIInv == IInv /\ [Next]_vars => IInv'
<1>. SUFFICES ASSUME IInv, [Next]_vars PROVE IInv'
  OBVIOUS
<1>1. ASSUME UNCHANGED <<feedVars, reporterVars, queue, unread>>, Typed'
      PROVE  IInv'
  <2>1. FP!IInv' /\ Bounded(limits, QtyRead)'
    BY <1>1, FeedStays DEF IInv
  <2>2. TrailExists'
    BY <1>1 DEF IInv, TrailExists, feedVars, reporterVars
  <2>. QED  BY <1>1, <2>1, <2>2 DEF IInv
<1>2. CASE processLine
  BY <1>2, processLineKeepsIInv
<1>3. CASE dontSpin
  BY <1>1, <1>3 DEF dontSpin, IInv, Typed
<1>4. CASE joinAndPrint
  BY <1>1, <1>4 DEF joinAndPrint, IInv, Typed
<1>5. CASE popAndReport
  BY <1>5, popAndReportKeepsIInv
<1>6. CASE popFromEmpty
  BY <1>1, <1>6 DEF popFromEmpty, IInv, Typed
<1>7. CASE readFlag
  BY <1>1, <1>7 DEF readFlag, IInv, Typed
<1>8. CASE UNCHANGED vars
  BY <1>1, <1>8 DEF vars, IInv, Typed
<1>. QED  BY <1>2, <1>3, <1>4, <1>5, <1>6, <1>7, <1>8 DEF Next, Main, Thread, Done

LEMMA InvariantHolds == Spec => []IInv
BY InitIInv, NextKeepsIInv, PTL DEF Spec
-----------------------------------------------------------------------------
(* The theorems.                                                            *)

\* However far behind the reporter is, it holds a book that the feed had, and
\* the events that wait in the queue lead from it to the feed's book, each at
\* a position that exists when its turn comes (Reporter.cpp:17-47 against
\* FeedHandler.cpp): whatever the number of messages and the interleaving, as
\* long as no event is read too late through the reference of pop_front
\* (WaitFreeQueue.h:48-51).
THEOREM MirrorAlwaysCatchesUp == Spec => []MirrorCatchesUp
<1>1. IInv => MirrorCatchesUp
  <2>. SUFFICES ASSUME IInv PROVE MirrorCatchesUp
    OBVIOUS
  <2>1. PICK f : Trail(f, book, queue, limits)
    BY DEF IInv, TrailExists
  <2>2. Len(queue) \in Nat /\ DOMAIN queue = 1 .. Len(queue)
    BY LenProperties DEF IInv, Typed
  <2>3. \A n \in 0 .. Len(queue) : After[n] = f[n]
    BY <2>1, <2>2, TrailIsAfter
  <2>4. After[Len(queue)] = limits
    BY <2>1, <2>2, <2>3 DEF Trail
  <2>5. ASSUME NEW n \in DOMAIN queue
        PROVE  InRange(After[n - 1], queue[n])
    <3>1. n \in 1 .. Len(queue) /\ n - 1 \in 0 .. Len(queue)
      BY <2>2
    <3>2. InRange(f[n - 1], queue[n])
      BY <2>1, <3>1 DEF Trail
    <3>. QED  BY <2>3, <3>1, <3>2
  <2>. QED  BY <2>4, <2>5 DEF MirrorCatchesUp
<1>. QED  BY <1>1, InvariantHolds, PTL

\* When nothing is pending the reporter has the feed's book: what main prints
\* after it joined a thread that drained the queue, and read every event in
\* time, is the book of the feed (main.cpp, after the join).
THEOREM DrainedMirrorIsTheBook == Spec => [](queue = << >> => book = limits)
<1>1. IInv => (queue = << >> => book = limits)
  <2>. SUFFICES ASSUME IInv, queue = << >> PROVE book = limits
    OBVIOUS
  <2>1. PICK f : Trail(f, book, queue, limits)
    BY DEF IInv, TrailExists
  <2>2. Len(queue) = 0
    BY EmptySeq
  <2>. QED  BY <2>1, <2>2 DEF Trail
<1>. QED  BY <1>1, InvariantHolds, PTL

\* The thread has not looked at an empty queue that was filled afterwards, and
\* never will.
OutsideWindow ==
  /\ main # "reading"
  /\ main = "printed" => thread = "stopped"
  /\ thread # "pop" => queue = << >>

\* What DrainedUnlessInWindow promises, as far as it is safety: if the flag is
\* set while the thread is not between its two looks, and no event is read too
\* late, main cannot print anything but the book of the feed (main.cpp, from
\* dontSpin on).
THEOREM OutsideWindowPrintIsComplete ==
  Spec => [](main = "join" /\ thread = "pop" => [](main = "printed" => book = limits))
<1>1. main = "join" /\ thread = "pop" => OutsideWindow
  BY DEF OutsideWindow
<1>2. OutsideWindow /\ [Next]_vars => OutsideWindow'
  <2>. SUFFICES ASSUME OutsideWindow, [Next]_vars PROVE OutsideWindow'
    OBVIOUS
  <2>1. CASE UNCHANGED <<main, thread, queue>>
    BY <2>1 DEF OutsideWindow
  <2>2. CASE processLine \/ dontSpin
    BY <2>2 DEF processLine, dontSpin, OutsideWindow
  <2>3. CASE joinAndPrint
    BY <2>3 DEF joinAndPrint, OutsideWindow
  <2>4. CASE popAndReport
    BY <2>4 DEF popAndReport, OutsideWindow
  <2>5. CASE popFromEmpty \/ readFlag
    BY <2>5 DEF popFromEmpty, readFlag, OutsideWindow
  <2>. QED  BY <2>1, <2>2, <2>3, <2>4, <2>5 DEF Next, Main, Thread, Done, vars
<1>3. OutsideWindow => (main = "printed" => queue = << >>)
  BY DEF OutsideWindow
<1>. QED  BY <1>1, <1>2, <1>3, DrainedMirrorIsTheBook, PTL DEF Spec

\* The thread behind the queue is a reporter that is only given events which
\* fit its deques: what ReporterProofs proves of it holds in the program, as
\* long as it reads the events that it takes before they are overwritten.
THEOREM PipelineImplementsReporter == Spec => ImplementsReporter
<1>1. Init => Rep!Init
  BY DEF Init
<1>2. IInv /\ [Next]_vars => [Rep!Next]_(Rep!vars)
  <2>. SUFFICES ASSUME IInv, [Next]_vars PROVE Rep!Next \/ UNCHANGED Rep!vars
    OBVIOUS
  <2>1. CASE popAndReport
    <3>1. queue # << >> /\ Rep!report(Head(queue))
      BY <2>1 DEF popAndReport
    <3>. QED  BY <3>1, PoppedFits DEF Rep!Next
  <2>2. CASE UNCHANGED reporterVars
    BY <2>2 DEF reporterVars, Rep!vars
  <2>3. popAndReport \/ UNCHANGED reporterVars
    BY DEF Next, Main, Thread, Done, processLine, dontSpin, joinAndPrint,
           popFromEmpty, readFlag, vars
  <2>. QED  BY <2>1, <2>2, <2>3
<1>. QED  BY <1>1, <1>2, InvariantHolds, PTL DEF Spec, ImplementsReporter, Rep!Spec

\* Both ends, and the queue between them, keep their types: no Data of action
\* '0' is ever queued, and the thread's flags take no other value.
THEOREM TypeIsOK == Spec => []TypeOK
<1>1. Spec => []Rep!TypeOK
  <2>1. Rep!Spec => RP!Spec
    <3>1. Rep!Init => RP!Init
      BY SameReporter
    <3>2. [Rep!Next]_(Rep!vars) => [RP!Next]_(RP!vars)
      BY SameReporter DEF Rep!vars, RP!vars
    <3>. QED  BY <3>1, <3>2, PTL DEF Rep!Spec, RP!Spec
  <2>2. RP!Spec => []RP!TypeOK
    BY ComponentsAssume, RP!TypeIsOK
  <2>3. RP!TypeOK => Rep!TypeOK
    BY SameReporter
  <2>. QED  BY <2>1, <2>2, <2>3, PipelineImplementsReporter, PTL DEF ImplementsReporter
<1>2. IInv => Feed!TypeOK
  <2>1. FP!IInv => FP!TypeOK
    BY DEF FP!IInv, FP!TypeOK, FP!Consistent, FP!OrderMap
  <2>. QED  BY <2>1, SameFeed DEF IInv
<1>3. IInv /\ Rep!TypeOK => TypeOK
  BY <1>2 DEF IInv, Typed, TypeOK
<1>. QED  BY <1>1, <1>3, InvariantHolds, PTL
=============================================================================
