------------------------- MODULE FeedHandlerProofs -------------------------
(***************************************************************************)
(* The invariants of FeedHandler, for any number of orders, quantities and *)
(* prices: first what std::lower_bound returns on a sorted deque, and what *)
(* insert, erase and overwrite at that place do to it; then one side of    *)
(* the book, what opening, overwriting and erasing a limit do to the       *)
(* agreement of a deque with its map of orders; then the handlers, the     *)
(* order book that they implement, and the events.                         *)
(***************************************************************************)
EXTENDS FeedHandler, TLAPS, FiniteSetTheorems, SequenceTheorems,
        WellFoundedInduction

-----------------------------------------------------------------------------
(* Deques of limits.                                                        *)

\* Induction, for a property that is a set.
LEMMA LeastNatural ==
  ASSUME NEW T \in SUBSET Nat, T # {}
  PROVE  \E m \in T : \A k \in T : m <= k
<1>1. \E m \in T : \A k \in T : <<k, m>> \notin OpToRel(<, Nat)
  BY WFMin, NatLessThanWellFounded, Zenon
<1>2. PICK m \in T : \A k \in T : <<k, m>> \notin OpToRel(<, Nat)
  BY <1>1
<1>3. ASSUME NEW k \in T
      PROVE  ~(k < m)
  BY <1>2 DEF OpToRel
<1>. QED  BY <1>3

\* The comparator of a side is a strict order of the prices.
LEMMA BeforeIsStrictOrder ==
  ASSUME NEW side \in Side
  PROVE  /\ \A p \in Nat : ~Before(side, p, p)
         /\ \A p, q, r \in Nat :
              Before(side, p, q) /\ Before(side, q, r) => Before(side, p, r)
         /\ \A p, q \in Nat : p = q \/ Before(side, p, q) \/ Before(side, q, p)
BY DEF Before, Side

\* There are n numbers from 1 to n.
LEMMA CountTo ==
  ASSUME NEW n \in Nat
  PROVE  IsFiniteSet(1 .. n) /\ Cardinality(1 .. n) = n
<1>1. n \in Int /\ 1 \in Int
  OBVIOUS
<1>2. IsFiniteSet(1 .. n) /\ Cardinality(1 .. n) = IF 1 > n THEN 0 ELSE n - 1 + 1
  BY <1>1, FS_Interval
<1> QED BY <1>2

\* The limits of a deque have natural prices.
LEMMA LimitPrices ==
  ASSUME NEW deque \in Seq(Limit)
  PROVE  /\ Len(deque) \in Nat
         /\ DOMAIN deque = 1 .. Len(deque)
         /\ \A i \in 1 .. Len(deque) :
              /\ deque[i] \in Limit
              /\ deque[i].price \in Price
              /\ deque[i].price \in Nat
              /\ deque[i].qty \in Nat \ {0}
<1>1. /\ Len(deque) \in Nat
      /\ DOMAIN deque = 1 .. Len(deque)
  BY LenProperties
<1>2. \A i \in 1 .. Len(deque) : deque[i] \in Limit
  BY ElementOfSeq
<1>3. \A l \in Limit : l.price \in Price /\ l.qty \in Nat \ {0}
  BY DEF Limit
<1> QED BY <1>1, <1>2, <1>3, PriceAssumption

\* On a sorted deque the number of limits strictly before a price is the
\* position of the first that is not: lower_bound, defined as a count, is the
\* offset that the binary search of the code returns.
LEMMA LowerBoundIsPlace ==
  ASSUME NEW side \in Side, NEW deque \in Seq(Limit), Sorted(deque, side),
         NEW price \in Price
  PROVE  /\ lower_bound(deque, side, price) \in 0 .. Len(deque)
         /\ \A i \in 1 .. Len(deque) :
              i <= lower_bound(deque, side, price)
                <=> Before(side, deque[i].price, price)
<1> DEFINE T == {i \in DOMAIN deque : Before(side, deque[i].price, price)}
           c == Cardinality(T)
<1>1. c = lower_bound(deque, side, price)
  BY DEF lower_bound
<1>2. /\ Len(deque) \in Nat
      /\ DOMAIN deque = 1 .. Len(deque)
      /\ \A i \in 1 .. Len(deque) : deque[i].price \in Nat
      /\ price \in Nat
  BY LimitPrices, PriceAssumption
<1>3. IsFiniteSet(T) /\ c \in Nat /\ c <= Len(deque)
  <2>1. IsFiniteSet(1 .. Len(deque)) /\ Cardinality(1 .. Len(deque)) = Len(deque)
    BY <1>2, CountTo
  <2>2. T \in SUBSET (1 .. Len(deque))
    BY <1>2
  <2>3. IsFiniteSet(T) /\ c <= Cardinality(1 .. Len(deque))
    BY <2>1, <2>2, FS_Subset
  <2>4. c \in Nat
    BY <2>3, FS_CardinalityType
  <2> QED BY <2>1, <2>3, <2>4
<1>4. ASSUME NEW i \in T, NEW j \in 1 .. i
      PROVE  j \in T
  <2>1. i \in 1 .. Len(deque) /\ j \in 1 .. Len(deque)
    BY <1>2
  <2>2. CASE j = i
    BY <2>2
  <2>3. CASE j # i
    <3>1. Before(side, deque[j].price, deque[i].price)
      BY <2>1, <2>3, <1>2 DEF Sorted
    <3> QED BY <3>1, <2>1, <1>2, BeforeIsStrictOrder
  <2> QED BY <2>2, <2>3
<1>5. ASSUME NEW i \in T
      PROVE  i <= c
  <2>1. i \in Nat /\ 1 .. i \in SUBSET T
    BY <1>4, <1>2
  <2>2. Cardinality(1 .. i) <= c
    BY <2>1, <1>3, FS_Subset
  <2>3. Cardinality(1 .. i) = i
    BY <2>1, CountTo
  <2> QED BY <2>2, <2>3
<1>6. T = 1 .. c
  <2>1. IsFiniteSet(1 .. c) /\ Cardinality(1 .. c) = c
    BY <1>3, CountTo
  <2>2. T \in SUBSET (1 .. c)
    BY <1>5, <1>2, <1>3
  <2> QED BY <2>1, <2>2, FS_Subset
<1> QED BY <1>1, <1>2, <1>3, <1>6

-----------------------------------------------------------------------------

\* insert: the elements from the place on move back by one.
LEMMA InsertAtPlace ==
  ASSUME NEW S, NEW s \in Seq(S), NEW e \in S, NEW pos \in 0 .. Len(s)
  PROVE  /\ InsertAt(s, pos + 1, e) \in Seq(S)
         /\ Len(InsertAt(s, pos + 1, e)) = Len(s) + 1
         /\ \A i \in 1 .. Len(s) + 1 :
              InsertAt(s, pos + 1, e)[i] = IF i <= pos THEN s[i]
                                           ELSE IF i = pos + 1 THEN e
                                           ELSE s[i - 1]
<1> DEFINE front == SubSeq(s, 1, pos)
           rest  == SubSeq(s, pos + 1, Len(s))
           head  == front \o <<e>>
<1>0. Len(s) \in Nat /\ pos \in Nat /\ \A i \in 1 .. Len(s) : s[i] \in S
  BY LenProperties, ElementOfSeq
<1>1. /\ front \in Seq(S) /\ Len(front) = pos
      /\ \A i \in 1 .. pos : front[i] = s[i]
  <2>1. \A i \in 1 .. pos : s[i] \in S
    BY <1>0
  <2>2. /\ front \in Seq(S) 
        /\ Len(front) = IF 1 <= pos THEN pos - 1 + 1 ELSE 0
        /\ \A i \in 1 .. pos - 1 + 1 : front[i] = s[1 + i - 1]
    BY <2>1, <1>0, SubSeqProperties
  <2> QED BY <2>2, <1>0
<1>2. /\ rest \in Seq(S) /\ Len(rest) = Len(s) - pos
      /\ \A i \in 1 .. Len(s) - pos : rest[i] = s[pos + i]
  <2>1. \A i \in pos + 1 .. Len(s) : s[i] \in S
    BY <1>0
  <2>2. /\ rest \in Seq(S)
        /\ Len(rest) = IF pos + 1 <= Len(s) THEN Len(s) - (pos + 1) + 1 ELSE 0
        /\ \A i \in 1 .. Len(s) - (pos + 1) + 1 : rest[i] = s[pos + 1 + i - 1]
    BY <2>1, <1>0, SubSeqProperties
  <2> QED BY <2>2, <1>0
<1>3. <<e>> \in Seq(S) /\ Len(<<e>>) = 1 /\ <<e>>[1] = e
  OBVIOUS
<1>4. /\ head \in Seq(S) /\ Len(head) = pos + 1
      /\ \A i \in 1 .. pos + 1 : head[i] = IF i <= pos THEN s[i] ELSE e
  <2>1. /\ head \in Seq(S) /\ Len(head) = Len(front) + Len(<<e>>)
        /\ \A i \in 1 .. Len(front) + Len(<<e>>) :
             head[i] = IF i <= Len(front) THEN front[i] ELSE <<e>>[i - Len(front)]
    BY <1>1, <1>3, ConcatProperties
  <2> QED BY <2>1, <1>0, <1>1, <1>3
<1>5. /\ head \o rest \in Seq(S) /\ Len(head \o rest) = Len(head) + Len(rest)
      /\ \A i \in 1 .. Len(head) + Len(rest) :
           (head \o rest)[i] = IF i <= Len(head) THEN head[i]
                               ELSE rest[i - Len(head)]
  BY <1>2, <1>4, ConcatProperties
<1>6. InsertAt(s, pos + 1, e) = head \o rest
  <2>1. (pos + 1) - 1 = pos
    BY <1>0
  <2> QED BY <2>1 DEF InsertAt
<1> HIDE DEF front, rest, head
<1>7. Len(head) = pos + 1 /\ Len(rest) = Len(s) - pos
  BY <1>2, <1>4
<1>8. ASSUME NEW i \in 1 .. Len(s) + 1
      PROVE  (head \o rest)[i] = IF i <= pos THEN s[i]
                                 ELSE IF i = pos + 1 THEN e ELSE s[i - 1]
  <2>1. i \in 1 .. Len(head) + Len(rest)
    BY <1>0, <1>7
  <2>2. CASE i <= pos + 1
    <3>1. (head \o rest)[i] = head[i]
      BY <2>1, <2>2, <1>5, <1>7
    <3>2. i \in 1 .. pos + 1
      BY <2>2, <1>0
    <3> QED BY <3>1, <3>2, <1>4, <1>0
  <2>3. CASE ~(i <= pos + 1)
    <3>1. (head \o rest)[i] = rest[i - (pos + 1)]
      BY <2>1, <2>3, <1>5, <1>7
    <3>2. i - (pos + 1) \in 1 .. Len(s) - pos /\ pos + (i - (pos + 1)) = i - 1
      BY <2>3, <1>0
    <3>3. rest[i - (pos + 1)] = s[i - 1]
      BY <3>2, <1>2
    <3> QED BY <3>1, <3>3, <2>3, <1>0
  <2> QED BY <2>2, <2>3
<1>9. Len(head \o rest) = Len(s) + 1
  BY <1>5, <1>7, <1>0
<1> QED BY <1>5, <1>6, <1>8, <1>9

\* erase: the elements after the place move forward by one.
LEMMA RemoveAtPlace ==
  ASSUME NEW S, NEW s \in Seq(S), NEW pos \in 0 .. Len(s) - 1
  PROVE  /\ RemoveAt(s, pos + 1) \in Seq(S)
         /\ Len(RemoveAt(s, pos + 1)) = Len(s) - 1
         /\ \A i \in 1 .. Len(s) - 1 :
              RemoveAt(s, pos + 1)[i] = IF i <= pos THEN s[i] ELSE s[i + 1]
<1> DEFINE front == SubSeq(s, 1, pos)
           rest  == SubSeq(s, pos + 2, Len(s))
<1>0. Len(s) \in Nat /\ pos \in Nat /\ \A i \in 1 .. Len(s) : s[i] \in S
  BY LenProperties, ElementOfSeq
<1>1. /\ front \in Seq(S) /\ Len(front) = pos
      /\ \A i \in 1 .. pos : front[i] = s[i]
  <2>1. \A i \in 1 .. pos : s[i] \in S
    BY <1>0
  <2>2. /\ front \in Seq(S) 
        /\ Len(front) = IF 1 <= pos THEN pos - 1 + 1 ELSE 0
        /\ \A i \in 1 .. pos - 1 + 1 : front[i] = s[1 + i - 1]
    BY <2>1, <1>0, SubSeqProperties
  <2> QED BY <2>2, <1>0
<1>2. /\ rest \in Seq(S) /\ Len(rest) = Len(s) - pos - 1
      /\ \A i \in 1 .. Len(s) - pos - 1 : rest[i] = s[pos + i + 1]
  <2>1. \A i \in pos + 2 .. Len(s) : s[i] \in S
    BY <1>0
  <2>2. /\ rest \in Seq(S)
        /\ Len(rest) = IF pos + 2 <= Len(s) THEN Len(s) - (pos + 2) + 1 ELSE 0
        /\ \A i \in 1 .. Len(s) - (pos + 2) + 1 : rest[i] = s[pos + 2 + i - 1]
    BY <2>1, <1>0, SubSeqProperties
  <2> QED BY <2>2, <1>0
<1>3. /\ front \o rest \in Seq(S) /\ Len(front \o rest) = Len(front) + Len(rest)
      /\ \A i \in 1 .. Len(front) + Len(rest) :
           (front \o rest)[i] = IF i <= Len(front) THEN front[i]
                                ELSE rest[i - Len(front)]
  BY <1>1, <1>2, ConcatProperties
<1>4. RemoveAt(s, pos + 1) = front \o rest
  <2>1. (pos + 1) - 1 = pos /\ (pos + 1) + 1 = pos + 2
    BY <1>0
  <2> QED BY <2>1 DEF RemoveAt
<1> HIDE DEF front, rest
<1>5. Len(front) = pos /\ Len(rest) = Len(s) - pos - 1
  BY <1>1, <1>2
<1>6. ASSUME NEW i \in 1 .. Len(s) - 1
      PROVE  (front \o rest)[i] = IF i <= pos THEN s[i] ELSE s[i + 1]
  <2>1. i \in 1 .. Len(front) + Len(rest)
    BY <1>0, <1>5
  <2>2. CASE i <= pos
    <3>1. (front \o rest)[i] = front[i]
      BY <2>1, <2>2, <1>3, <1>5
    <3>2. i \in 1 .. pos
      BY <2>2, <1>0
    <3> QED BY <3>1, <3>2, <2>2, <1>1
  <2>3. CASE ~(i <= pos)
    <3>1. (front \o rest)[i] = rest[i - pos]
      BY <2>1, <2>3, <1>3, <1>5
    <3>2. i - pos \in 1 .. Len(s) - pos - 1 /\ pos + (i - pos) + 1 = i + 1
      BY <2>3, <1>0
    <3>3. rest[i - pos] = s[i + 1]
      BY <3>2, <1>2
    <3> QED BY <3>1, <3>3, <2>3
  <2> QED BY <2>2, <2>3
<1>7. Len(front \o rest) = Len(s) - 1
  BY <1>3, <1>5, <1>0
<1> QED BY <1>3, <1>4, <1>6, <1>7

\* overwrite: nothing moves.
LEMMA ReplaceAtPlace ==
  ASSUME NEW S, NEW s \in Seq(S), NEW e \in S, NEW pos \in 0 .. Len(s) - 1
  PROVE  /\ ReplaceAt(s, pos + 1, e) \in Seq(S)
         /\ Len(ReplaceAt(s, pos + 1, e)) = Len(s)
         /\ \A i \in 1 .. Len(s) :
              ReplaceAt(s, pos + 1, e)[i] = IF i = pos + 1 THEN e ELSE s[i]
<1>1. pos + 1 \in 1 .. Len(s)
  BY LenProperties
<1> QED BY <1>1, ExceptSeq DEF ReplaceAt

-----------------------------------------------------------------------------

\* A limit that is in a sorted deque is where lower_bound says, and nowhere
\* else.
LEMMA PriceHasOnePlace ==
  ASSUME NEW side \in Side, NEW deque \in Seq(Limit), Sorted(deque, side),
         NEW i \in 1 .. Len(deque)
  PROVE  LET pos == lower_bound(deque, side, deque[i].price)
         IN  i = pos + 1 /\ PriceIsAt(deque, pos, deque[i].price)
<1> DEFINE price == deque[i].price
           pos   == lower_bound(deque, side, price)
<1>1. /\ Len(deque) \in Nat /\ DOMAIN deque = 1 .. Len(deque)
      /\ \A k \in 1 .. Len(deque) : deque[k].price \in Nat
      /\ price \in Price
  BY LimitPrices
<1>2. /\ pos \in 0 .. Len(deque)
      /\ \A k \in 1 .. Len(deque) : k <= pos <=> Before(side, deque[k].price, price)
  BY <1>1, LowerBoundIsPlace
<1> HIDE DEF pos
<1>3. ~(i <= pos)
  BY <1>1, <1>2, BeforeIsStrictOrder
<1>4. ASSUME i # pos + 1
      PROVE  FALSE
  <2>1. pos + 1 \in 1 .. Len(deque) /\ pos + 1 < i /\ ~(pos + 1 <= pos)
    BY <1>1, <1>2, <1>3, <1>4
  <2>2. Before(side, deque[pos + 1].price, price)
    BY <2>1, <1>1 DEF Sorted
  <2> QED BY <2>1, <2>2, <1>2
<1>5. i = pos + 1 /\ pos < Len(deque)
  BY <1>1, <1>2, <1>4
<1> QED BY <1>5 DEF pos, PriceIsAt

\* A new limit keeps the deque sorted.
LEMMA InsertKeepsSorted ==
  ASSUME NEW side \in Side, NEW deque \in Seq(Limit), Sorted(deque, side),
         NEW limit \in Limit,
         ~PriceIsAt(deque, lower_bound(deque, side, limit.price), limit.price)
  PROVE  Sorted(InsertAt(deque, lower_bound(deque, side, limit.price) + 1, limit),
                side)
<1> DEFINE price == limit.price
           pos   == lower_bound(deque, side, price)
           new   == InsertAt(deque, pos + 1, limit)
<1>1. /\ Len(deque) \in Nat /\ DOMAIN deque = 1 .. Len(deque)
      /\ \A k \in 1 .. Len(deque) : deque[k].price \in Nat
  BY LimitPrices
<1>2. price \in Price /\ price \in Nat
  BY PriceAssumption DEF Limit
<1>3. /\ pos \in 0 .. Len(deque)
      /\ \A k \in 1 .. Len(deque) : k <= pos <=> Before(side, deque[k].price, price)
  BY <1>2, LowerBoundIsPlace
<1>4. ~(pos < Len(deque) /\ deque[pos + 1].price = price)
  BY DEF PriceIsAt
<1> HIDE DEF pos
<1>5. /\ new \in Seq(Limit) /\ Len(new) = Len(deque) + 1
      /\ \A k \in 1 .. Len(deque) + 1 :
           new[k] = IF k <= pos THEN deque[k]
                    ELSE IF k = pos + 1 THEN limit ELSE deque[k - 1]
  <2>1. pos \in 0 .. Len(deque)
    BY <1>3
  <2> HIDE DEF price
  <2>2. /\ InsertAt(deque, pos + 1, limit) \in Seq(Limit)
        /\ Len(InsertAt(deque, pos + 1, limit)) = Len(deque) + 1
        /\ \A i \in 1 .. Len(deque) + 1 :
             InsertAt(deque, pos + 1, limit)[i] =
               IF i <= pos THEN deque[i]
               ELSE IF i = pos + 1 THEN limit ELSE deque[i - 1]
    BY ONLY <2>1, InsertAtPlace, limit \in Limit, deque \in Seq(Limit)
  <2> QED BY <2>2
<1>6. DOMAIN new = 1 .. Len(deque) + 1
  BY <1>5, LenProperties
<1> HIDE DEF new, price
<1>7. ASSUME NEW k \in 1 .. Len(deque), k > pos
      PROVE  Before(side, price, deque[k].price)
  <2>1. pos + 1 \in 1 .. Len(deque) /\ ~(pos + 1 <= pos) /\ pos < Len(deque)
    BY <1>1, <1>3, <1>7
  <2>2. Before(side, price, deque[pos + 1].price)
    BY <2>1, <1>1, <1>2, <1>3, <1>4, BeforeIsStrictOrder
  <2>3. CASE k = pos + 1
    BY <2>2, <2>3
  <2>4. CASE k # pos + 1
    <3>1. Before(side, deque[pos + 1].price, deque[k].price)
      BY <2>1, <2>4, <1>1, <1>3, <1>7 DEF Sorted
    <3> QED BY <2>1, <2>2, <3>1, <1>1, <1>2, BeforeIsStrictOrder
  <2> QED BY <2>3, <2>4
<1>8. ASSUME NEW i \in 1 .. Len(deque) + 1, NEW j \in 1 .. Len(deque) + 1, i < j
      PROVE  Before(side, new[i].price, new[j].price)
  <2>1. CASE j <= pos
    <3>1. /\ new[i] = deque[i] /\ new[j] = deque[j]
          /\ i \in DOMAIN deque /\ j \in DOMAIN deque
      BY <2>1, <1>1, <1>3, <1>5, <1>8
    <3> QED BY <3>1, <1>8 DEF Sorted
  <2>2. CASE i <= pos /\ j = pos + 1
    <3>1. new[i] = deque[i] /\ new[j] = limit /\ i \in 1 .. Len(deque)
      BY <2>2, <1>1, <1>3, <1>5, <1>8
    <3> QED BY <3>1, <2>2, <1>3 DEF price
  <2>3. CASE i <= pos /\ j > pos + 1
    <3>1. /\ new[i] = deque[i] /\ new[j] = deque[j - 1] /\ i < j - 1
          /\ i \in DOMAIN deque /\ j - 1 \in DOMAIN deque
      BY <2>3, <1>1, <1>3, <1>5, <1>8
    <3> QED BY <3>1 DEF Sorted
  <2>4. CASE i = pos + 1
    <3>1. /\ new[i] = limit /\ new[j] = deque[j - 1]
          /\ j - 1 \in 1 .. Len(deque) /\ j - 1 > pos
      BY <2>4, <1>1, <1>3, <1>5, <1>8
    <3> QED BY <3>1, <1>7 DEF price
  <2>5. CASE i > pos + 1
    <3>1. /\ new[i] = deque[i - 1] /\ new[j] = deque[j - 1] /\ i - 1 < j - 1
          /\ i - 1 \in DOMAIN deque /\ j - 1 \in DOMAIN deque
      BY <2>5, <1>1, <1>3, <1>5, <1>8
    <3> QED BY <3>1 DEF Sorted
  <2>6. i \in Nat /\ j \in Nat /\ pos \in Nat
    BY <1>1, <1>3
  <2> QED BY <2>1, <2>2, <2>3, <2>4, <2>5, <2>6, <1>8
<1>9. Sorted(new, side)
  BY <1>6, <1>8 DEF Sorted
<1> QED BY <1>9 DEF new, pos, price

\* So does erasing one.
LEMMA RemoveKeepsSorted ==
  ASSUME NEW side \in Side, NEW deque \in Seq(Limit), Sorted(deque, side),
         NEW pos \in 0 .. Len(deque) - 1
  PROVE  Sorted(RemoveAt(deque, pos + 1), side)
<1> DEFINE new == RemoveAt(deque, pos + 1)
<1>1. Len(deque) \in Nat /\ DOMAIN deque = 1 .. Len(deque)
  BY LimitPrices
<1>2. /\ new \in Seq(Limit) /\ Len(new) = Len(deque) - 1
      /\ \A k \in 1 .. Len(deque) - 1 :
           new[k] = IF k <= pos THEN deque[k] ELSE deque[k + 1]
  BY RemoveAtPlace
<1>3. DOMAIN new = 1 .. Len(deque) - 1
  BY <1>2, LenProperties
<1> HIDE DEF new
<1>4. ASSUME NEW i \in 1 .. Len(deque) - 1, NEW j \in 1 .. Len(deque) - 1, i < j
      PROVE  Before(side, new[i].price, new[j].price)
  <2> DEFINE at(k) == IF k <= pos THEN k ELSE k + 1
  <2>1. at(i) \in DOMAIN deque /\ at(j) \in DOMAIN deque /\ at(i) < at(j)
    BY <1>1, <1>4
  <2>2. new[i] = deque[at(i)] /\ new[j] = deque[at(j)]
    BY <1>2
  <2> QED BY <2>1, <2>2 DEF Sorted
<1> QED BY <1>3, <1>4 DEF Sorted, new

\* So does a new quantity at the same price.
LEMMA ReplaceKeepsSorted ==
  ASSUME NEW side \in Side, NEW deque \in Seq(Limit), Sorted(deque, side),
         NEW pos \in 0 .. Len(deque) - 1, NEW limit \in Limit,
         limit.price = deque[pos + 1].price
  PROVE  Sorted(ReplaceAt(deque, pos + 1, limit), side)
<1> DEFINE new == ReplaceAt(deque, pos + 1, limit)
<1>1. Len(deque) \in Nat /\ DOMAIN deque = 1 .. Len(deque)
  BY LimitPrices
<1>2. /\ new \in Seq(Limit) /\ Len(new) = Len(deque)
      /\ \A k \in 1 .. Len(deque) :
           new[k] = IF k = pos + 1 THEN limit ELSE deque[k]
  BY ReplaceAtPlace
<1>3. DOMAIN new = 1 .. Len(deque)
  BY <1>2, LenProperties
<1>4. \A k \in 1 .. Len(deque) : new[k].price = deque[k].price
  BY <1>2
<1> HIDE DEF new
<1>5. Sorted(new, side)
  BY <1>1, <1>3, <1>4 DEF Sorted
<1> QED BY <1>5 DEF new

-----------------------------------------------------------------------------
(* One side of the book.                                                    *)

\* The maps from ids to orders.
OrderMap == UNION {[ids -> MessageOrder] : ids \in SUBSET OrderId}

LEMMA OrderMapFacts ==
  ASSUME NEW map \in OrderMap
  PROVE  /\ DOMAIN map \subseteq OrderId
         /\ IsFiniteSet(DOMAIN map)
         /\ \A id \in DOMAIN map : /\ map[id] \in MessageOrder
                                   /\ map[id].qty \in Nat \ {0}
                                   /\ map[id].price \in Price
<1>1. PICK ids \in SUBSET OrderId : map \in [ids -> MessageOrder]
  BY DEF OrderMap
<1>2. DOMAIN map = ids /\ \A id \in ids : map[id] \in MessageOrder
  BY <1>1
<1>3. IsFiniteSet(ids)
  BY OrderIdAssumption, FS_Subset
<1>4. \A order \in MessageOrder : order.qty \in Nat \ {0} /\ order.price \in Price
  BY QuantityAssumption DEF MessageOrder
<1> QED BY <1>2, <1>3, <1>4

LEMMA MessageOrderIsLimit == MessageOrder \subseteq Limit
BY QuantityAssumption DEF MessageOrder, Limit

-----------------------------------------------------------------------------
(* Quantities as numbers of units.                                          *)

\* An order of quantity q has q units.
LEMMA UnitsOfOneOrder ==
  ASSUME NEW id, NEW q \in Nat
  PROVE  /\ IsFiniteSet({id} \X (1 .. q))
         /\ Cardinality({id} \X (1 .. q)) = q
<1>1. IsFiniteSet({id}) /\ Cardinality({id}) = 1
  BY FS_Singleton
<1>2. IsFiniteSet(1 .. q) /\ Cardinality(1 .. q) = q
  BY CountTo
<1>3. /\ IsFiniteSet({id} \X (1 .. q))
      /\ Cardinality({id} \X (1 .. q)) = Cardinality({id}) * Cardinality(1 .. q)
  BY <1>1, <1>2, FS_Product
<1> QED BY <1>1, <1>2, <1>3

\* A map holds finitely many units at a price.
LEMMA UnitsAreFinite ==
  ASSUME NEW map \in OrderMap, NEW price
  PROVE  IsFiniteSet(UnitsAt(map, price)) /\ TotalQty(map, price) \in Nat
<1> DEFINE ids == OrdersAt(map, price)
           f   == [id \in ids |-> {id} \X (1 .. map[id].qty)]
           all == {{id} \X (1 .. map[id].qty) : id \in ids}
<1>1. ids \subseteq DOMAIN map
  BY DEF OrdersAt
<1>2. IsFiniteSet(ids)
  BY <1>1, OrderMapFacts, FS_Subset
<1>3. f \in Surjection(ids, all)
  BY DEF Surjection
<1>4. IsFiniteSet(all)
  BY <1>2, <1>3, FS_Surjection
<1>5. \A units \in all : IsFiniteSet(units)
  <2>1. ASSUME NEW id \in ids
        PROVE  IsFiniteSet({id} \X (1 .. map[id].qty))
    <3>1. map[id].qty \in Nat
      BY <1>1, OrderMapFacts
    <3> QED BY <3>1, UnitsOfOneOrder
  <2> QED BY <2>1
<1>6. IsFiniteSet(UNION all)
  BY <1>4, <1>5, FS_UNION
<1>7. IsFiniteSet(UnitsAt(map, price))
  BY <1>6 DEF UnitsAt
<1> QED BY <1>7, FS_CardinalityType DEF TotalQty

\* What one order of a map contributes to the total at a price.
Share(order, price) == IF order.price = price THEN order.qty ELSE 0

\* The total of a map is that of the other orders, and the share of one.
LEMMA TotalSplits ==
  ASSUME NEW map \in OrderMap, NEW id \in DOMAIN map, NEW price
  PROVE  LET rest == Restrict(map, DOMAIN map \ {id})
         IN  /\ rest \in OrderMap
             /\ DOMAIN rest = DOMAIN map \ {id}
             /\ TotalQty(map, price) = TotalQty(rest, price) + Share(map[id], price)
<1> DEFINE rest == Restrict(map, DOMAIN map \ {id})
           own  == {id} \X (1 .. map[id].qty)
<1>1. DOMAIN rest = DOMAIN map \ {id} /\ \A k \in DOMAIN rest : rest[k] = map[k]
  BY DEF Restrict
<1>2. rest \in OrderMap
  <2>1. DOMAIN map \ {id} \in SUBSET OrderId
    BY OrderMapFacts
  <2>2. rest \in [DOMAIN map \ {id} -> MessageOrder]
    BY OrderMapFacts DEF Restrict
  <2> QED BY <2>1, <2>2 DEF OrderMap
<1>3. map[id].qty \in Nat
  BY OrderMapFacts
<1> HIDE DEF rest
<1>4. IsFiniteSet(UnitsAt(rest, price)) /\ TotalQty(rest, price) \in Nat
  BY <1>2, UnitsAreFinite
<1>5. CASE map[id].price = price
  <2>1. UnitsAt(map, price) = UnitsAt(rest, price) \cup own
    BY <1>1, <1>5 DEF UnitsAt, OrdersAt
  <2>2. UnitsAt(rest, price) \cap own = {}
    BY <1>1 DEF UnitsAt, OrdersAt
  <2>3. IsFiniteSet(own) /\ Cardinality(own) = map[id].qty
    BY <1>3, UnitsOfOneOrder
  <2>4. Cardinality(UnitsAt(map, price))
          = Cardinality(UnitsAt(rest, price)) + Cardinality(own) - Cardinality({})
    BY <2>1, <2>2, <2>3, <1>4, FS_Union
  <2>5. Cardinality({}) = 0
    BY FS_EmptySet
  <2>6. TotalQty(map, price) = TotalQty(rest, price) + map[id].qty
    BY <2>3, <2>4, <2>5, <1>3, <1>4 DEF TotalQty
  <2> QED BY <2>6, <1>1, <1>2, <1>5 DEF Share, rest
<1>6. CASE map[id].price # price
  <2>1. OrdersAt(map, price) = OrdersAt(rest, price)
    BY <1>1, <1>6 DEF OrdersAt
  <2>2. UnitsAt(map, price) = UnitsAt(rest, price)
    BY <1>1, <2>1 DEF UnitsAt, OrdersAt
  <2> QED BY <2>2, <1>1, <1>2, <1>4, <1>6 DEF Share, TotalQty, rest
<1> QED BY <1>5, <1>6

\* No total, no order.
LEMMA NoUnitsNoOrder ==
  ASSUME NEW map \in OrderMap, NEW id \in DOMAIN map
  PROVE  TotalQty(map, map[id].price) >= map[id].qty
<1> DEFINE rest == Restrict(map, DOMAIN map \ {id})
<1>1. /\ rest \in OrderMap
      /\ TotalQty(map, map[id].price)
           = TotalQty(rest, map[id].price) + Share(map[id], map[id].price)
  BY TotalSplits
<1>2. TotalQty(rest, map[id].price) \in Nat /\ map[id].qty \in Nat
  BY <1>1, UnitsAreFinite, OrderMapFacts
<1> QED BY <1>1, <1>2 DEF Share

-----------------------------------------------------------------------------
(* One side of the book.                                                    *)

\* A deque and a map that tell the same story: the invariant, per side.
Consistent(side, deque, map) ==
  /\ deque \in Seq(Limit)
  /\ map \in OrderMap
  /\ Sorted(deque, side)
  /\ \A i \in 1 .. Len(deque) : deque[i].qty = TotalQty(map, deque[i].price)
  /\ \A id \in DOMAIN map :
       \E i \in 1 .. Len(deque) : deque[i].price = map[id].price

\* A map with one more order.
LEMMA AddOrder ==
  ASSUME NEW map \in OrderMap, NEW id \in OrderId, id \notin DOMAIN map,
         NEW order \in MessageOrder
  PROVE  LET more == WithOrder(map, id, order)
         IN  /\ more \in OrderMap
             /\ DOMAIN more = DOMAIN map \cup {id}
             /\ more[id] = order
             /\ \A k \in DOMAIN map : more[k] = map[k]
             /\ \A price : TotalQty(more, price)
                             = TotalQty(map, price) + Share(order, price)
<1> DEFINE more == WithOrder(map, id, order)
<1>1. more = [k \in DOMAIN map \cup {id} |-> IF k = id THEN order ELSE map[k]]
  BY DEF WithOrder
<1>2. PICK ids \in SUBSET OrderId : map \in [ids -> MessageOrder]
  BY DEF OrderMap
<1>3. more \in [ids \cup {id} -> MessageOrder] /\ ids \cup {id} \in SUBSET OrderId
  BY <1>1, <1>2
<1>4. more \in OrderMap
  BY <1>3 DEF OrderMap
<1>5. DOMAIN more = DOMAIN map \cup {id} /\ more[id] = order
  BY <1>1
<1>6. Restrict(more, DOMAIN more \ {id}) = map
  BY <1>1, <1>2 DEF Restrict
<1> HIDE DEF more
<1>7. ASSUME NEW price
      PROVE  TotalQty(more, price) = TotalQty(map, price) + Share(order, price)
  BY <1>4, <1>5, <1>6, TotalSplits
<1> QED BY <1>1, <1>4, <1>5, <1>7 DEF more

\* A map in which one order has another quantity.
LEMMA ChangeOrder ==
  ASSUME NEW map \in OrderMap, NEW id \in DOMAIN map, NEW order \in MessageOrder
  PROVE  LET other == [map EXCEPT ![id] = order]
         IN  /\ other \in OrderMap
             /\ DOMAIN other = DOMAIN map
             /\ other[id] = order
             /\ \A k \in DOMAIN map \ {id} : other[k] = map[k]
             /\ \A price : TotalQty(other, price)
                             = (TotalQty(map, price) - Share(map[id], price))
                               + Share(order, price)
<1> DEFINE other == [map EXCEPT ![id] = order]
           rest  == Restrict(map, DOMAIN map \ {id})
<1>1. PICK ids \in SUBSET OrderId : map \in [ids -> MessageOrder]
  BY DEF OrderMap
<1>2. other \in [ids -> MessageOrder]
  BY <1>1
<1>3. other \in OrderMap
  BY <1>2 DEF OrderMap
<1>4. DOMAIN other = DOMAIN map /\ other[id] = order
  BY <1>1
<1>5. Restrict(other, DOMAIN other \ {id}) = rest
  BY <1>1, <1>4 DEF Restrict
<1>6. \A k \in DOMAIN map \ {id} : other[k] = map[k]
  BY <1>1
<1> HIDE DEF other, rest
<1>7. ASSUME NEW price
      PROVE  TotalQty(other, price)
               = (TotalQty(map, price) - Share(map[id], price)) + Share(order, price)
  <2>1. TotalQty(other, price) = TotalQty(rest, price) + Share(order, price)
    BY <1>3, <1>4, <1>5, TotalSplits
  <2>2. /\ rest \in OrderMap
        /\ TotalQty(map, price) = TotalQty(rest, price) + Share(map[id], price)
    BY TotalSplits DEF rest
  <2>3. /\ TotalQty(rest, price) \in Nat
        /\ Share(map[id], price) \in Nat /\ Share(order, price) \in Nat
    BY <2>2, UnitsAreFinite, OrderMapFacts, QuantityAssumption
       DEF Share, MessageOrder
  <2> QED BY <2>1, <2>2, <2>3
<1> QED BY <1>3, <1>4, <1>6, <1>7 DEF other

\* newBuyOrder and newSellOrder, first way: a new limit.
LEMMA OpenLimit ==
  ASSUME NEW side \in Side, NEW deque, NEW map, Consistent(side, deque, map),
         NEW id \in OrderId, id \notin DOMAIN map, NEW order \in MessageOrder,
         ~PriceIsAt(deque, lower_bound(deque, side, order.price), order.price)
  PROVE  Consistent(side,
                    InsertAt(deque, lower_bound(deque, side, order.price) + 1, order),
                    WithOrder(map, id, order))
<1> DEFINE pos  == lower_bound(deque, side, order.price)
           new  == InsertAt(deque, pos + 1, order)
           more == WithOrder(map, id, order)
<1>1. deque \in Seq(Limit) /\ map \in OrderMap /\ Sorted(deque, side)
  BY DEF Consistent
<1>2. order \in Limit /\ order.price \in Price /\ order.qty \in Nat
  BY MessageOrderIsLimit, QuantityAssumption DEF MessageOrder
<1>3. pos \in 0 .. Len(deque) /\ Len(deque) \in Nat
  BY <1>1, <1>2, LowerBoundIsPlace, LimitPrices
<1>4. Sorted(new, side)
  BY <1>1, <1>2, InsertKeepsSorted
<1>5. \A i \in 1 .. Len(deque) : deque[i].price # order.price
  BY <1>1, PriceHasOnePlace
<1> HIDE DEF pos
<1>6. /\ new \in Seq(Limit) /\ Len(new) = Len(deque) + 1
      /\ \A i \in 1 .. Len(deque) + 1 :
           new[i] = IF i <= pos THEN deque[i]
                    ELSE IF i = pos + 1 THEN order ELSE deque[i - 1]
  BY <1>1, <1>2, <1>3, InsertAtPlace
<1>7. /\ more \in OrderMap
      /\ DOMAIN more = DOMAIN map \cup {id}
      /\ more[id] = order
      /\ \A k \in DOMAIN map : more[k] = map[k]
      /\ \A price : TotalQty(more, price) = TotalQty(map, price) + Share(order, price)
  BY <1>1, AddOrder
<1> HIDE DEF new, more
<1>8. ASSUME NEW i \in 1 .. Len(deque)
      PROVE  deque[i].qty = TotalQty(more, deque[i].price)
  <2>1. deque[i].qty = TotalQty(map, deque[i].price)
    BY DEF Consistent
  <2>2. Share(order, deque[i].price) = 0
    BY <1>5 DEF Share
  <2>3. TotalQty(map, deque[i].price) \in Nat
    BY <1>1, UnitsAreFinite
  <2> QED BY <2>1, <2>2, <2>3, <1>7
<1>9. order.qty = TotalQty(more, order.price)
  <2>1. OrdersAt(map, order.price) = {}
    BY <1>5 DEF Consistent, OrdersAt
  <2>2. TotalQty(map, order.price) = 0
    BY <2>1, FS_EmptySet DEF UnitsAt, TotalQty
  <2> QED BY <2>2, <1>2, <1>7 DEF Share
<1>10. ASSUME NEW i \in 1 .. Len(new)
       PROVE  new[i].qty = TotalQty(more, new[i].price)
  <2>1. CASE i <= pos
    BY <2>1, <1>3, <1>6, <1>8
  <2>2. CASE i = pos + 1
    BY <2>2, <1>3, <1>6, <1>9
  <2>3. CASE i > pos + 1
    <3>1. i - 1 \in 1 .. Len(deque) /\ new[i] = deque[i - 1]
      BY <2>3, <1>3, <1>6
    <3> QED BY <3>1, <1>8
  <2> QED BY <2>1, <2>2, <2>3, <1>3, <1>6
<1>11. ASSUME NEW k \in DOMAIN more
       PROVE  \E i \in 1 .. Len(new) : new[i].price = more[k].price
  <2>1. CASE k = id
    <3>1. pos + 1 \in 1 .. Len(new) /\ new[pos + 1] = order
      BY <1>3, <1>6
    <3> QED BY <3>1, <2>1, <1>7
  <2>2. CASE k # id
    <3>1. k \in DOMAIN map /\ more[k] = map[k]
      BY <2>2, <1>7
    <3>2. PICK i \in 1 .. Len(deque) : deque[i].price = map[k].price
      BY <3>1 DEF Consistent
    <3>3. CASE i <= pos
      <4>1. i \in 1 .. Len(new) /\ new[i] = deque[i]
        BY <3>3, <1>3, <1>6
      <4> QED BY <3>1, <3>2, <4>1
    <3>4. CASE ~(i <= pos)
      <4>1. i + 1 \in 1 .. Len(new) /\ new[i + 1] = deque[i]
        BY <3>4, <1>3, <1>6
      <4> QED BY <3>1, <3>2, <4>1
    <3> QED BY <3>3, <3>4
  <2> QED BY <2>1, <2>2
<1>12. Consistent(side, new, more)
  BY <1>4, <1>6, <1>7, <1>10, <1>11 DEF Consistent
<1> QED BY <1>12 DEF new, more, pos

\* A limit gets another quantity, at the same price, and the map changes so
\* that the total at this price is that quantity and no other total changes.
LEMMA OverwriteLimit ==
  ASSUME NEW side \in Side, NEW deque, NEW map, Consistent(side, deque, map),
         NEW pos \in 0 .. Len(deque) - 1, NEW limit \in Limit,
         limit.price = deque[pos + 1].price,
         NEW other \in OrderMap,
         limit.qty = TotalQty(other, limit.price),
         \A price : price # limit.price =>
                      TotalQty(other, price) = TotalQty(map, price),
         \A k \in DOMAIN other :
           other[k].price = limit.price
             \/ (k \in DOMAIN map /\ other[k].price = map[k].price)
  PROVE  Consistent(side, ReplaceAt(deque, pos + 1, limit), other)
<1> DEFINE new == ReplaceAt(deque, pos + 1, limit)
<1>1. /\ deque \in Seq(Limit) /\ map \in OrderMap /\ Sorted(deque, side)
      /\ Len(deque) \in Nat
  BY LimitPrices DEF Consistent
<1>2. Sorted(new, side)
  BY <1>1, ReplaceKeepsSorted
<1>3. /\ new \in Seq(Limit) /\ Len(new) = Len(deque)
      /\ \A i \in 1 .. Len(deque) :
           new[i] = IF i = pos + 1 THEN limit ELSE deque[i]
  BY <1>1, ReplaceAtPlace
<1> HIDE DEF new
<1>4. ASSUME NEW i \in 1 .. Len(new)
      PROVE  new[i].qty = TotalQty(other, new[i].price)
  <2>1. CASE i = pos + 1
    BY <2>1, <1>3
  <2>2. CASE i # pos + 1
    <3>1. deque[i].price # limit.price
      <4>1. /\ i = lower_bound(deque, side, deque[i].price) + 1
            /\ pos + 1 = lower_bound(deque, side, deque[pos + 1].price) + 1
        BY <1>1, <1>3, PriceHasOnePlace
      <4> QED BY <4>1, <2>2
    <3>2. new[i] = deque[i] /\ deque[i].qty = TotalQty(map, deque[i].price)
      BY <2>2, <1>3 DEF Consistent
    <3> QED BY <3>1, <3>2
  <2> QED BY <2>1, <2>2
<1>5. ASSUME NEW k \in DOMAIN other
      PROVE  \E i \in 1 .. Len(new) : new[i].price = other[k].price
  <2>1. CASE other[k].price = limit.price
    <3>1. pos + 1 \in 1 .. Len(new) /\ new[pos + 1] = limit
      BY <1>1, <1>3
    <3> QED BY <3>1, <2>1
  <2>2. CASE k \in DOMAIN map /\ other[k].price = map[k].price
    <3>1. PICK i \in 1 .. Len(deque) : deque[i].price = map[k].price
      BY <2>2 DEF Consistent
    <3>2. new[i].price = deque[i].price
      BY <1>3
    <3> QED BY <3>1, <3>2, <2>2, <1>3
  <2> QED BY <2>1, <2>2
<1> QED BY <1>2, <1>3, <1>4, <1>5 DEF Consistent, new

\* A limit goes, when the orders at its price have no quantity left.
LEMMA EraseLimit ==
  ASSUME NEW side \in Side, NEW deque, NEW map, Consistent(side, deque, map),
         NEW pos \in 0 .. Len(deque) - 1,
         NEW other \in OrderMap,
         TotalQty(other, deque[pos + 1].price) = 0,
         \A price : price # deque[pos + 1].price =>
                      TotalQty(other, price) = TotalQty(map, price),
         \A k \in DOMAIN other : k \in DOMAIN map /\ other[k].price = map[k].price
  PROVE  Consistent(side, RemoveAt(deque, pos + 1), other)
<1> DEFINE new   == RemoveAt(deque, pos + 1)
           at(i) == IF i <= pos THEN i ELSE i + 1
<1>1. /\ deque \in Seq(Limit) /\ map \in OrderMap /\ Sorted(deque, side)
      /\ Len(deque) \in Nat
  BY LimitPrices DEF Consistent
<1>2. Sorted(new, side)
  BY <1>1, RemoveKeepsSorted
<1>3. /\ new \in Seq(Limit) /\ Len(new) = Len(deque) - 1
      /\ \A i \in 1 .. Len(deque) - 1 :
           new[i] = IF i <= pos THEN deque[i] ELSE deque[i + 1]
  BY <1>1, RemoveAtPlace
<1> HIDE DEF new
<1>4. ASSUME NEW i \in 1 .. Len(deque), i # pos + 1
      PROVE  deque[i].price # deque[pos + 1].price
  <2>1. /\ i = lower_bound(deque, side, deque[i].price) + 1
        /\ pos + 1 = lower_bound(deque, side, deque[pos + 1].price) + 1
    BY <1>1, PriceHasOnePlace
  <2> QED BY <2>1, <1>4
<1>5. ASSUME NEW i \in 1 .. Len(new)
      PROVE  new[i].qty = TotalQty(other, new[i].price)
  <2>1. at(i) \in 1 .. Len(deque) /\ at(i) # pos + 1 /\ new[i] = deque[at(i)]
    BY <1>1, <1>3, SMTT(30)
  <2>2. deque[at(i)].qty = TotalQty(map, deque[at(i)].price)
    BY <2>1 DEF Consistent
  <2> QED BY <2>1, <2>2, <1>4
<1>6. ASSUME NEW k \in DOMAIN other
      PROVE  \E i \in 1 .. Len(new) : new[i].price = other[k].price
  <2>1. PICK i \in 1 .. Len(deque) : deque[i].price = other[k].price
    BY DEF Consistent
  <2>2. i # pos + 1
    <3>1. TotalQty(other, other[k].price) >= other[k].qty /\ other[k].qty \in Nat \ {0}
      BY NoUnitsNoOrder, OrderMapFacts
    <3> QED BY <3>1, <2>1
  <2>3. CASE i <= pos
    <3>1. i \in 1 .. Len(new) /\ new[i] = deque[i]
      BY <2>3, <1>1, <1>3
    <3> QED BY <3>1, <2>1
  <2>4. CASE ~(i <= pos)
    <3>1. i - 1 \in 1 .. Len(new) /\ new[i - 1] = deque[i]
      BY <2>2, <2>4, <1>1, <1>3
    <3> QED BY <3>1, <2>1
  <2> QED BY <2>3, <2>4
<1> QED BY <1>2, <1>3, <1>5, <1>6 DEF Consistent, new

-----------------------------------------------------------------------------
(* The invariant and the handlers.                                          *)

\* The inductive invariant.  The properties are not inductive by themselves:
\* a modify keeps the sums right only because the critical refusals cannot
\* happen, and they cannot because the sums are right.
IInv ==
  /\ errors \in [Errors -> Nat]
  /\ pushed \in DataType
  /\ limits = [side \in Side |-> limits[side]]
  /\ orders = [side \in Side |-> orders[side]]
  /\ \A side \in Side : Consistent(side, limits[side], orders[side])
  /\ OneSidePerOrder
  /\ NoCriticalErrors

\* The step of EventReplays.
Replays == InRange(limits, pushed') /\ limits' = Replay(limits, pushed')

\* One side changes, and what it changes into is consistent.
LEMMA ChangeSide ==
  ASSUME IInv, NEW side \in Side, NEW deque, NEW map,
         Consistent(side, deque, map),
         limits' = [limits EXCEPT ![side] = deque],
         orders' = [orders EXCEPT ![side] = map],
         \A s \in Side \ {side} : DOMAIN map \cap Live(s) = {},
         UNCHANGED errors, pushed' \in DataType
  PROVE  IInv'
<1>1. \A s \in Side : /\ limits'[s] = IF s = side THEN deque ELSE limits[s]
                      /\ orders'[s] = IF s = side THEN map ELSE orders[s]
  BY DEF IInv
<1>2. \A s \in Side : Consistent(s, limits'[s], orders'[s])
  BY <1>1 DEF IInv
<1>3. /\ limits' = [s \in Side |-> limits'[s]]
      /\ orders' = [s \in Side |-> orders'[s]]
  BY DEF IInv
<1>4. OneSidePerOrder'
  BY <1>1 DEF IInv, OneSidePerOrder, Live, Side
<1>5. NoCriticalErrors'
  BY DEF IInv, NoCriticalErrors
<1> QED BY <1>2, <1>3, <1>4, <1>5 DEF IInv

\* A refusal that is not critical.
LEMMA RefuseIsSafe ==
  ASSUME IInv, NEW counter \in Errors \ CriticalErrors, Refuse(counter)
  PROVE  IInv' /\ Replays
<1>1. errors' = [errors EXCEPT ![counter] = @ + 1] /\ pushed' = NoData
  BY DEF Refuse
<1>2. limits' = limits /\ orders' = orders
  BY DEF Refuse
<1>3. errors' \in [Errors -> Nat]
  BY <1>1 DEF IInv
<1>4. NoCriticalErrors'
  <2>1. CriticalErrors \subseteq Errors
    BY DEF Errors
  <2> QED BY <1>1, <2>1 DEF IInv, NoCriticalErrors
<1>5. pushed' \in DataType
  BY <1>1 DEF NoData, Data, DataType, Side, NoSide
<1>6. OneSidePerOrder'
  BY <1>2 DEF IInv, OneSidePerOrder, Live
<1>7. IInv'
  BY <1>2, <1>3, <1>4, <1>5, <1>6 DEF IInv
<1>8. Replays
  BY <1>1, <1>2 DEF Replays, InRange, Replay, NoData, Data
<1> QED BY <1>7, <1>8

\* The Data of the three changes of a deque have the type of the queue's.
LEMMA DataTypes ==
  ASSUME NEW side \in Side, NEW pos \in Nat
  PROVE  /\ \A limit \in Limit : /\ Data("A", side, pos, limit) \in DataType
                                 /\ Data("M", side, pos, limit) \in DataType
                                 /\ Data("T", NoSide, 0, limit) \in DataType
         /\ Data("X", side, pos, NoLimit) \in DataType
BY DEF Data, DataType

\* A price of a message is one that the deques are searched for.
LEMMA PlaceOfMessage ==
  ASSUME IInv, NEW side \in Side, NEW price \in Price
  PROVE  LET pos == lower_bound(limits[side], side, price)
         IN  /\ pos \in 0 .. Len(limits[side])
             /\ Len(limits[side]) \in Nat
             /\ PriceIsAt(limits[side], pos, price)
                  => /\ pos \in 0 .. Len(limits[side]) - 1
                     /\ LimitAt(side, pos) \in Limit
                     /\ LimitAt(side, pos).price = price
                     /\ LimitAt(side, pos).qty = TotalQty(orders[side], price)
<1> DEFINE pos == lower_bound(limits[side], side, price)
<1>1. Consistent(side, limits[side], orders[side])
  BY DEF IInv
<1>2. pos \in 0 .. Len(limits[side]) /\ Len(limits[side]) \in Nat
  BY <1>1, LowerBoundIsPlace, LimitPrices DEF Consistent
<1> HIDE DEF pos
<1>3. ASSUME PriceIsAt(limits[side], pos, price)
      PROVE  /\ pos \in 0 .. Len(limits[side]) - 1
             /\ LimitAt(side, pos) \in Limit
             /\ LimitAt(side, pos).price = price
             /\ LimitAt(side, pos).qty = TotalQty(orders[side], price)
  <2>1. pos + 1 \in 1 .. Len(limits[side]) /\ pos \in 0 .. Len(limits[side]) - 1
    BY <1>2, <1>3 DEF PriceIsAt
  <2>2. limits[side] \in Seq(Limit)
    BY <1>1 DEF Consistent
  <2>3. LimitAt(side, pos) \in Limit
    BY <2>1, <2>2 DEF LimitAt
  <2>4. LimitAt(side, pos).price = price
    BY <1>3 DEF PriceIsAt, LimitAt
  <2>5. LimitAt(side, pos).qty = TotalQty(orders[side], LimitAt(side, pos).price)
    BY <1>1, <2>1 DEF Consistent, LimitAt
  <2> QED BY <2>1, <2>3, <2>4, <2>5
<1> QED BY <1>2, <1>3 DEF pos

-----------------------------------------------------------------------------
(* What the four kinds of Data tell the reporter to do.                     *)

LEMMA ReplayNew ==
  ASSUME NEW side, NEW pos, NEW limit, pos <= Len(limits[side]),
         pushed' = Data("A", side, pos, limit),
         limits' = [limits EXCEPT ![side] = InsertAt(@, pos + 1, limit)]
  PROVE  Replays
BY Zenon DEF Replays, InRange, Replay, Data

LEMMA ReplayCancel ==
  ASSUME NEW side, NEW pos, NEW limit, pos < Len(limits[side]),
         pushed' = Data("X", side, pos, limit),
         limits' = [limits EXCEPT ![side] = RemoveAt(@, pos + 1)]
  PROVE  Replays
BY Zenon DEF Replays, InRange, Replay, Data

LEMMA ReplayModify ==
  ASSUME NEW side, NEW pos, NEW limit, pos < Len(limits[side]),
         pushed' = Data("M", side, pos, limit),
         limits' = [limits EXCEPT ![side] = ReplaceAt(@, pos + 1, limit)]
  PROVE  Replays
BY Zenon DEF Replays, InRange, Replay, Data

LEMMA ReplayTrade ==
  ASSUME NEW side, NEW limit, pushed' = Data("T", side, 0, limit), UNCHANGED limits
  PROVE  Replays
BY Zenon DEF Replays, InRange, Replay, Data

-----------------------------------------------------------------------------
(* The handlers.                                                            *)

LEMMA newOrderIsSafe ==
  ASSUME IInv, NEW side \in Side, NEW id \in OrderId, NEW order \in MessageOrder,
         newOrder(side, id, order)
  PROVE  IInv' /\ Replays
<1> DEFINE deque == limits[side]
           map   == orders[side]
           pos   == lower_bound(deque, side, order.price)
           limit == [LimitAt(side, pos) EXCEPT !.qty = @ + order.qty]
           more  == WithOrder(map, id, order)
<1>1. CASE Refuse("duplicateOrderIds")
  BY <1>1, RefuseIsSafe DEF Errors, CriticalErrors
<1>2. ASSUME \A s \in Side : id \notin Live(s), AddToLimits(side, order),
             orders' = [orders EXCEPT ![side] = more],
             UNCHANGED errors
      PROVE  IInv' /\ Replays
  <2>1. Consistent(side, deque, map) /\ map \in OrderMap
    BY DEF IInv, Consistent
  <2>2. order \in Limit /\ order.price \in Price /\ order.qty \in Nat \ {0}
    BY MessageOrderIsLimit, QuantityAssumption DEF MessageOrder
  <2>3. /\ pos \in 0 .. Len(deque) /\ Len(deque) \in Nat
        /\ PriceIsAt(deque, pos, order.price)
             => /\ pos \in 0 .. Len(deque) - 1
                /\ LimitAt(side, pos) \in Limit
                /\ LimitAt(side, pos).price = order.price
                /\ LimitAt(side, pos).qty = TotalQty(map, order.price)
    BY <2>2, PlaceOfMessage
  <2>4. /\ more \in OrderMap
        /\ DOMAIN more = DOMAIN map \cup {id}
        /\ more[id] = order
        /\ \A k \in DOMAIN map : more[k] = map[k]
        /\ \A price : TotalQty(more, price) = TotalQty(map, price) + Share(order, price)
    BY <2>1, <1>2, AddOrder DEF Live
  <2>5. \A s \in Side \ {side} : DOMAIN more \cap Live(s) = {}
    BY <2>4, <1>2 DEF IInv, OneSidePerOrder, Live, Side
  <2>6. CASE /\ ~PriceIsAt(deque, pos, order.price)
             /\ pushed' = Data("A", side, pos, order)
             /\ limits' = [limits EXCEPT ![side] = InsertAt(@, pos + 1, order)]
    <3>1. Consistent(side, InsertAt(deque, pos + 1, order), more)
      BY <2>1, <2>6, <1>2, OpenLimit DEF Live
    <3>2. pushed' \in DataType
      BY <2>2, <2>3, <2>6, DataTypes
    <3>3. limits' = [limits EXCEPT ![side] = InsertAt(deque, pos + 1, order)]
      BY <2>6
    <3> HIDE DEF more, pos
    <3>4. IInv'
      BY <3>1, <3>2, <3>3, <2>5, <1>2, ChangeSide
    <3>5. pos <= Len(limits[side])
      BY <2>3
    <3>6. Replays
      BY Zenon, <3>5, <2>6, ReplayNew
    <3> QED BY <3>4, <3>6
  <2>7. CASE /\ PriceIsAt(deque, pos, order.price)
             /\ pushed' = Data("M", side, pos, limit)
             /\ limits' = [limits EXCEPT ![side] = ReplaceAt(@, pos + 1, limit)]
    <3>1. limit.price = order.price /\ limit.qty = TotalQty(map, order.price) + order.qty
      BY <2>3, <2>7 DEF Limit
    <3>2. TotalQty(map, order.price) \in Nat
      BY <2>1, UnitsAreFinite
    <3>3. limit \in Limit
      BY <3>1, <3>2, <2>2, <2>3, <2>7 DEF Limit
    <3> HIDE DEF limit, more
    <3>4. limit.qty = TotalQty(more, limit.price)
      BY <3>1, <2>4 DEF Share
    <3>5. \A price : price # limit.price => TotalQty(more, price) = TotalQty(map, price)
      <4>1. \A price : TotalQty(map, price) \in Nat
        BY <2>1, UnitsAreFinite
      <4> QED BY <4>1, <3>1, <2>4 DEF Share
    <3>6. \A k \in DOMAIN more :
            more[k].price = limit.price
              \/ (k \in DOMAIN map /\ more[k].price = map[k].price)
      BY <3>1, <2>4
    <3>7. limit.price = deque[pos + 1].price /\ pos \in 0 .. Len(deque) - 1
      BY <3>1, <2>3, <2>7 DEF LimitAt
    <3> HIDE DEF pos
    <3>8. Consistent(side, ReplaceAt(deque, pos + 1, limit), more)
      BY <3>3, <3>4, <3>5, <3>6, <3>7, <2>1, <2>4, OverwriteLimit
    <3>9. pushed' \in DataType
      BY <3>3, <3>7, <2>7, DataTypes
    <3>10. limits' = [limits EXCEPT ![side] = ReplaceAt(deque, pos + 1, limit)]
      BY <2>7
    <3>11. IInv'
      BY <3>8, <3>9, <3>10, <2>5, <1>2, ChangeSide
    <3>12. pos < Len(limits[side])
      BY <3>7, <2>3
    <3>13. Replays
      BY Zenon, <3>12, <2>7, ReplayModify
    <3> QED BY <3>11, <3>13
  <2> QED BY <2>6, <2>7, <1>2 DEF AddToLimits
<1> QED BY <1>1, <1>2 DEF newOrder

\* A live order has a limit, where lower_bound finds it, that holds at least
\* its quantity: the critical refusals cannot happen.
LEMMA LiveOrderHasLimit ==
  ASSUME IInv, NEW side \in Side, NEW id \in Live(side)
  PROVE  LET price == orders[side][id].price
             pos   == lower_bound(limits[side], side, price)
         IN  /\ PriceIsAt(limits[side], pos, price)
             /\ pos \in 0 .. Len(limits[side]) - 1
             /\ pos < Len(limits[side])
             /\ pos \in Nat
             /\ LimitAt(side, pos) \in Limit
             /\ LimitAt(side, pos).price = price
             /\ LimitAt(side, pos).qty = TotalQty(orders[side], price)
             /\ LimitAt(side, pos).qty >= orders[side][id].qty
             /\ orders[side][id].qty \in Nat \ {0}
<1> DEFINE map   == orders[side]
           price == map[id].price
           pos   == lower_bound(limits[side], side, price)
<1>1. /\ Consistent(side, limits[side], map)
      /\ limits[side] \in Seq(Limit) /\ Sorted(limits[side], side)
      /\ map \in OrderMap /\ id \in DOMAIN map
  BY DEF IInv, Consistent, Live
<1>2. price \in Price /\ map[id].qty \in Nat \ {0}
  BY <1>1, OrderMapFacts
<1>3. PICK i \in 1 .. Len(limits[side]) : limits[side][i].price = price
  BY <1>1 DEF Consistent
<1>4. PriceIsAt(limits[side], pos, price)
  BY <1>1, <1>3, PriceHasOnePlace
<1>5. TotalQty(map, price) >= map[id].qty
  BY <1>1, NoUnitsNoOrder
<1>6. /\ pos \in 0 .. Len(limits[side]) - 1
      /\ Len(limits[side]) \in Nat
      /\ LimitAt(side, pos) \in Limit
      /\ LimitAt(side, pos).price = price
      /\ LimitAt(side, pos).qty = TotalQty(map, price)
  BY <1>2, <1>4, PlaceOfMessage
<1> HIDE DEF pos
<1>7. pos < Len(limits[side]) /\ pos \in Nat
  BY <1>6
<1> QED BY <1>2, <1>4, <1>5, <1>6, <1>7 DEF pos

\* What cancels and modifies share: the limit of a live order loses the
\* quantity of the order and gains another, and so does the map.
LEMMA ChangeLimitIsSafe ==
  ASSUME IInv, NEW side \in Side, NEW id \in Live(side), NEW added \in Nat,
         NEW other \in OrderMap,
         \A price : TotalQty(other, price) =
                      (TotalQty(orders[side], price) - Share(orders[side][id], price))
                      + (IF price = orders[side][id].price THEN added ELSE 0),
         \A k \in DOMAIN other : /\ k \in Live(side)
                                 /\ other[k].price = orders[side][k].price,
         ChangeLimit(side, orders[side][id].price, orders[side][id].qty, added),
         orders' = [orders EXCEPT ![side] = other],
         UNCHANGED errors
  PROVE  IInv' /\ Replays
<1> DEFINE deque == limits[side]
           map   == orders[side]
           price == map[id].price
           pos   == lower_bound(deque, side, price)
           limit == [LimitAt(side, pos) EXCEPT !.qty = (@ - map[id].qty) + added]
<1>1. Consistent(side, deque, map) /\ map \in OrderMap
  BY DEF IInv, Consistent
<1>2. /\ pos \in 0 .. Len(deque) - 1
      /\ pos < Len(deque)
      /\ pos \in Nat
      /\ LimitAt(side, pos) \in Limit
      /\ LimitAt(side, pos).price = price
      /\ LimitAt(side, pos).qty = TotalQty(map, price)
      /\ LimitAt(side, pos).qty >= map[id].qty
      /\ map[id].qty \in Nat \ {0}
  BY LiveOrderHasLimit
<1>3. \A p : TotalQty(map, p) \in Nat
  BY <1>1, UnitsAreFinite
<1>4. /\ limit = [qty |-> (TotalQty(map, price) - map[id].qty) + added, price |-> price]
      /\ price \in Price
  BY <1>2 DEF Limit
<1>5. limit.qty \in Nat /\ limit.price = price /\ deque[pos + 1].price = price
  <2>1. deque[pos + 1].price = price
    BY <1>2 DEF LimitAt
  <2>2. limit.price = price /\ limit.qty = (TotalQty(map, price) - map[id].qty) + added
    BY <1>4
  <2>3. TotalQty(map, price) \in Nat /\ TotalQty(map, price) >= map[id].qty
    BY <1>2, <1>3
  <2> HIDE DEF limit
  <2> QED BY <2>1, <2>2, <2>3, <1>2
<1>6. TotalQty(other, price) = limit.qty
  BY <1>4 DEF Share
<1>7. \A p : p # price => TotalQty(other, p) = TotalQty(map, p)
  BY <1>3 DEF Share
<1>8. \A s \in Side \ {side} : DOMAIN other \cap Live(s) = {}
  BY DEF IInv, OneSidePerOrder, Live, Side
<1>9. \A k \in DOMAIN other : k \in DOMAIN map /\ other[k].price = map[k].price
  BY DEF Live
<1>10. CASE /\ limit.qty = 0
            /\ pushed' = Data("X", side, pos, NoLimit)
            /\ limits' = [limits EXCEPT ![side] = RemoveAt(@, pos + 1)]
  <2> HIDE DEF limit
  <2>1. TotalQty(other, deque[pos + 1].price) = 0
    BY <1>5, <1>6, <1>10
  <2>2. \A p : p # deque[pos + 1].price => TotalQty(other, p) = TotalQty(map, p)
    BY <1>5, <1>7
  <2> HIDE DEF pos
  <2>3. Consistent(side, RemoveAt(deque, pos + 1), other)
    BY <1>1, <1>2, <1>9, <2>1, <2>2, EraseLimit
  <2>4. limits' = [limits EXCEPT ![side] = RemoveAt(deque, pos + 1)]
    BY <1>10
  <2>5. pushed' \in DataType
    BY <1>2, <1>10, DataTypes
  <2>6. IInv'
    BY <2>3, <2>4, <2>5, <1>8, ChangeSide
  <2>7. Replays
    BY Zenon, <1>2, <1>10, ReplayCancel
  <2> QED BY <2>6, <2>7
<1>11. CASE /\ limit.qty # 0
            /\ pushed' = Data("M", side, pos, limit)
            /\ limits' = [limits EXCEPT ![side] = ReplaceAt(@, pos + 1, limit)]
  <2>1. limit \in Limit
    BY <1>4, <1>5, <1>11 DEF Limit
  <2> HIDE DEF limit, pos
  <2>2. Consistent(side, ReplaceAt(deque, pos + 1, limit), other)
    BY <1>1, <1>2, <1>5, <1>6, <1>7, <1>9, <2>1, OverwriteLimit
  <2>3. limits' = [limits EXCEPT ![side] = ReplaceAt(deque, pos + 1, limit)]
    BY <1>11
  <2>4. pushed' \in DataType
    BY <1>2, <1>11, <2>1, DataTypes
  <2>5. IInv'
    BY <2>2, <2>3, <2>4, <1>8, ChangeSide
  <2>6. Replays
    BY Zenon, <1>2, <1>11, ReplayModify
  <2> QED BY <2>5, <2>6
<1> QED BY <1>10, <1>11 DEF ChangeLimit

LEMMA cancelOrderIsSafe ==
  ASSUME IInv, NEW side \in Side, NEW id \in OrderId, NEW order \in MessageOrder,
         cancelOrder(side, id, order)
  PROVE  IInv' /\ Replays
<1> DEFINE refusal == cancelRefusal(side, id, order)
           rest    == Restrict(orders[side], Live(side) \ {id})
<1>1. ASSUME id \in Live(side), orders[side][id] = order
      PROVE  refusal = Accepted
  <2>1. LET pos == lower_bound(limits[side], side, order.price)
        IN  /\ PriceIsAt(limits[side], pos, order.price)
            /\ LimitAt(side, pos) \in Limit
            /\ LimitAt(side, pos).qty >= order.qty
            /\ order.qty \in Nat
    BY <1>1, LiveOrderHasLimit
  <2>2. \A l \in Limit : l.qty \in Nat
    BY DEF Limit
  <2> QED BY <1>1, <2>1, <2>2 DEF cancelRefusal, Accepted
<1>2. CASE refusal # Accepted /\ Refuse(refusal)
  <2>1. refusal \in Errors \ CriticalErrors
    BY <1>1, <1>2 DEF cancelRefusal, Errors, CriticalErrors, Accepted
  <2> QED BY <2>1, <1>2, RefuseIsSafe
<1>3. CASE /\ refusal = Accepted
           /\ ChangeLimit(side, order.price, order.qty, 0)
           /\ orders' = [orders EXCEPT ![side] = Restrict(@, DOMAIN @ \ {id})]
           /\ UNCHANGED errors
  <2>1. id \in Live(side) /\ orders[side][id] = order
    BY <1>3 DEF cancelRefusal, Accepted
  <2>2. orders[side] \in OrderMap
    BY DEF IInv, Consistent
  <2>3. /\ rest \in OrderMap
        /\ DOMAIN rest = Live(side) \ {id}
        /\ \A price : TotalQty(orders[side], price)
                         = TotalQty(rest, price) + Share(orders[side][id], price)
    BY <2>1, <2>2, TotalSplits DEF Live
  <2>4. \A k \in DOMAIN rest : k \in Live(side) /\ rest[k].price = orders[side][k].price
    BY <2>3 DEF Restrict
  <2>5. orders' = [orders EXCEPT ![side] = rest]
    BY <1>3 DEF Live
  <2> HIDE DEF rest
  <2>6. \A price : TotalQty(rest, price) =
                     (TotalQty(orders[side], price) - Share(orders[side][id], price))
                     + (IF price = orders[side][id].price THEN 0 ELSE 0)
    <3>1. \A price : TotalQty(rest, price) \in Nat
      BY <2>3, UnitsAreFinite
    <3>2. \A price : Share(orders[side][id], price) \in Nat
      BY <2>1, QuantityAssumption DEF Share, MessageOrder
    <3> QED BY <2>3, <3>1, <3>2
  <2>7. ChangeLimit(side, orders[side][id].price, orders[side][id].qty, 0)
    BY <1>3, <2>1
  <2> QED BY <1>3, <2>1, <2>3, <2>4, <2>5, <2>6, <2>7, ChangeLimitIsSafe
<1> QED BY <1>2, <1>3 DEF cancelOrder

LEMMA modifyOrderIsSafe ==
  ASSUME IInv, NEW side \in Side, NEW id \in OrderId, NEW order \in MessageOrder,
         modifyOrder(side, id, order)
  PROVE  IInv' /\ Replays
<1> DEFINE refusal == modifyRefusal(side, id, order)
           other   == [orders[side] EXCEPT ![id] = order]
<1>1. ASSUME id \in Live(side), orders[side][id].price = order.price
      PROVE  refusal = Accepted
  <2>1. LET pos == lower_bound(limits[side], side, order.price)
        IN  /\ PriceIsAt(limits[side], pos, order.price)
            /\ LimitAt(side, pos) \in Limit
            /\ LimitAt(side, pos).qty >= orders[side][id].qty
            /\ orders[side][id].qty \in Nat
    BY <1>1, LiveOrderHasLimit
  <2>2. \A l \in Limit : l.qty \in Nat
    BY DEF Limit
  <2> QED BY <1>1, <2>1, <2>2 DEF modifyRefusal, Accepted
<1>2. CASE refusal # Accepted /\ Refuse(refusal)
  <2>1. refusal \in Errors \ CriticalErrors
    BY <1>1, <1>2 DEF modifyRefusal, Errors, CriticalErrors, Accepted
  <2> QED BY <2>1, <1>2, RefuseIsSafe
<1>3. CASE /\ refusal = Accepted
           /\ ChangeLimit(side, order.price, orders[side][id].qty, order.qty)
           /\ orders' = [orders EXCEPT ![side][id] = order]
           /\ UNCHANGED errors
  <2>1. id \in Live(side) /\ orders[side][id].price = order.price
    BY <1>3 DEF modifyRefusal, Accepted
  <2>2. orders[side] \in OrderMap
    BY DEF IInv, Consistent
  <2>3. /\ other \in OrderMap
        /\ DOMAIN other = Live(side)
        /\ other[id] = order
        /\ \A k \in Live(side) \ {id} : other[k] = orders[side][k]
        /\ \A price : TotalQty(other, price)
                         = (TotalQty(orders[side], price)
                              - Share(orders[side][id], price)) + Share(order, price)
    BY <2>1, <2>2, ChangeOrder DEF Live
  <2>4. orders' = [orders EXCEPT ![side] = other]
    BY <1>3
  <2> HIDE DEF other
  <2>5. \A k \in DOMAIN other : k \in Live(side) /\ other[k].price = orders[side][k].price
    BY <2>1, <2>3
  <2>6. \A price : Share(order, price)
                     = IF price = orders[side][id].price THEN order.qty ELSE 0
    BY <2>1 DEF Share
  <2>7. ChangeLimit(side, orders[side][id].price, orders[side][id].qty, order.qty)
    BY <1>3, <2>1
  <2>8. order.qty \in Nat
    BY QuantityAssumption DEF MessageOrder
  <2>9. \A price : TotalQty(other, price) =
                     (TotalQty(orders[side], price) - Share(orders[side][id], price))
                     + (IF price = orders[side][id].price THEN order.qty ELSE 0)
    BY <2>3, <2>6
  <2>10. other \in OrderMap /\ UNCHANGED errors
    BY <2>3, <1>3
  <2> QED BY <2>1, <2>4, <2>5, <2>7, <2>8, <2>9, <2>10, ChangeLimitIsSafe
<1> QED BY <1>2, <1>3 DEF modifyOrder

LEMMA forwardTradeIsSafe ==
  ASSUME IInv, NEW trade \in MessageOrder, forwardTrade(trade)
  PROVE  IInv' /\ Replays
<1>1. pushed' = Data("T", NoSide, 0, trade) /\ UNCHANGED <<limits, orders, errors>>
  BY DEF forwardTrade
<1>2. pushed' \in DataType
  BY <1>1, MessageOrderIsLimit DEF Data, DataType
<1>3. IInv'
  BY <1>1, <1>2 DEF IInv, OneSidePerOrder, Live, NoCriticalErrors
<1>4. Replays
  BY <1>1, ReplayTrade
<1> QED BY <1>3, <1>4

-----------------------------------------------------------------------------
(* The invariant is inductive.                                              *)

LEMMA InitIsConsistent == Init => IInv
<1> SUFFICES ASSUME Init PROVE IInv
  OBVIOUS
<1> USE DEF Init
<1>1. \A side \in Side : limits[side] = << >> /\ orders[side] = << >>
  OBVIOUS
<1>2. << >> \in OrderMap
  <2>1. << >> \in [{} -> MessageOrder]
    OBVIOUS
  <2> QED BY <2>1 DEF OrderMap
<1>3. \A side \in Side : Consistent(side, << >>, << >>)
  BY <1>2 DEF Consistent, Sorted
<1>4. pushed \in DataType
  BY DEF NoData, Data, DataType
<1>5. OneSidePerOrder
  BY <1>1 DEF OneSidePerOrder, Live, Side
<1>6. NoCriticalErrors
  BY DEF NoCriticalErrors, Errors
<1>7. errors \in [Errors -> Nat]
  OBVIOUS
<1> QED BY <1>1, <1>3, <1>4, <1>5, <1>6, <1>7 DEF IInv

\* Any message.
LEMMA MessageIsSafe ==
  ASSUME IInv, processMessage
  PROVE  IInv' /\ Replays
<1>1. ASSUME NEW side \in Side, NEW id \in OrderId, NEW order \in MessageOrder,
             newOrder(side, id, order)
      PROVE  IInv' /\ Replays
  BY <1>1, newOrderIsSafe
<1>2. ASSUME NEW side \in Side, NEW id \in OrderId, NEW order \in MessageOrder,
             cancelOrder(side, id, order)
      PROVE  IInv' /\ Replays
  BY <1>2, cancelOrderIsSafe
<1>3. ASSUME NEW side \in Side, NEW id \in OrderId, NEW order \in MessageOrder,
             modifyOrder(side, id, order)
      PROVE  IInv' /\ Replays
  BY <1>3, modifyOrderIsSafe
<1>4. ASSUME NEW trade \in MessageOrder, forwardTrade(trade)
      PROVE  IInv' /\ Replays
  BY <1>4, forwardTradeIsSafe
<1>5. CASE Refuse(ParsingErrors)
  <2>1. ParsingErrors \in Errors \ CriticalErrors
    BY DEF Errors, CriticalErrors, ParsingErrors
  <2> QED BY <2>1, <1>5, RefuseIsSafe
<1> QED BY <1>1, <1>2, <1>3, <1>4, <1>5 DEF processMessage

LEMMA StepIsSafe == IInv /\ [Next]_vars => IInv' /\ [Replays]_vars
<1>1. ASSUME IInv, UNCHANGED vars
      PROVE  IInv'
  BY <1>1 DEF vars, IInv, OneSidePerOrder, Live, NoCriticalErrors
<1> QED BY <1>1, MessageIsSafe DEF Next

\* The invariant holds in every state of every feed.
THEOREM BookIsConsistent == Spec => []IInv
BY InitIsConsistent, StepIsSafe, PTL DEF Spec

-----------------------------------------------------------------------------
(* The properties.                                                          *)

\* The fields keep their types: no limit and no order of quantity 0 is ever
\* stored, in any book of any depth.
THEOREM TypeIsOK == Spec => []TypeOK
<1>1. IInv => TypeOK
  BY DEF IInv, TypeOK, Consistent, OrderMap
<1> QED BY <1>1, BookIsConsistent, PTL

\* The deques are strictly sorted, whatever limits are opened and erased.
THEOREM BookIsSorted == Spec => []SortedBook
<1>1. IInv => SortedBook
  BY DEF IInv, SortedBook, Consistent
<1> QED BY <1>1, BookIsConsistent, PTL

\* The quantity of each limit is the sum over the live orders at its price.
THEOREM BookIsAggregated == Spec => []AggregatedBook
<1>1. IInv => AggregatedBook
  <2> SUFFICES ASSUME IInv, NEW side \in Side
               PROVE  /\ \A i \in DOMAIN limits[side] :
                            limits[side][i].qty
                              = TotalQty(orders[side], limits[side][i].price)
                      /\ \A id \in Live(side) : \E i \in DOMAIN limits[side] :
                            limits[side][i].price = orders[side][id].price
    BY DEF AggregatedBook
  <2>1. Consistent(side, limits[side], orders[side]) /\ limits[side] \in Seq(Limit)
    BY DEF IInv, Consistent
  <2>2. DOMAIN limits[side] = 1 .. Len(limits[side])
    BY <2>1, LimitPrices
  <2> QED BY <2>1, <2>2 DEF Consistent, Live
<1> QED BY <1>1, BookIsConsistent, PTL

\* No id lives on both sides.
THEOREM OrdersHaveOneSide == Spec => []OneSidePerOrder
<1>1. IInv => OneSidePerOrder
  BY DEF IInv
<1> QED BY <1>1, BookIsConsistent, PTL

\* The errors that "should never happen" never do.
THEOREM CriticalErrorsNeverHappen == Spec => []NoCriticalErrors
<1>1. IInv => NoCriticalErrors
  BY DEF IInv
<1> QED BY <1>1, BookIsConsistent, PTL

\* The Data of every message replays what the message did to the deques.
THEOREM EventsReplay == Spec => EventReplays
<1>1. IInv /\ [Next]_vars =>
        [InRange(limits, pushed') /\ limits' = Replay(limits, pushed')]_vars
  BY StepIsSafe DEF Replays
<1> QED BY <1>1, BookIsConsistent, PTL DEF Spec, EventReplays

-----------------------------------------------------------------------------
(* The order book that the deques and the maps implement.                   *)

\* The quantity that stands at a price is the sum over the live orders there:
\* the deques can be read off the maps.
LEMMA DepthIsTotal ==
  IInv => \A side \in Side, price \in Price :
            Depth(side, price) = TotalQty(orders[side], price)
<1> SUFFICES ASSUME IInv, NEW side \in Side, NEW price \in Price
             PROVE  Depth(side, price) = TotalQty(orders[side], price)
  OBVIOUS
<1> DEFINE at == {i \in DOMAIN limits[side] : limits[side][i].price = price}
<1>1. Consistent(side, limits[side], orders[side]) /\ limits[side] \in Seq(Limit)
  BY DEF IInv, Consistent
<1>2. DOMAIN limits[side] = 1 .. Len(limits[side])
  BY <1>1, LimitPrices
<1>3. CASE at = {}
  <2>1. OrdersAt(orders[side], price) = {}
    BY <1>1, <1>2, <1>3 DEF Consistent, OrdersAt
  <2>2. TotalQty(orders[side], price) = 0
    BY <2>1, FS_EmptySet DEF UnitsAt, TotalQty
  <2> QED BY <2>2, <1>3 DEF Depth
<1>4. CASE at # {}
  <2> DEFINE i == CHOOSE i \in at : TRUE
  <2>1. i \in at
    BY <1>4
  <2>2. limits[side][i].qty = TotalQty(orders[side], limits[side][i].price)
    BY <2>1, <1>1, <1>2 DEF Consistent
  <2> QED BY <2>1, <2>2, <1>4 DEF Depth
<1> QED BY <1>3, <1>4

\* A live order, as the abstract book has it.
LEMMA LiveOrdersAre ==
  OneSidePerOrder =>
    /\ DOMAIN LiveOrders = Live("B") \cup Live("S")
    /\ \A side \in Side : \A id \in Live(side) :
         LiveOrders[id] = [side  |-> side,
                           qty   |-> orders[side][id].qty,
                           price |-> orders[side][id].price]
<1> SUFFICES ASSUME OneSidePerOrder, NEW side \in Side, NEW id \in Live(side)
             PROVE  LiveOrders[id] = [side  |-> side,
                                      qty   |-> orders[side][id].qty,
                                      price |-> orders[side][id].price]
  BY DEF LiveOrders
<1>1. (CHOOSE s \in Side : id \in Live(s)) = side
  BY DEF OneSidePerOrder, Side
<1>2. id \in Live("B") \cup Live("S")
  BY DEF Side
<1> QED BY <1>1, <1>2 DEF LiveOrders



\* What the abstract book shows of a state, and of the next one.
Shown ==
  /\ \A side \in Side, price \in Price :
       Depth(side, price) = TotalQty(orders[side], price)
  /\ DOMAIN LiveOrders = Live("B") \cup Live("S")
  /\ \A side \in Side : \A id \in Live(side) :
       LiveOrders[id] = [side  |-> side,
                         qty   |-> orders[side][id].qty,
                         price |-> orders[side][id].price]

LEMMA InvariantShows == IInv => Shown
BY DepthIsTotal, LiveOrdersAre DEF IInv, Shown

LEMMA NextInvariantShows == IInv' => Shown'
BY InvariantShows, PTL

DepthMap == [side \in Side |-> [price \in Price |-> Depth(side, price)]]

\* The depths when the quantity at one price is another.
DepthWith(side, price, qty) == [DepthMap EXCEPT ![side][price] = qty]

\* One side gets another map of orders, which differs at one price: so does
\* the depth.
LEMMA DepthChanges ==
  ASSUME IInv, IInv', NEW side \in Side, NEW price \in Price, NEW map,
         orders' = [orders EXCEPT ![side] = map],
         \A p \in Price : p # price => TotalQty(map, p) = TotalQty(orders[side], p)
  PROVE  DepthMap' = DepthWith(side, price, TotalQty(map, price))
<1> DEFINE D(s, p)   == Depth(s, p)
           Dn(s, p)  == Depth(s, p)'
<1>1. DepthMap = [s \in Side |-> [p \in Price |-> D(s, p)]]
  BY DEF DepthMap
<1>2. DepthMap' = [s \in Side |-> [p \in Price |-> Dn(s, p)]]
  BY DEF DepthMap
<1>3. \A s \in Side, p \in Price :
        Dn(s, p) = IF s = side /\ p = price THEN TotalQty(map, price) ELSE D(s, p)
  <2>1. \A s \in Side, p \in Price : Depth(s, p) = TotalQty(orders[s], p)
    BY InvariantShows DEF Shown
  <2>2. \A s \in Side, p \in Price : Depth(s, p)' = TotalQty(orders'[s], p)
    BY NextInvariantShows DEF Shown
  <2>3. \A s \in Side : orders'[s] = IF s = side THEN map ELSE orders[s]
    BY DEF IInv
  <2> QED BY <2>1, <2>2, <2>3
<1> HIDE DEF D, Dn
<1>4. [DepthMap EXCEPT ![side][price] = TotalQty(map, price)]
        = [s \in Side |-> [p \in Price |->
             IF s = side /\ p = price THEN TotalQty(map, price) ELSE D(s, p)]]
  BY <1>1
<1>5. \A s \in Side : [p \in Price |-> Dn(s, p)]
                       = [p \in Price |-> IF s = side /\ p = price THEN TotalQty(map, price) ELSE D(s, p)]
  BY <1>3
<1> QED BY <1>2, <1>4, <1>5 DEF DepthWith

\* The live orders are those of the two maps, each with its side.
LEMMA LiveOrdersChange ==
  ASSUME IInv, IInv', NEW side \in Side, NEW map,
         orders' = [orders EXCEPT ![side] = map]
  PROVE  /\ DOMAIN LiveOrders' = DOMAIN map \cup (DOMAIN LiveOrders \ Live(side))
         /\ \A id \in DOMAIN map :
              LiveOrders'[id] = [side  |-> side,
                                 qty   |-> map[id].qty,
                                 price |-> map[id].price]
         /\ \A id \in DOMAIN LiveOrders \ Live(side) :
              LiveOrders'[id] = LiveOrders[id]
<1>1. \A s \in Side : orders'[s] = IF s = side THEN map ELSE orders[s]
  BY DEF IInv
<1>2. Shown /\ Shown' /\ OneSidePerOrder /\ OneSidePerOrder'
  BY InvariantShows, NextInvariantShows DEF IInv
<1>3. DOMAIN LiveOrders' = DOMAIN map \cup (DOMAIN LiveOrders \ Live(side))
  BY <1>1, <1>2 DEF Shown, OneSidePerOrder, Live, Side
<1>4. ASSUME NEW id \in DOMAIN map
      PROVE  LiveOrders'[id] = [side |-> side, qty |-> map[id].qty, price |-> map[id].price]
  BY <1>1, <1>2 DEF Shown, Live
<1>5. ASSUME NEW id \in DOMAIN LiveOrders \ Live(side)
      PROVE  LiveOrders'[id] = LiveOrders[id]
  <2>1. PICK s \in Side \ {side} : id \in Live(s)
    BY <1>2 DEF Shown, Side
  <2>2. orders'[s] = orders[s]
    BY <1>1
  <2>3. id \in Live(s)' /\ s \in Side
    BY <2>1, <2>2 DEF Live
  <2>4. LiveOrders'[id] = [side |-> s, qty |-> orders'[s][id].qty, price |-> orders'[s][id].price]
    BY <2>3, <1>2 DEF Shown
  <2>5. LiveOrders[id] = [side |-> s, qty |-> orders[s][id].qty, price |-> orders[s][id].price]
    BY <2>1, <1>2 DEF Shown
  <2> QED BY <2>2, <2>4, <2>5
<1> QED BY <1>3, <1>4, <1>5

LEMMA LiveOrdersIsFunction == LiveOrders = [id \in DOMAIN LiveOrders |-> LiveOrders[id]]
BY DEF LiveOrders

LEMMA NextLiveOrdersIsFunction == LiveOrders' = [id \in DOMAIN LiveOrders' |-> LiveOrders'[id]]
BY DEF LiveOrders

\* An accepted new order opens an order of the abstract book.
LEMMA newOrderOpens ==
  ASSUME IInv, IInv', NEW side \in Side, NEW id \in OrderId, NEW order \in MessageOrder,
         \A s \in Side : id \notin Live(s),
         orders' = [orders EXCEPT ![side] = WithOrder(@, id, order)]
  PROVE  Book!Next
<1> DEFINE map  == orders[side]
           more == WithOrder(map, id, order)
           live == [side |-> side, qty |-> order.qty, price |-> order.price]
<1>1. /\ more \in OrderMap
      /\ DOMAIN more = DOMAIN map \cup {id}
      /\ more[id] = order
      /\ \A k \in DOMAIN map : more[k] = map[k]
      /\ \A price : TotalQty(more, price) = TotalQty(map, price) + Share(order, price)
  <2>1. map \in OrderMap /\ id \notin DOMAIN map
    BY DEF IInv, Consistent, Live
  <2> QED BY <2>1, AddOrder
<1>2. orders' = [orders EXCEPT ![side] = more]
  OBVIOUS
<1>3. order.price \in Price /\ order.qty \in Nat
  BY QuantityAssumption DEF MessageOrder
<1>4. \A price : TotalQty(map, price) \in Nat
  BY UnitsAreFinite DEF IInv, Consistent
<1>5. DepthMap[side][order.price] = TotalQty(map, order.price)
  BY <1>3, InvariantShows DEF Shown, DepthMap
<1> HIDE DEF more
<1>6. DepthMap' = [DepthMap EXCEPT ![side][order.price] = @ + order.qty]
  <2>1. TotalQty(more, order.price) = TotalQty(map, order.price) + order.qty
    BY <1>1 DEF Share
  <2>2. \A p \in Price : p # order.price => TotalQty(more, p) = TotalQty(map, p)
    BY <1>1, <1>4 DEF Share
  <2>3. DepthMap' = [DepthMap EXCEPT ![side][order.price]
                       = TotalQty(map, order.price) + order.qty]
    <3>1. DepthMap' = DepthWith(side, order.price, TotalQty(more, order.price))
      BY <2>2, <1>2, <1>3, DepthChanges
    <3> QED BY <3>1, <2>1 DEF DepthWith
  <2> QED BY <2>3, <1>5
<1>7. id \notin DOMAIN LiveOrders /\ DOMAIN LiveOrders = Live("B") \cup Live("S")
  BY InvariantShows DEF Shown, Side
<1>8. LiveOrders' = [k \in DOMAIN LiveOrders \cup {id} |->
                       IF k = id THEN live ELSE LiveOrders[k]]
  <2>1. /\ DOMAIN LiveOrders' = DOMAIN more \cup (DOMAIN LiveOrders \ Live(side))
        /\ \A k \in DOMAIN more :
             LiveOrders'[k] = [side |-> side, qty |-> more[k].qty, price |-> more[k].price]
        /\ \A k \in DOMAIN LiveOrders \ Live(side) : LiveOrders'[k] = LiveOrders[k]
    BY <1>2, LiveOrdersChange
  <2>2. DOMAIN LiveOrders' = DOMAIN LiveOrders \cup {id}
    BY <2>1, <1>1, <1>7 DEF Live, Side
  <2>3. LiveOrders'[id] = live
    BY <2>1, <1>1
  <2>4. ASSUME NEW k \in DOMAIN LiveOrders
        PROVE  LiveOrders'[k] = LiveOrders[k]
    <3>1. CASE k \in Live(side)
      <4>1. k \in DOMAIN map /\ k \in DOMAIN more /\ more[k] = map[k]
        BY <3>1, <1>1 DEF Live
      <4>2. LiveOrders[k] = [side |-> side, qty |-> map[k].qty, price |-> map[k].price]
        BY <3>1, InvariantShows DEF Shown
      <4> QED BY <4>1, <4>2, <2>1
    <3> QED BY <3>1, <2>1
  <2> QED BY <2>2, <2>3, <2>4, <1>7, NextLiveOrdersIsFunction
<1>9. live \in Book!LiveOrder
  BY DEF Book!LiveOrder, Book!Side, MessageOrder, Side
<1>10. Book!Open(id, live)
  BY <1>6, <1>7, <1>8 DEF Book!Open, DepthMap
<1> QED BY <1>9, <1>10 DEF Book!Next

\* An accepted cancel closes an order of the abstract book.
LEMMA cancelOrderCloses ==
  ASSUME IInv, IInv', NEW side \in Side, NEW id \in OrderId, id \in Live(side),
         orders' = [orders EXCEPT ![side] = Restrict(@, DOMAIN @ \ {id})]
  PROVE  Book!Next
<1> DEFINE map   == orders[side]
           order == map[id]
           rest  == Restrict(map, DOMAIN map \ {id})
<1>0. map \in OrderMap /\ id \in DOMAIN map /\ DOMAIN map = Live(side)
  BY DEF IInv, Consistent, Live
<1>1. /\ rest \in OrderMap
      /\ DOMAIN rest = DOMAIN map \ {id}
      /\ \A price : TotalQty(map, price) = TotalQty(rest, price) + Share(map[id], price)
  BY <1>0, TotalSplits
<1>2. \A k \in DOMAIN rest : rest[k] = map[k]
  BY DEF Restrict
<1>3. orders' = [orders EXCEPT ![side] = rest]
  OBVIOUS
<1>4. order.price \in Price /\ order.qty \in Nat
  BY <1>0, OrderMapFacts
<1> HIDE DEF rest
<1>5. \A price : TotalQty(rest, price) \in Nat
  BY <1>1, UnitsAreFinite
<1>6. /\ DOMAIN LiveOrders = Live("B") \cup Live("S")
      /\ \A k \in Live(side) :
           LiveOrders[k] = [side |-> side, qty |-> map[k].qty, price |-> map[k].price]
      /\ DepthMap[side][order.price] = TotalQty(map, order.price)
  BY <1>4, InvariantShows DEF Shown, DepthMap
<1>7. DepthMap' = [DepthMap EXCEPT ![side][order.price] = @ - order.qty]
  <2>1. TotalQty(rest, order.price) = TotalQty(map, order.price) - order.qty
    BY <1>1, <1>4, <1>5 DEF Share
  <2>2. \A p \in Price : p # order.price => TotalQty(rest, p) = TotalQty(map, p)
    BY <1>1, <1>5 DEF Share
  <2>3. DepthMap' = DepthWith(side, order.price, TotalQty(rest, order.price))
    BY <2>2, <1>3, <1>4, DepthChanges
  <2> QED BY <2>1, <2>3, <1>6 DEF DepthWith
<1>8. LiveOrders' = Restrict(LiveOrders, DOMAIN LiveOrders \ {id})
  <2>1. /\ DOMAIN LiveOrders' = DOMAIN rest \cup (DOMAIN LiveOrders \ Live(side))
        /\ \A k \in DOMAIN rest :
             LiveOrders'[k] = [side |-> side, qty |-> rest[k].qty, price |-> rest[k].price]
        /\ \A k \in DOMAIN LiveOrders \ Live(side) : LiveOrders'[k] = LiveOrders[k]
    BY <1>3, LiveOrdersChange
  <2>2. DOMAIN LiveOrders' = DOMAIN LiveOrders \ {id}
    BY <2>1, <1>0, <1>1, <1>6 DEF Side
  <2>3. ASSUME NEW k \in DOMAIN LiveOrders \ {id}
        PROVE  LiveOrders'[k] = LiveOrders[k]
    <3>1. CASE k \in Live(side)
      <4>1. k \in DOMAIN rest /\ rest[k] = map[k]
        BY <3>1, <1>0, <1>1, <1>2
      <4> QED BY <3>1, <4>1, <2>1, <1>6
    <3> QED BY <3>1, <2>1
  <2> QED BY <2>2, <2>3, NextLiveOrdersIsFunction DEF Restrict
<1>9. /\ id \in DOMAIN LiveOrders
      /\ LiveOrders[id].side = side
      /\ LiveOrders[id].qty = order.qty
      /\ LiveOrders[id].price = order.price
  <2>1. LiveOrders[id] = [side |-> side, qty |-> map[id].qty, price |-> map[id].price]
    BY <1>6
  <2>2. id \in DOMAIN LiveOrders
    BY <1>6 DEF Side
  <2> QED BY <2>1, <2>2
<1>10. Book!Close(id)
  BY <1>7, <1>8, <1>9 DEF Book!Close, DepthMap, Restrict, Book!Restrict
<1> QED BY <1>10 DEF Book!Next

\* An accepted modify amends the quantity of an order of the abstract book.
LEMMA modifyOrderAmends ==
  ASSUME IInv, IInv', NEW side \in Side, NEW id \in OrderId, id \in Live(side),
         NEW order \in MessageOrder, orders[side][id].price = order.price,
         orders' = [orders EXCEPT ![side][id] = order]
  PROVE  Book!Next
<1> DEFINE map   == orders[side]
           other == [map EXCEPT ![id] = order]
<1>0. map \in OrderMap /\ id \in DOMAIN map /\ DOMAIN map = Live(side)
  BY DEF IInv, Consistent, Live
<1>1. /\ other \in OrderMap
      /\ DOMAIN other = DOMAIN map
      /\ other[id] = order
      /\ \A k \in DOMAIN map \ {id} : other[k] = map[k]
      /\ \A price : TotalQty(other, price)
                      = (TotalQty(map, price) - Share(map[id], price)) + Share(order, price)
  BY <1>0, ChangeOrder
<1>2. orders' = [orders EXCEPT ![side] = other]
  OBVIOUS
<1>3. order.price \in Price /\ order.qty \in Quantity
  BY DEF MessageOrder
<1> HIDE DEF other
<1>4. \A price : TotalQty(map, price) \in Nat
  BY <1>0, UnitsAreFinite
<1>5. /\ DOMAIN LiveOrders = Live("B") \cup Live("S")
      /\ \A k \in Live(side) :
           LiveOrders[k] = [side |-> side, qty |-> map[k].qty, price |-> map[k].price]
      /\ DepthMap[side][order.price] = TotalQty(map, order.price)
  BY <1>3, InvariantShows DEF Shown, DepthMap
<1>6. DepthMap' = [DepthMap EXCEPT ![side][order.price] = (@ - map[id].qty) + order.qty]
  <2>1. TotalQty(other, order.price) = (TotalQty(map, order.price) - map[id].qty) + order.qty
    BY <1>1 DEF Share
  <2>2. \A p \in Price : p # order.price => TotalQty(other, p) = TotalQty(map, p)
    BY <1>1, <1>4 DEF Share
  <2>3. DepthMap' = DepthWith(side, order.price, TotalQty(other, order.price))
    BY <2>2, <1>2, <1>3, DepthChanges
  <2> QED BY <2>1, <2>3, <1>5 DEF DepthWith
<1>7. LiveOrders' = [LiveOrders EXCEPT ![id].qty = order.qty]
  <2>1. /\ DOMAIN LiveOrders' = DOMAIN other \cup (DOMAIN LiveOrders \ Live(side))
        /\ \A k \in DOMAIN other :
             LiveOrders'[k] = [side |-> side, qty |-> other[k].qty, price |-> other[k].price]
        /\ \A k \in DOMAIN LiveOrders \ Live(side) : LiveOrders'[k] = LiveOrders[k]
    BY <1>2, LiveOrdersChange
  <2>2. DOMAIN LiveOrders' = DOMAIN LiveOrders
    BY <2>1, <1>0, <1>1, <1>5 DEF Side
  <2>3. LiveOrders'[id] = [LiveOrders[id] EXCEPT !.qty = order.qty]
    <3>1. LiveOrders[id] = [side |-> side, qty |-> map[id].qty, price |-> map[id].price]
      BY <1>5
    <3>2. LiveOrders'[id] = [side |-> side, qty |-> order.qty, price |-> order.price]
      BY <2>1, <1>0, <1>1
    <3>3. map[id].price = order.price
      OBVIOUS
    <3> QED BY <3>1, <3>2, <3>3
  <2>4. ASSUME NEW k \in DOMAIN LiveOrders \ {id}
        PROVE  LiveOrders'[k] = LiveOrders[k]
    <3>1. CASE k \in Live(side)
      BY <3>1, <2>1, <1>0, <1>1, <1>5
    <3> QED BY <3>1, <2>1
  <2>5. LiveOrders' = [k \in DOMAIN LiveOrders |->
                         IF k = id THEN [LiveOrders[id] EXCEPT !.qty = order.qty]
                         ELSE LiveOrders[k]]
    BY <2>2, <2>3, <2>4, NextLiveOrdersIsFunction
  <2> QED BY <2>5, LiveOrdersIsFunction
<1>8. /\ id \in DOMAIN LiveOrders
      /\ LiveOrders[id].side = side
      /\ LiveOrders[id].qty = map[id].qty
      /\ LiveOrders[id].price = order.price
  <2>1. LiveOrders[id] = [side |-> side, qty |-> map[id].qty, price |-> map[id].price]
    BY <1>5
  <2>2. id \in DOMAIN LiveOrders
    BY <1>5 DEF Side
  <2> QED BY <2>1, <2>2
<1>9. Book!Amend(id, order.qty)
  BY <1>6, <1>7, <1>8 DEF Book!Amend, DepthMap
<1> QED BY <1>3, <1>9 DEF Book!Next

\* Every message is a step of the abstract book or leaves it alone.
LEMMA StepImplementsBook ==
  ASSUME IInv, IInv', [Next]_vars
  PROVE  [Book!Next]_(Book!vars)
<1>1. ASSUME UNCHANGED <<limits, orders>>
      PROVE  UNCHANGED Book!vars
  BY <1>1 DEF Book!vars, LiveOrders, Live, Depth
<1>2. ASSUME NEW side \in Side, NEW id \in OrderId, NEW order \in MessageOrder,
             newOrder(side, id, order)
      PROVE  [Book!Next]_(Book!vars)
  <2>1. CASE Refuse("duplicateOrderIds")
    BY <2>1, <1>1 DEF Refuse
  <2>2. CASE ~Refuse("duplicateOrderIds")
    BY <1>2, <2>2, newOrderOpens DEF newOrder
  <2> QED BY <2>1, <2>2
<1>3. ASSUME NEW side \in Side, NEW id \in OrderId, NEW order \in MessageOrder,
             cancelOrder(side, id, order)
      PROVE  [Book!Next]_(Book!vars)
  <2> DEFINE refusal == cancelRefusal(side, id, order)
  <2>1. CASE Refuse(refusal)
    BY <2>1, <1>1 DEF Refuse
  <2>2. CASE ~Refuse(refusal)
    <3>1. id \in Live(side)
      BY <1>3, <2>2 DEF cancelOrder, cancelRefusal, Accepted
    <3>2. orders' = [orders EXCEPT ![side] = Restrict(@, DOMAIN @ \ {id})]
      BY <1>3, <2>2 DEF cancelOrder
    <3> QED BY <3>1, <3>2, cancelOrderCloses
  <2> QED BY <2>1, <2>2
<1>4. ASSUME NEW side \in Side, NEW id \in OrderId, NEW order \in MessageOrder,
             modifyOrder(side, id, order)
      PROVE  [Book!Next]_(Book!vars)
  <2> DEFINE refusal == modifyRefusal(side, id, order)
  <2>1. CASE Refuse(refusal)
    BY <2>1, <1>1 DEF Refuse
  <2>2. CASE ~Refuse(refusal)
    <3>1. id \in Live(side) /\ orders[side][id].price = order.price
      BY <1>4, <2>2 DEF modifyOrder, modifyRefusal, Accepted
    <3>2. orders' = [orders EXCEPT ![side][id] = order]
      BY <1>4, <2>2 DEF modifyOrder
    <3> QED BY <3>1, <3>2, modifyOrderAmends
  <2> QED BY <2>1, <2>2
<1>5. ASSUME NEW trade \in MessageOrder, forwardTrade(trade)
      PROVE  UNCHANGED Book!vars
  BY <1>5, <1>1 DEF forwardTrade
<1>6. CASE Refuse(ParsingErrors)
  BY <1>6, <1>1 DEF Refuse
<1>7. CASE UNCHANGED vars
  BY <1>7, <1>1 DEF vars
<1> QED BY <1>2, <1>3, <1>4, <1>5, <1>6, <1>7 DEF Next, processMessage

LEMMA InitImplementsBook == Init => Book!Init
<1> SUFFICES ASSUME Init PROVE Book!Init
  OBVIOUS
<1>1. \A side \in Side : orders[side] = << >> /\ limits[side] = << >>
  BY DEF Init
<1>2. Live("B") = {} /\ Live("S") = {}
  BY <1>1 DEF Live, Side
<1>3. LiveOrders = << >>
  BY <1>2 DEF LiveOrders
<1>4. \A side \in Side, price \in Price : Depth(side, price) = 0
  BY <1>1 DEF Depth
<1> QED BY <1>3, <1>4 DEF Book!Init, Book!Side, Side

\* Binary searches, insertions and erasures in two deques implement the book
\* that is a map from the ids to the live orders and from the prices to
\* quantities: each accepted message is one step of it, and nothing else
\* touches it.
THEOREM FeedImplementsBook == Spec => ImplementsBook
<1>1. IInv /\ IInv' /\ [Next]_vars => [Book!Next]_(Book!vars)
  BY StepImplementsBook
<1> QED BY <1>1, InitImplementsBook, BookIsConsistent, PTL
        DEF Spec, ImplementsBook, Book!Spec

-----------------------------------------------------------------------------
(* What the reporter is sent.                                               *)

\* The Data that a message can push: at a place of the deques as they are
\* before the message, and with a quantity that grew by one message at most.
EventForm(data) ==
  \/ data = NoData
  \/ \E side \in Side, order \in MessageOrder :
       /\ data = Data("A", side, lower_bound(limits[side], side, order.price), order)
       /\ \A i \in DOMAIN limits[side] : limits[side][i].price # order.price
  \/ \E side \in Side : \E i \in DOMAIN limits[side] :
       data = Data("X", side, i - 1, NoLimit)
  \/ \E side \in Side : \E i \in DOMAIN limits[side] : \E q \in Nat \ {0} :
       /\ data = Data("M", side, i - 1, [limits[side][i] EXCEPT !.qty = q])
       /\ \E added \in Quantity : q <= limits[side][i].qty + added
  \/ \E trade \in MessageOrder : data = Data("T", NoSide, 0, trade)

\* The event of an overwritten limit.
LEMMA OverwriteForm ==
  ASSUME IInv, NEW side \in Side, NEW pos \in 0 .. Len(limits[side]) - 1,
         NEW q \in Nat \ {0}, NEW added \in Quantity,
         q <= LimitAt(side, pos).qty + added,
         pushed' = Data("M", side, pos, [LimitAt(side, pos) EXCEPT !.qty = q])
  PROVE  EventForm(pushed')
<1> DEFINE i == pos + 1
<1>1. limits[side] \in Seq(Limit)
  BY DEF IInv, Consistent
<1>2. DOMAIN limits[side] = 1 .. Len(limits[side]) /\ Len(limits[side]) \in Nat
  BY <1>1, LimitPrices
<1>3. i \in DOMAIN limits[side] /\ i - 1 = pos
  BY <1>2
<1>4. LimitAt(side, pos) = limits[side][i]
  BY DEF LimitAt
<1>. HIDE DEF i
<1>5. /\ pushed' = Data("M", side, i - 1, [limits[side][i] EXCEPT !.qty = q])
      /\ q <= limits[side][i].qty + added
  BY <1>3, <1>4
<1>. QED  BY <1>3, <1>5, Zenon DEF EventForm

\* The event of a cancel or a modify.
LEMMA ChangeLimitForm ==
  ASSUME IInv, NEW side \in Side, NEW id \in Live(side),
         NEW added \in Nat, NEW most \in Quantity, added <= most,
         ChangeLimit(side, orders[side][id].price, orders[side][id].qty, added)
  PROVE  EventForm(pushed')
<1> DEFINE removed == orders[side][id].qty
           pos     == lower_bound(limits[side], side, orders[side][id].price)
           limit   == [LimitAt(side, pos) EXCEPT !.qty = (@ - removed) + added]
           q       == (LimitAt(side, pos).qty - removed) + added
<1>1. /\ pos \in 0 .. Len(limits[side]) - 1 /\ pos \in Nat
      /\ LimitAt(side, pos) \in Limit
      /\ LimitAt(side, pos).qty >= removed /\ removed \in Nat \ {0}
  BY LiveOrderHasLimit
<1>2. LimitAt(side, pos).qty \in Nat /\ most \in Nat
  BY <1>1, QuantityAssumption DEF Limit
<1>3. q \in Nat /\ q <= LimitAt(side, pos).qty + most
  BY <1>1, <1>2, SMTT(30)
<1>4. limit.qty = q /\ limit = [LimitAt(side, pos) EXCEPT !.qty = q]
  BY <1>1 DEF Limit
<1>5. \/ limit.qty = 0 /\ pushed' = Data("X", side, pos, NoLimit)
      \/ limit.qty # 0 /\ pushed' = Data("M", side, pos, limit)
  BY DEF ChangeLimit
<1>. HIDE DEF pos, limit, q
<1>6. CASE limit.qty = 0 /\ pushed' = Data("X", side, pos, NoLimit)
  <2>1. limits[side] \in Seq(Limit)
    BY DEF IInv, Consistent
  <2>2. DOMAIN limits[side] = 1 .. Len(limits[side]) /\ Len(limits[side]) \in Nat
    BY <2>1, LimitPrices
  <2>3. pos + 1 \in DOMAIN limits[side] /\ (pos + 1) - 1 = pos
    BY <1>1, <2>2
  <2>4. \E i \in DOMAIN limits[side] : pushed' = Data("X", side, i - 1, NoLimit)
    BY <1>6, <2>3
  <2>. QED  BY <2>4, Zenon DEF EventForm
<1>7. CASE limit.qty # 0 /\ pushed' = Data("M", side, pos, limit)
  <2>1. q \in Nat \ {0}
    BY <1>3, <1>4, <1>7
  <2>2. pushed' = Data("M", side, pos, [LimitAt(side, pos) EXCEPT !.qty = q])
    BY <1>4, <1>7
  <2>. QED  BY <1>1, <1>3, <2>1, <2>2, OverwriteForm
<1>. QED  BY <1>5, <1>6, <1>7

\* The event of a new order.
LEMMA AddToLimitsForm ==
  ASSUME IInv, NEW side \in Side, NEW order \in MessageOrder,
         AddToLimits(side, order)
  PROVE  EventForm(pushed')
<1> DEFINE deque == limits[side]
           pos   == lower_bound(deque, side, order.price)
           limit == [LimitAt(side, pos) EXCEPT !.qty = @ + order.qty]
           q     == LimitAt(side, pos).qty + order.qty
<1>1. order.price \in Price /\ order.qty \in Nat \ {0} /\ order.qty \in Quantity
  BY QuantityAssumption DEF MessageOrder
<1>2. PriceIsAt(deque, pos, order.price)
        => pos \in 0 .. Len(deque) - 1 /\ LimitAt(side, pos) \in Limit
  BY <1>1, PlaceOfMessage
<1>3. deque \in Seq(Limit) /\ Sorted(deque, side)
  BY DEF IInv, Consistent
<1>4. CASE /\ ~PriceIsAt(deque, pos, order.price)
           /\ pushed' = Data("A", side, pos, order)
  <2>1. DOMAIN deque = 1 .. Len(deque)
    BY <1>3, LimitPrices
  <2>2. ASSUME NEW i \in DOMAIN deque
        PROVE  deque[i].price # order.price
    BY <1>3, <1>4, <2>1, PriceHasOnePlace
  <2>. QED  BY <1>4, <2>2, Zenon DEF EventForm
<1>5. CASE /\ PriceIsAt(deque, pos, order.price)
           /\ pushed' = Data("M", side, pos, limit)
  <2>1. LimitAt(side, pos).qty \in Nat
    BY <1>2, <1>5 DEF Limit
  <2>2. q \in Nat \ {0} /\ q <= LimitAt(side, pos).qty + order.qty
    BY <1>1, <2>1
  <2>3. limit = [LimitAt(side, pos) EXCEPT !.qty = q]
    OBVIOUS
  <2>4. pushed' = Data("M", side, pos, [LimitAt(side, pos) EXCEPT !.qty = q])
    BY <1>5, <2>3
  <2>5. pos \in 0 .. Len(limits[side]) - 1
    BY <1>2, <1>5
  <2>. HIDE DEF pos, q
  <2>. QED  BY <1>1, <2>2, <2>4, <2>5, OverwriteForm
<1>. QED  BY <1>4, <1>5 DEF AddToLimits

\* Whatever the message, its event has one of these forms.
LEMMA EventHasForm ==
  ASSUME IInv, processMessage
  PROVE  EventForm(pushed')
<1>1. ASSUME NEW counter, Refuse(counter)
      PROVE  EventForm(pushed')
  BY <1>1 DEF Refuse, EventForm
<1>2. ASSUME NEW side \in Side, NEW id \in OrderId, NEW order \in MessageOrder,
             newOrder(side, id, order)
      PROVE  EventForm(pushed')
  BY <1>1, <1>2, AddToLimitsForm DEF newOrder
<1>3. ASSUME NEW side \in Side, NEW id \in OrderId, NEW order \in MessageOrder,
             cancelOrder(side, id, order)
      PROVE  EventForm(pushed')
  <2> DEFINE refusal == cancelRefusal(side, id, order)
  <2>1. CASE refusal # Accepted /\ Refuse(refusal)
    BY <1>1, <2>1
  <2>2. CASE refusal = Accepted /\ ChangeLimit(side, order.price, order.qty, 0)
    <3>1. id \in Live(side) /\ orders[side][id] = order
      BY <2>2 DEF cancelRefusal, Accepted
    <3>2. order.qty \in Quantity /\ 0 <= order.qty
      <4>1. order.qty \in Quantity
        BY DEF MessageOrder
      <4>2. \A q \in Quantity : q \in Nat /\ 0 <= q /\ q <= q
        BY QuantityAssumption
      <4>. QED  BY <4>1, <4>2
    <3>3. ChangeLimit(side, orders[side][id].price, orders[side][id].qty, 0)
      BY <2>2, <3>1
    <3>. QED  BY <3>1, <3>2, <3>3, ChangeLimitForm
  <2>. QED  BY <1>3, <2>1, <2>2 DEF cancelOrder
<1>4. ASSUME NEW side \in Side, NEW id \in OrderId, NEW order \in MessageOrder,
             modifyOrder(side, id, order)
      PROVE  EventForm(pushed')
  <2> DEFINE refusal == modifyRefusal(side, id, order)
  <2>1. CASE refusal # Accepted /\ Refuse(refusal)
    BY <1>1, <2>1
  <2>2. CASE /\ refusal = Accepted
             /\ ChangeLimit(side, order.price, orders[side][id].qty, order.qty)
    <3>1. id \in Live(side) /\ orders[side][id].price = order.price
      BY <2>2 DEF modifyRefusal, Accepted
    <3>2. order.qty \in Quantity /\ order.qty \in Nat /\ order.qty <= order.qty
      <4>1. order.qty \in Quantity
        BY DEF MessageOrder
      <4>2. \A q \in Quantity : q \in Nat /\ 0 <= q /\ q <= q
        BY QuantityAssumption
      <4>. QED  BY <4>1, <4>2
    <3>3. ChangeLimit(side, orders[side][id].price, orders[side][id].qty, order.qty)
      BY <2>2, <3>1
    <3>. QED  BY <3>1, <3>2, <3>3, ChangeLimitForm
  <2>. QED  BY <1>4, <2>1, <2>2 DEF modifyOrder
<1>5. ASSUME NEW trade \in MessageOrder, forwardTrade(trade)
      PROVE  EventForm(pushed')
  BY <1>5, Zenon DEF forwardTrade, EventForm
<1>. QED  BY <1>1, <1>2, <1>3, <1>4, <1>5 DEF processMessage
=============================================================================
