------------------------------- MODULE Limits -------------------------------
(***************************************************************************)
(* The vocabulary FeedHandler and Reporter share: the two sides, the       *)
(* sorted deques of price limits, and the Data elements with which the     *)
(* feed tells the reporter what it did to its deques.                      *)
(*                                                                         *)
(* A deque is a sequence, best price first.  Positions sent in a Data are  *)
(* the offsets of the code (0-based); sequences are indexed from 1.        *)
(***************************************************************************)
EXTENDS Naturals, Sequences, FiniteSets, SequencesExt

CONSTANTS
  Price    \* the prices messages may carry; the code only compares them

ASSUME PriceAssumption == Price \subseteq Nat \ {0}

-----------------------------------------------------------------------------
(* Sides, limits and orders.  An Order (Quantity, Price) and a Limit or a   *)
(* Trade (AggregatedQty, Price) are the same tuple at different widths; the *)
(* largest sum, 10^9 orders of at most 10^6 - 1, is far below 2^64.         *)

Side == {"B", "S"}
NoSide == "0"

Order == [qty : Nat \ {0}, price : Price]
Limit == [qty : Nat \ {0}, price : Price]

NoPrice == 0
NoLimit == [qty |-> 0, price |-> NoPrice]

(* p comes strictly before q in the deque of this side: the comparator that *)
(* the code passes to std::lower_bound.                                     *)
Before(side, p, q) == IF side = "B" THEN p > q ELSE p < q

\* Mutant: the asks are searched with the comparator of the bids.
lower_bound_OneComparator(deque, side, price) ==
  Cardinality({i \in DOMAIN deque : Before("B", deque[i].price, price)})

(* std::lower_bound(deque, price) - deque.begin().  On a deque sorted by    *)
(* Before it is the number of limits strictly before the price.             *)
lower_bound(deque, side, price) ==
  Cardinality({i \in DOMAIN deque : Before(side, deque[i].price, price)})

(* The test made on the iterator that lower_bound returned: it is not end() *)
(* and the limit it points to has the price that was looked for.            *)
PriceIsAt(deque, pos, price) ==
  /\ pos < Len(deque)
  /\ deque[pos + 1].price = price

-----------------------------------------------------------------------------
(* What goes through the queue.                                             *)

Data(action, side, pos, limit) ==
  [action |-> action, side |-> side, pos |-> pos, limit |-> limit]

(* A default constructed Data, action_ = 0.                                 *)
NoData == Data("0", NoSide, 0, NoLimit)

DataType ==
  [action : {"A", "X", "M", "T", "0"},
   side   : Side \cup {NoSide},
   pos    : Nat,
   limit  : Limit \cup {NoLimit}]

(* The switch of Reporter::processData on the two deques, as a function of  *)
(* the pair of deques: insert, erase or overwrite at the given position.    *)
Replay(book, data) ==
  CASE data.action = "A" -> [book EXCEPT ![data.side] =
                               InsertAt(@, data.pos + 1, data.limit)]
    [] data.action = "X" -> [book EXCEPT ![data.side] =
                               RemoveAt(@, data.pos + 1)]
    [] data.action = "M" -> [book EXCEPT ![data.side] =
                               ReplaceAt(@, data.pos + 1, data.limit)]
    [] OTHER -> book

(* The positions for which these three operations are defined behaviour.    *)
InRange(book, data) ==
  CASE data.action = "A" -> data.pos <= Len(book[data.side])
    [] data.action \in {"X", "M"} -> data.pos < Len(book[data.side])
    [] OTHER -> TRUE

(* Best price first, and no price twice.                                    *)
Sorted(deque, side) ==
  \A i, j \in DOMAIN deque :
    i < j => Before(side, deque[i].price, deque[j].price)
=============================================================================
