------------------------------ MODULE Output ------------------------------
(***************************************************************************)
(* What the reporter puts together on streams: the print of a whole book   *)
(* (printCurrentOrderBook), the summary of errors (printErrors), a number; *)
(* and a client that uses one stream in any way.                           *)
(*                                                                         *)
(* A word of the output is one character here, and stands for its text; a  *)
(* counter stands for the words behind its number.                         *)
(***************************************************************************)
EXTENDS StrStream

CONSTANTS
  IndexColumn, AskColumn,   \* the columns of a row: 6 and 40 in the code
  Margin,                   \* kept free of the stream of the book: 128
  Precision,                \* decimals of a double: 6
  FloatPrecision,           \* of a float: 3
  MaxLimits,                \* bound on the limits of one side
  Quantities,               \* of these limits
  MaxNumber,                \* bound on the numbers that are written
  MaxUses,                  \* bound on the calls of the client
  Lengths,                  \* of the texts it appends at once
  PutLengths,               \* of those it appends character by character
  Columns                   \* up to which it appends a character

ASSUME OutputAssumption ==
  /\ {IndexColumn, AskColumn, Margin, Precision, FloatPrecision, MaxLimits,
      MaxNumber, MaxUses} \subseteq Nat
  /\ Margin < CAPACITY
  /\ FloatPrecision <= Precision
  /\ Quantities \subseteq Nat
  /\ Lengths \subseteq Nat /\ PutLengths \subseteq Nat /\ Columns \subseteq Nat

VARIABLES
  task,      \* what is being put together, "done" at the end
  input,     \* the number, the two sides, or the counters
  stream,    \* strstream
  i,         \* the row, the texts streamed, or the calls of the client
  out,       \* what the ostream got
  text,      \* what the client appended since its last clear
  misused    \* the client broke the rules that StreamHoldsText needs

vars == <<task, input, stream, i, out, text, misused>>

-----------------------------------------------------------------------------
(* The counters.                                                            *)

\* In the order of the summary.
NoteLines == <<"commentedLines", "blankLines">>

ErrorLines == <<
  "corruptedMessages", "IncompleteMessages", "wrongActions", "wrongSides",
  "negativeOrderIds", "negativeQuantities", "negativePrices",
  "missingActions", "missingOrderIds", "missingSides", "missingQuantities",
  "missingPrices", "zeroOrderIds", "zeroQuantities", "zeroPrices",
  "outOfBoundsOrderIds", "outOfBoundsQuantities", "outOfBoundsPrices",
  "duplicateOrderIds", "modifiesWithUnknownOrderId",
  "modifiesNotMatchedPrice", "cancelsWithUnknownOrderId",
  "cancelsNotMatchedQtyOrPrice", "bestBidEqualOrUpperThanBestAsk">>

CriticalLines == <<
  "modifiesLimitQtyTooLow", "modifiesLimitNotFound",
  "cancelsLimitQtyTooLow", "cancelsLimitNotFound">>

\* Mutant: one counter is left out of the sum.
SummedErrors_Forgets == <<
  "corruptedMessages", "IncompleteMessages", "wrongActions", "wrongSides",
  "negativeOrderIds", "negativeQuantities", "negativePrices",
  "missingActions", "missingOrderIds", "missingSides", "missingQuantities",
  "missingPrices", "zeroOrderIds", "zeroQuantities", "zeroPrices",
  "outOfBoundsOrderIds", "outOfBoundsQuantities", "outOfBoundsPrices",
  "duplicateOrderIds", "modifiesWithUnknownOrderId",
  "modifiesNotMatchedPrice", "cancelsWithUnknownOrderId",
  "bestBidEqualOrUpperThanBestAsk">>

\* What nbErrors adds up.
SummedErrors == <<
  "corruptedMessages", "IncompleteMessages", "wrongActions", "wrongSides",
  "negativeOrderIds", "negativeQuantities", "negativePrices",
  "missingActions", "missingOrderIds", "missingSides", "missingQuantities",
  "missingPrices", "zeroOrderIds", "zeroQuantities", "zeroPrices",
  "outOfBoundsOrderIds", "outOfBoundsQuantities", "outOfBoundsPrices",
  "duplicateOrderIds", "modifiesWithUnknownOrderId",
  "modifiesNotMatchedPrice", "cancelsWithUnknownOrderId",
  "cancelsNotMatchedQtyOrPrice", "bestBidEqualOrUpperThanBestAsk">>

\* What nbCriticalErrors adds up.
SummedCriticalErrors == <<
  "modifiesLimitQtyTooLow", "modifiesLimitNotFound",
  "cancelsLimitQtyTooLow", "cancelsLimitNotFound">>

Total(errors, summed) ==
  FoldLeft(LAMBDA sum, counter : sum + errors[counter], 0, summed)

nbErrors(errors)         == Total(errors, SummedErrors)
nbCriticalErrors(errors) == Total(errors, SummedCriticalErrors)

\* struct Errors.
Counters == Range(NoteLines) \cup Range(ErrorLines) \cup Range(CriticalLines)

-----------------------------------------------------------------------------
(* What there is to put together.                                           *)

Limit == [qty : Quantities, price : Nat]

\* Prices that differ in all decimals; bids go down, asks go up.
Price(side, k) == IF side = "B" THEN PowerOfTen[Precision] + 10 - 3 * k
                                ELSE PowerOfTen[Precision] + 8 + 93 * k

\* The lowest bid is not below 0.
ASSUME PriceAssumption == 3 * MaxLimits <= PowerOfTen[Precision] + 10

Side(side) ==
  UNION {{[k \in 1 .. n |-> [qty |-> q[k], price |-> Price(side, k)]] :
            q \in [1 .. n -> Quantities]} : n \in 0 .. MaxLimits}

Books == [bids : Side("B"), asks : Side("S")]

\* Each counter of a set with its own number.
Counts(counted) ==
  [c \in Counters |->
    IF c \in counted
    THEN SelectInSeq(NoteLines \o ErrorLines \o CriticalLines, LAMBDA d : d = c)
    ELSE 0]

\* One or two counters, or none, or all of them.
ErrorCounts ==
  {Counts(counted) :
     counted \in {{c, d} : c \in Counters, d \in Counters} \cup {{}, Counters}}

Numbers == [kind : {"integer", "float", "double"}, val : 0 .. MaxNumber]

Init ==
  /\ \/ task = "number"  /\ input \in Numbers
     \/ task = "book"    /\ input \in Books
     \/ task = "summary" /\ input \in ErrorCounts
     \/ task = "client"  /\ input = "any"
  /\ stream = NewStream
  /\ i = 0
  /\ out = IF task = "book" THEN <<"Full Bids/Asks:", "\n">> ELSE << >>
  /\ text = << >>
  /\ misused = FALSE

-----------------------------------------------------------------------------
(* A number: the operators << for numbers.                                  *)

Written(number) ==
  CASE number.kind = "integer" -> appendInteger(NewStream, number.val)
    [] number.kind = "float"   -> appendFloat(NewStream, number.val, FloatPrecision)
    [] number.kind = "double"  -> appendFloat(NewStream, number.val, Precision)

\* Every number fits the heap buffer.
ASSUME NumberAssumption ==
  \A n \in 0 .. MaxNumber :
    /\ Len(convert_unsigned_integer(n)) <= CAPACITY_MAX
    /\ Len(convert_unsigned_float(n, FloatPrecision)) <= CAPACITY_MAX
    /\ Len(convert_unsigned_float(n, Precision)) <= CAPACITY_MAX

writeNumber ==
  /\ task = "number" /\ i = 0
  /\ stream' = Written(input)
  /\ i' = 1
  /\ UNCHANGED <<task, input, out, text, misused>>

-----------------------------------------------------------------------------
(* printCurrentOrderBook.                                                   *)

Rows == Max({Len(input.bids), Len(input.asks)})

\* getQty(limit) << " @ " << getPrice(limit): the price has the decimals of
\* a line of the input.
appendLimit(s, limit) ==
  appendFloat(append(appendInteger(s, limit.qty), <<"@">>),
              10 * limit.price, Precision)

\* Row i up to the column of the asks.
BidPart ==
  LET index == appendUpTo(appendInteger(NewStream, i), IndexColumn, " ")
      colon == append(index, <<":">>)
      bid   == IF i < Len(input.bids) THEN appendLimit(colon, input.bids[i + 1])
                                      ELSE append(colon, <<"empty">>)
  IN  appendUpTo(bid, AskColumn, " ")

\* strstream_tmp.
Row ==
  IF i < Len(input.asks) THEN put(appendLimit(BidPart, input.asks[i + 1]), "\n")
                         ELSE append(BidPart, <<"empty", "\n">>)

\* Mutant: what was flushed stays in the stream.
printRow_NoClear ==
  /\ task = "book" /\ i < Rows
  /\ IF length(stream) + length(Row) > CAPACITY - Margin
     THEN /\ out' = out \o c_str(stream)
          /\ stream' = append(stream, c_str(Row))
     ELSE /\ UNCHANGED out
          /\ stream' = append(stream, c_str(Row))
  /\ i' = i + 1
  /\ UNCHANGED <<task, input, text, misused>>

\* One turn of the loop; the stream is flushed first if the row might not fit.
printRow ==
  /\ task = "book" /\ i < Rows
  /\ IF length(stream) + length(Row) > CAPACITY - Margin
     THEN /\ out' = out \o c_str(stream)
          /\ stream' = append(clear(stream), c_str(Row))
     ELSE /\ UNCHANGED out
          /\ stream' = append(stream, c_str(Row))
  /\ i' = i + 1
  /\ UNCHANGED <<task, input, text, misused>>

\* The turn that finds both sides at their end: the row of two "empty" is
\* appended without a look at the length.
printLastRow ==
  /\ task = "book" /\ i = Rows
  /\ stream' = append(append(stream, c_str(BidPart)), <<"empty", "\n">>)
  /\ out' = out \o c_str(stream')
  /\ i' = i + 1
  /\ UNCHANGED <<task, input, text, misused>>

-----------------------------------------------------------------------------
(* printErrors.                                                             *)

\* "\n [" << count << "] " and the words, for each counter that is not 0.
CounterLines(counters) ==
  FlattenSeq([n \in DOMAIN counters |->
    IF input[counters[n]] = 0 THEN << >>
    ELSE <<<<"\n", "[">>, convert_unsigned_integer(input[counters[n]]),
           <<"]", counters[n]>>>>])

\* The texts that are streamed one after the other.
SummaryPieces ==
  <<<<"Summary:">>>>
  \o CounterLines(NoteLines)
  \o (IF nbErrors(input) > 0
      THEN <<<<"\n", "Found">>, convert_unsigned_integer(nbErrors(input)),
             <<"error:">>>> \o CounterLines(ErrorLines)
      ELSE <<<<"\n", "No error found">>>>)
  \o (IF nbCriticalErrors(input) > 0
      THEN <<<<"\n", "Found [">>,
             convert_unsigned_integer(nbCriticalErrors(input)),
             <<"critical error:">>>> \o CounterLines(CriticalLines)
      ELSE <<<<"\n", "No critical error found">>>>)
  \o <<<<"\n">>>>

\* printErrors, up to the last line.
streamPiece ==
  /\ task = "summary" /\ i < Len(SummaryPieces)
  /\ stream' = append(stream, SummaryPieces[i + 1])
  /\ i' = i + 1
  /\ UNCHANGED <<task, input, out, text, misused>>

\* With verbose, the length of the stream before or after the words that
\* announce it: C++14 leaves the order of the two open.
printSummary ==
  /\ task = "summary" /\ i = Len(SummaryPieces)
  /\ LET announced == append(stream, <<"Summary length:">>)
     IN  \/ UNCHANGED stream
         \/ \E s \in {stream, announced} :
              stream' = put(appendInteger(announced, length(s)), "\n")
  /\ out' = c_str(stream')
  /\ i' = i + 1
  /\ UNCHANGED <<task, input, text, misused>>

-----------------------------------------------------------------------------
(* A client of the class.                                                   *)

\* A text of n characters that tells where in the stream it belongs.
Piece(n) ==
  [k \in 1 .. n |-> <<"a", "b", "c", "d", "e", "f", "g">>[((Len(text) + k) % 7) + 1]]

\* The stream is then next; expected is what it should hold, of which what is
\* beyond CAPACITY_MAX is cut.
Use(next, expected) ==
  /\ task = "client" /\ i < MaxUses /\ ~misused
  /\ stream' = next
  /\ text' = SubSeq(expected, 1, Min({Len(expected), CAPACITY_MAX}))
  /\ i' = i + 1
  /\ UNCHANGED <<task, input, out>>

\* The stream overflows again after it was cleared.
OverflowsAgain(next) ==
  ~Overflowed(stream) /\ stream.sizeOver_ > 0 /\ Overflowed(next)

useAppend ==
  \E n \in Lengths :
    LET next == append(stream, Piece(n)) IN
      Use(next, text \o Piece(n)) /\ misused' = OverflowsAgain(next)

usePutAll ==
  \E n \in PutLengths :
    LET next == putAll(stream, Piece(n)) IN
      Use(next, text \o Piece(n)) /\ misused' = OverflowsAgain(next)

\* Misused as well: up to a column that lies behind in the heap buffer, but
\* not in the first one.
useAppendUpTo ==
  \E pos \in Columns :
    LET next == appendUpTo(stream, pos, " ") IN
      /\ Use(next, text \o Repeat(" ", pos - Len(text)))
      /\ misused' = \/ OverflowsAgain(next)
                    \/ Overflowed(stream) /\ size(stream) <= pos
                       /\ pos < length(stream)

useClear == Use(clear(stream), << >>) /\ misused' = FALSE

Client == useAppend \/ usePutAll \/ useAppendUpTo \/ useClear

Finished ==
  CASE task = "number"  -> i = 1
    [] task = "book"    -> i > Rows
    [] task = "summary" -> i > Len(SummaryPieces)
    [] task = "client"  -> i = MaxUses \/ misused

Done == Finished /\ UNCHANGED vars

Next == writeNumber \/ printRow \/ printLastRow \/ streamPiece
        \/ printSummary \/ Client \/ Done

Spec == Init /\ [][Next]_vars

-----------------------------------------------------------------------------

\* The first buffer never holds more than CAPACITY, whatever a client does; the
\* heap buffer never more than CAPACITY_MAX, in a stream that is not misused.
TypeOK ==
  /\ task \in {"number", "book", "summary", "client"}
  /\ size(stream) <= CAPACITY
  /\ stream.sizeOver_ \in Nat
  /\ ~misused => stream.sizeOver_ <= CAPACITY_MAX
  /\ Overflowed(stream) /\ ~stream.crashed =>
       stream.sizeOver_ = Len(stream.strOver_)

\* A stream holds what was appended to it, whether it overflows to the heap
\* or not, in the middle of a text or not, and whatever is appended then; what
\* is beyond CAPACITY_MAX is cut.  It fails exactly if it overflows again after
\* clear(), which does not reset sizeOver_, or if it is filled up to a column
\* that is behind in the heap buffer: the memset then has a negative length.
StreamHoldsText ==
  task = "client" => (misused <=> stream.crashed \/ c_str(stream) # text)

\* A number is written so that it reads back: an integer exactly and without
\* zeros in front, a double with all its decimals and within half a unit of
\* the last, rounded up.
NumberReadsBack ==
  task = "number" /\ i = 1 =>
    LET written == c_str(stream)
        places  == IF input.kind = "float" THEN FloatPrecision ELSE Precision
        rest    == input.val - 10 * retreive_unsigned_float(written, places)
    IN  IF input.kind = "integer"
        THEN /\ retreive_unsigned_integer(written) = input.val
             /\ Len(written) > 1 => written[1] # "0"
        ELSE /\ SelectInSeq(written, LAMBDA c : c = ".") = Len(written) - places
             /\ rest > -6 /\ rest < 5

\* A row as it should be, without streams.
PaddedTo(column, row) == row \o Repeat(" ", column - Len(row))

LimitText(limit) ==
  convert_unsigned_integer(limit.qty) \o <<"@">>
  \o convert_unsigned_float(10 * limit.price, Precision)

TextAt(side, n) == IF n < Len(side) THEN LimitText(side[n + 1]) ELSE <<"empty">>

RowOf(n, bid, ask) ==
  PaddedTo(AskColumn, PaddedTo(IndexColumn, convert_unsigned_integer(n))
                      \o <<":">> \o bid)
  \o ask \o <<"\n">>

RowText(n) == RowOf(n, TextAt(input.bids, n), TextAt(input.asks, n))

\* What the margin is there for: a row fits the stream without it, and it
\* leaves room for the last row.
ASSUME MarginAssumption ==
  LET limits(side) == [qty : Quantities, price : {Price(side, k) : k \in 1 .. MaxLimits}]
      texts(side)  == {LimitText(limit) : limit \in limits(side)} \cup {<<"empty">>}
  IN  \A n \in 0 .. MaxLimits :
        /\ \A bid \in texts("B"), ask \in texts("S") :
             Len(RowOf(n, bid, ask)) <= CAPACITY - Margin
        /\ Len(RowOf(n, <<"empty">>, <<"empty">>)) <= Margin

\* The print of a book has its rows in order, each once, and ends with a row
\* of two "empty", wherever the stream was flushed; the margin keeps the
\* stream, which is cleared and used again, from ever overflowing.
BookPrintedInFull ==
  task = "book" =>
    /\ ~Overflowed(stream)
    /\ i > Rows => out = <<"Full Bids/Asks:", "\n">>
                         \o FlattenSeq([n \in 1 .. (Rows + 1) |-> RowText(n - 1)])

\* The number in front of a place of the output.
NumberBefore(n) ==
  LET front == {k \in 1 .. (n - 1) : \A m \in k .. (n - 1) : out[m] \in Digits}
  IN  retreive_unsigned_integer(SubSeq(out, Min(front \cup {n}), n - 1))

\* The summary has each counter that is not 0 once, behind its own number,
\* and no other; the numbers of errors that it finds are the sums over the
\* lines that it prints; and nothing of it is cut, although it may overflow.
SummaryCountsAll ==
  task = "summary" /\ i > Len(SummaryPieces) =>
    LET at(word) == {n \in DOMAIN out : out[n] = word}
        sum(counters) == SumFunctionOnSet(input, counters)
        total(counters, word) ==
          IF sum(counters) = 0 THEN at(word) = {}
          ELSE \E n \in at(word) : at(word) = {n} /\ NumberBefore(n) = sum(counters)
    IN  /\ \A c \in Counters :
             IF input[c] = 0 THEN at(c) = {}
             ELSE \E n \in at(c) :
                    at(c) = {n} /\ out[n - 1] = "]" /\ NumberBefore(n - 1) = input[c]
        /\ total(Range(ErrorLines), "error:")
        /\ total(Range(CriticalLines), "critical error:")
        /\ out[Len(out)] = "\n"
=============================================================================
