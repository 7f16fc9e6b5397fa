# A verified model of Cpp1y-OrderBook

TLA+ modules for the order book program in this repository, the TLC
configurations that check them, and TLAPS proofs of the invariants and
refinements of the feed's book, the reporter, the queue, the two threads
together, the cutting of lines, the parser, the output and the ring buffer. Paths below are relative to
the repository; `PROJECT.json` maps every definition to the lines that it models.

## The system

The program reads a file of messages (`A` add, `X` cancel, `M` modify, `T`
trade). The main thread parses each line and rebuilds the limit order book; a
second thread rebuilds its own copy from the events that the first one pushes
through a queue, and prints.

    file -> SimpleBuffer -> Parser -> FeedHandler -> WaitFreeQueue -> Reporter -> stdout, stderr
            '----------- main thread -----------'                  '- second thread -'

| Part | State | Operations | What makes it correct |
|---|---|---|---|
| `FeedHandler` | deques `bids_`, `asks_` of limits; maps `buyOrders_`, `sellOrders_`; counters in `Errors` | `processMessage`, and new, cancel, modify for buy and sell | deques sorted; a limit is the sum of its live orders; ids unique over both sides; the "critical errors" never happen; each event says what was done |
| `Reporter` | its own `bids_`, `asks_`; `currentTrade_`, `receivedNewTrade_`, `detectCross_`; the thread's `counter` | `processData`, `treatTrade`, `printMidQuotesAndTrades`, `printCurrentOrderBook`, `printErrors` | the copy follows the feed's book; what is printed and counted is right for the history, not just the last event |
| `WaitFreeQueue`, `SpinLock` | `std::deque`, `lock_`, `dontSpin_` | `push_back`, `pop_front`, `dontSpin` | a channel: in order, once, nothing invented, nothing lost at the end; the consumer stops |
| `main` | the two threads | read loop, reporter's loop, `dontSpin`, `join`, final print | the program ends; what it prints at the end is the feed's book |
| `Parser` | index, one `Errors` counter, the fields of a message | `parse` and its eleven lambda calls | an accepted message has the line's own fields, in bounds; each counter tells the truth |
| `Decoder` | none | numbers to text and back | a number that is written reads back, with its carry and its zeros |
| `StrStream`, `FiniteStr` | `str_`, `size_`; then `strOver_`, `sizeOver_` on the heap | `append`, `<<`, `clear`, `c_str`, `length` | the stream holds what was appended, across the overflow and after reuse |
| `SimpleBuffer` | a window `begin_`, `end_` over a buffer | `push`, `pushOnLeft`, `seek`, `seekEnd`, `reset`, `getPosition` | lines are cut once each; reading ends |
| `CircularBlock` | ring of slots, `first_`, `last_`, atomic `size_`, `dontSpin_` | `fill`, `empty`, `dontSpin` | no slot used by both threads; a channel; both threads finish. Used by its tests only |
| `genOrders.py` | none | writes random input files | not part of the program |

The feed and the reporter share no state but the queue (and the structure
`Errors`, in which each writes its own counters). An event carries a *position*
in a deque: it is computed on the feed's deque and applied, some events later,
to the reporter's.

What is hard here, and therefore what the properties are about:

- the reporter lags behind the feed and applies positions it cannot verify;
- the consumer looks at the queue and at `dontSpin_` at different times;
- `pop_front` returns a reference to what it has removed;
- limit quantities are maintained by increments in six places;
- flags of the reporter (`receivedNewTrade_`, `detectCross_`) are set by one
  event and used by a later one;
- one index runs back and forth over a line in the parser;
- a slot of the ring is given back before it is read;
- a stream moves to the heap in the middle of any text, by three functions that
  each do it their own way, and is cleared and used again;
- a line may lie across two chunks of a file, in a buffer that never grows.

`PROJECT.json` lists each of them as a hazard, at its line, with the
properties that cover it.

## The modules

| Module | Models | Notes |
|---|---|---|
| `Limits` | the vocabulary of feed and reporter: limits, `std::lower_bound` with the two comparators, `Data`, and the switch of `processData` as `Replay` | a deque is a sequence, best price first; positions are the code's, from 0 |
| `OrderBook` | the abstract book: live orders, and quantity per side and price | no deques, no positions |
| `FeedHandler` | `processMessage` and its handlers: one action each, with the early returns in their order | buy and sell are one definition with `side` as a parameter: the code's pairs differ in the comparator only |
| `Reporter` | one turn of the second thread's loop: `processData`, the periodic book print, the five ways through `printMidQuotesAndTrades` | fed by any event that fits its deques |
| `MCReporter` | `Reporter` with a record of the trades | a history variable only |
| `Channel` | the abstract queue | |
| `WaitFreeQueue` | the queue at the granularity of its shared accesses, with the nodes of the deque and the memory of the heap | one producer, one consumer, as in `main` |
| `Pipeline` | `main`: `FeedHandler` and `Reporter` (as instances) with a sequence between them | keeps from the queue the two-step look of `pop_front`; takes each event intact, without the late read that `queue_recycle` shows |
| `Decoder` | the conversions between numbers and text | a double is a number in units of its last decimal; operators only |
| `Parser` | the scanner over one line | a step is one turn of a loop; the line is revealed as it is looked at, so every line is covered |
| `MCParser` | a reference reading of a line, by splitting it at its commas | |
| `MCFeedHandler` | the symmetry of the ids | |
| `SimpleBuffer` | the buffer, an operator per operation | operators only |
| `Lines` | the three ways to cut a file into lines: mapped, as `main` does; in chunks and by pushes, as the tests do | shows `SimpleBuffer` in use |
| `StrStream` | the stream, with `FiniteStr` as its first buffer | operators only |
| `Output` | what is put together on streams: `printCurrentOrderBook`, `printErrors`, a number, and a client that calls the class in any order | shows `StrStream` and `Decoder` in use |
| `CircularBlock` | the ring at the granularity of its shared accesses, with its two threads | implements `Channel`, as `WaitFreeQueue` does |
| `FeedHandlerProofs`, `ReporterProofs`, `WaitFreeQueueProofs`, `PipelineProofs`, `LinesProofs`, `ParserProofs`, `OutputProofs`, `CircularBlockProofs` | proofs, see below | each `EXTENDS` the module it is about; those of the reporter and the pipeline take what they need of the feed's from an instance |

How state and actions correspond to the code:

- **FeedHandler.** `limits["B"]` is `bids_`, `orders["B"]` is `buyOrders_`, and
  so on. `pushed` is what the last message gave to `queue_.push_back`. Each
  handler is one action: it runs in one thread and shares nothing but the queue,
  which it uses once. A line that `Parser` rejects is `Refuse(ParsingErrors)`.
- **Reporter.** `report(data)` is one turn of the loop of `main.cpp:71-84`.
  Lines of output are told apart by their kind and numbers; a midquote is kept
  as the sum of two prices. A trade is a message without an order: the feed
  forwards it and looks nothing up.
- **WaitFreeQueue.** `producer` and `consumer` say where each thread is; `input`
  is the number of events that the file makes.
  A spin that finds the lock taken changes nothing and is not a step. `data`
  is the reference that `pop_front` returns, `memory` what it reads through.
  A node is freed when its last slot is popped, as libstdc++ does; the heap may
  hand a freed block out at any time, to the deque or to the feed's own
  containers (`feedAllocates`).
- **Parser.** `at` and `field` say which lambda runs, `i` is the index of the
  code plus one, `start` and `dot` are the code's. The reads of `str` go through
  `Look`, which chooses the next character, or the end, of the line.

- **CircularBlock.** `publisher` and `listener` say where each thread is in
  `fill` and `empty`. A step ends at a shared access: the load of `size_`, the
  read of the flag, the write to the slot, the `fetch_add` or `fetch_sub`, and
  the caller's read through the reference. A datum is its number, so that a
  datum out of order, lost, or overwritten shows.
- **SimpleBuffer, Lines.** A buffer is a record with the fields of the code;
  memory that nobody has written is `Junk`. A character is a number: `EndOfLine`,
  or else its place in the file, so that one that is lost or repeated shows. `good` is the state of
  the input stream: it fails when a read comes out short.
- **StrStream, Output.** A stream is a record with the fields of the code;
  `crashed` says that `memset` got a negative length. A word of the output is
  one character and stands for its text: a row of a book is then 18 characters
  or more where it is 50 or more in the code, and the capacities and columns are
  smaller in proportion.

Some operators are variants of the definition that follows them, marked
`Mutant`: each is a plausible bug, and `PROJECT.json` names the property that
finds it when it replaces the original. No specification uses them.

## What is checked

### Runs that pass

| Run | Bounds | What it shows |
|---|---|---|
| `feed_book` | 3 ids, quantities 1-2, prices 1-3, one refusal per counter | deques sorted, limits the sums of their orders, ids on one side, critical errors 0, each event replays what was done; `FeedHandler` implements `OrderBook` |
| `reporter` | prices 1-3, quantity 1, 3 trades, 2 crosses | a trade waits only while a side is empty; its line totals the trades since the last change of price, reported or not; midquotes are of the best prices; a lasting cross is counted |
| `queue` | nodes of 3 slots, 7 events, 3 blocks | the lock; the queue implements `Channel` although the heap reuses its nodes; only the last slot of a node can be read too late; `join` returns |
| `pipeline` | 2 ids, 2 prices, up to 4 lines | the pending events replayed on the reporter's book always give the feed's book; every event fits when it is applied (`ImplementsReporter`); the program ends; every event is taken, and the feed's book printed, if the thread is not in the window when the flag is set. All of it as long as no event is read too late (`queue_recycle`) |
| `parser` | lines of up to 12 characters from 10 | accepted fields are the line's, in bounds; each of the twenty counters speaks of the right field (`CounterTellsTheField`) or of the line and its corrupted characters (`CounterTellsTheLine`) |
| `circular_block` | 4 slots, 7 calls of each kind, `dontSpin` at any time | the slot that is read after it was given back is never written; the ring implements `Channel`; both threads finish, with `dontSpin` or without |
| `output` | books of up to 4 limits a side, one, two or all counters, numbers up to 12345, 5 calls of a client on a stream of 70 and then 240 characters | a stream holds its text exactly if it is not misused (below); numbers read back; a book is printed in full over several flushes and never overflows; a summary's totals are the sums of its lines, also when it overflows |
| `lines` | files of up to 7 characters, buffers of 1, 3, 4 and 9 | lines, window and rest always make up the file; all ended lines are processed; reading ends exactly if the lines fit the buffer |

Why the bounds are enough. Three orders and three prices give deques of length
3 with insertion and erasure at the front, in the middle and at the end, limits
of one, two and three orders, and every refusal. `MaxErrors` only stops the
counters: a refused message leaves everything else unchanged. Seven events
through nodes of three slots cross two node ends and reuse a block. Twelve
characters hold a whole order message with room for blanks, a sign, a point or
a comment; the limits on digits are 1 in the model, so that a number of two digits
is already too long. Seven calls go nearly twice round a ring of four slots,
which is full and empty in between; the proofs are for every capacity. Five
calls of a client overflow a stream in its first, second or third text, run
into the limit of the heap buffer, clear it and overflow again. A book of five
rows needs two flushes. The summary with all counters is longer than the first
buffer and comes out of the heap buffer, as in the code, where all the lines
are some 1100 characters. Seven characters hold a line across
two and three chunks, blank lines, an ended and an unended last line; buffers
of 1 and 3 are too short for some of them. `BookPeriod`, 10 in the code, is 2 or 1: when the
book is printed changes nothing else. In `reporter` deadlock is not checked,
because the bounds on trades and crosses may stop the model; the program has no
such bound.

### Runs that find a disagreement

| Run | The code | What is said of it |
|---|---|---|
| `queue_stop` | the consumer can stop with events in the queue: it sees the queue empty, the main thread pushes and sets the flag, it sees the flag | Reporter.cpp:53 |
| `queue_recycle` | the reference from `pop_front` may point into a freed node that the heap has handed out again | README.md:329 |
| `reporter_new_cross` | after a cross that ended by a cancel, the next cross is counted at once | README.md:140, test1.txt:15 |
| `parser_comment` | a number in the comment behind an empty price field is the price | README.md:84, :141 |

Other differences from the documents, which follow from a line or two and have
no run: the book is printed at every 11th event (main.cpp:76) where README.md:107
says every 10th; a trade prints `NAN` while a side is empty (Reporter.cpp:62)
where README.md:123 wants its total on every trade; the event that crosses the
book prints nothing (Reporter.cpp:74) where README.md:109 wants a line on every
message; `pop_front` waits for the holder of the lock (WaitFreeQueue.h:42) where
README.md:332 calls the queue wait free; the last line of a file is not processed
if it has no end of line (main.cpp:93, `OnlyUnendedLineLeft`), where the
getline that test_SimpleBuffer.cpp:193 compares with counts it.

Two properties say *when* the code fails and not that it never does, since no
document promises more and the program stays within them:

- `StreamHoldsText` holds exactly as long as a stream is not misused. It is
  misused if it overflows again after `clear()`, which leaves `sizeOver_` as it
  was (StrStream.h:19-27): the length then covers memory that was not written.
  Or if it is filled up to a column that lies behind in the heap buffer
  (StrStream.cpp:42 looks at the size of the first buffer only).
  `printCurrentOrderBook`, the only place that clears a stream and goes on with
  it, never overflows (`BookPrintedInFull`); rows are padded while they are
  short.
- `ReadsToTheEnd` holds exactly as long as the lines fit the buffer
  (SimpleBuffer.h:64, "We assume we never need this"). `main` maps the whole
  file, so that they always do.

With verbose, `printErrors` prints the length of the stream before or after the
words in front of it: C++14 leaves open which (Reporter.cpp:302).
`printSummary` allows both.

### Fairness

`Spec` of `Pipeline` and `FairSpec` of `WaitFreeQueue` assume weak fairness of
each thread: the operating system keeps scheduling both. `FairSpec` also assumes
strong fairness of the main thread's `pushLock`: the consumer polls an empty
queue without a pause, so that the lock is taken and released for ever, and the
exchange of `SpinLock::lock` keeps no order of arrival. Without that assumption
the main thread can be starved and `JoinReturns` fails; that the exchange succeeds
at last, on a lock that is free again and again, is what the hardware gives in
practice and the code relies on. The consumer needs no such assumption: the main
thread pushes finitely many events. `feedAllocates` is never required to happen.

`FairSpec` of `CircularBlock` assumes weak fairness of each of its two threads;
the ring has no lock, and nobody has to call `dontSpin`. `Spec` of `Lines`
assumes weak fairness of its one thread.

## What is proved

With TLAPS; every theorem is about the specification that the runs check, for
all values of its constants that its named assumptions allow. The invariants were
first checked with TLC on the bounds of the runs.

### The feed's book (`FeedHandlerProofs`)

For every finite set of ids and all sets of positive quantities
and prices (`OrderIdAssumption`, `QuantityAssumption`, `PriceAssumption`; the
code stores ids in a map, and `Parser` refuses zero values):

| Theorem | States |
|---|---|
| `TypeIsOK` | `Spec => []TypeOK` |
| `BookIsSorted` | `Spec => []SortedBook` |
| `BookIsAggregated` | `Spec => []AggregatedBook` |
| `OrdersHaveOneSide` | `Spec => []OneSidePerOrder` |
| `CriticalErrorsNeverHappen` | `Spec => []NoCriticalErrors` |
| `EventsReplay` | `Spec => EventReplays` |
| `FeedImplementsBook` | `Spec => ImplementsBook`: the refinement of `OrderBook` |

The argument. None of the properties but the types is inductive alone. The
critical refusals cannot happen because a live order has a limit (found where
`lower_bound` looks, since the deque is sorted) that holds at least its quantity
(since the sums are right); the sums stay right because no handler stops half
way. The invariant `IInv` is therefore the conjunction, per side, of
`Consistent`: the deque is typed and sorted, the map is typed, each limit has
the total of its orders, each order has a limit. Together with `OneSidePerOrder`
it is kept by each handler.

- The first part of `FeedHandlerProofs` proves what `lower_bound` returns on a sorted deque
  (`LowerBoundIsPlace`: as a count of smaller elements it is the offset a
  binary search finds) and that insertion, erasure and replacement there keep
  the deque sorted.
- The next part is about one side: how totals change
  with one order (`TotalSplits`, `AddOrder`, `ChangeOrder`) and that opening,
  overwriting and erasing a limit keep `Consistent`. A total is the number of
  *units* of quantity, the elements of `{id} \X 1..qty`: a cardinality, so that it
  needs no recursion.
- Then one lemma per handler, the inductive step, and the theorems.
- The refinement maps the two deques to `OrderBook`'s depth per price; a handler
  that changes a limit is an `Open`, `Amend` or `Close`, and everything else
  stutters.
- `EventHasForm` says what the reporter is sent: an addition at the place of a
  new price, or a deletion or change within the deque, or a trade.

### The reporter (`ReporterProofs`)

For all sets of positive quantities and prices (`ReporterAssumption`,
`PriceAssumption`), any period of the book print, and any events that fit the
reporter's deques:

| Theorem | States |
|---|---|
| `TypeIsOK` | `Spec => []TypeOK` |
| `TradesWaitForBook` | `Spec => []TradeWaitsForBook` |
| `MidquotesAreOfBestPrices` | `Spec => []MidquoteOfBestPrices` |
| `LastingCrossesAreCounted` | `Spec => LastingCrossIsCounted` |
| `HistoryIsAReporter` | `HistorySpec => Spec` |
| `TradeLinesAreTotals` | `HistorySpec => []TradeLineIsTotal` |

The argument. The reporter places limits by position and never compares their
prices; that its deques stay sorted (`SortedCopy`) follows from the positions
being those of `lower_bound` (`ReplayKeepsBook`), and gives that the front is
the best price (`BestIsInFront`). `CrossIsNoticed` carries what is needed from one
event to the next: a book that is crossed has set `detectCross_`, unless a trade was
printed last.

The line of a trade is right because `currentTrade_` always is the sum of the
last run of trades, printed or not (`CurrentIsTotal`), and the mark of a received
trade is never set before there was one. That a run that grows by one trade
grows in sum by its quantity is `SumOfOneMore`: a fold over a set, in whatever
order it goes, counts the units of the trades (`SumIsUnits`, by a least
counterexample).

### The queue (`WaitFreeQueueProofs`)

For any size of nodes, any set of blocks and any number of events (`QueueAssumption`):

| Theorem | States |
|---|---|
| `DequeHasOneUser` | `Spec => []MutualExclusion` |
| `TypeIsOK` | `Spec => []TypeOK` |
| `OthersAreReadInOrder` | `Spec => []OnlyNodeEndsDangle` |
| `QueueIsChannel` | `Spec => ImplementsChannel` |

The argument. The lock needs only where the two threads are, and nothing about
the deque. The deque is then changed by one thread at a time, and the invariant
says how its slots lie in the nodes and what the memory of each holds: the events
from the first not popped to the last pushed, in order. A reference that
`pop_front` returned stays good while its node is the first one, and a node is
freed only when its last slot is popped; that is why `OnlyNodeEndsDangle` excepts
the last slot and no other. The refinement is about what is taken from the deque:
the step that emplaces sends, the one that pops takes, all others stutter.

### The two threads (`PipelineProofs`)

For any ids, prices and finitely bounded quantities of the file (`PipelineAssumption`).
`Pipeline` reads each event as it was pushed. In the program the thread reads it
through a reference, after its place in the queue was given back
(WaitFreeQueue.h:48-51, main.cpp:73), and `queue_recycle` shows that it may then be
another one. So each of these theorems, like the run `pipeline`, says something
of the program as long as no event is read too late:

| Theorem | States |
|---|---|
| `MirrorAlwaysCatchesUp` | `Spec => []MirrorCatchesUp` |
| `DrainedMirrorIsTheBook` | the books are equal whenever the queue is empty |
| `OutsideWindowPrintIsComplete` | `DrainedUnlessInWindow`, but that main gets there: what it prints is the feed's book (if no event was read too late) |
| `PipelineImplementsReporter` | `Spec => ImplementsReporter` |
| `TypeIsOK` | `Spec => []TypeOK` |

The argument. A position is computed on the feed's deque and applied when the
feed is some events further. The invariant has a *trail*: deques that start with
the reporter's, end with the feed's, and of which each comes from the one before
by the next pending event, which fits there. The feed
extends the trail at its end (`EventsReplay` and `EventHasForm` of the feed), the
reporter shortens it at its front. `After`, the book after some of the pending
events, is a recursive function, and the trail says what it is without
unfolding it. From the trail follows that the second thread implements
`Reporter` as it stands, with all that is proved about that.

`PipelineAssumption` asks for a largest quantity, which `Parser` enforces
(`AcceptedWithinBounds`). After n lines no limit holds more than n times that
(`Bounded`), so that each event is one of those that `Reporter` allows.

### Lines (`LinesProofs`)

For files and buffers of any length, in each of the three ways to read them
(`LinesAssumption`):

| Theorem | States |
|---|---|
| `TypeIsOK` | `Spec => []TypeOK` |
| `NothingIsLostOrRepeated` | `Spec => []NothingLostOrRepeated` |
| `AllEndedLinesAreCut` | `Spec => []OnlyUnendedLineLeft` |

The argument. The first part says what each operation of `SimpleBuffer` does to
`data(buffer)`: a push appends, a seek drops, moving left keeps, and
`getPosition` finds the first. The invariant then is about sequences:
the window and what is unread are the end of the file (`RestIsNext`), the lines
are cut one after the other from what is before (`LinesAreCut`, with the places
where they end), and there are as many lines as ends of line there
(`EndsAreCounted`); at the end the window has none.

### The parser (`ParserProofs`)

For lines of any length over any characters, and any limits on the digits
(`ParserAssumption`):

| Theorem | States |
|---|---|
| `ParserHasTypes` | `Spec => []TypeOK` |
| `AcceptedFieldsAlways` | `Spec => []AcceptedFieldsAreTheLines` |
| `AcceptedBoundsAlways` | `Spec => []AcceptedWithinBounds` |
| `CountersAlways` | `Spec => []CounterTellsTheField`: the counters of missing, negative, zero and too long values |

The argument. The reference reading knows the whole line, the parser only what
it has gone over, and the line still grows behind it. The invariant `Scanning`
says, per state of the scanner, what has been gone over: before the first field
nothing but blanks (`Starting`); in an extraction, that the index is behind the
comma in front of the field, with the digits that were scanned since
(`Extracting`); between fields, that the one just read ends at the index
(`Between`). In each case the fields read before have the values of the message
(`ReadBefore`), and the commas passed are as many as the reference counts. A trade
that steps back is at a comma it has passed already (`AtComma`), so that the
count does not change. When a field is complete, `FieldText` turns this into
the reference's field, whatever comes later in the line.

The lemmas about the reference come first: which comma is the nth, that a line
that grows keeps its fields, what a number is and how large it can be
(`PriceIsBounded`), and the parts of a price. `PowerOfTen` is a recursive
function, whose values are found by a least counterexample. The last step is
the same for each property: a step of the parser goes on scanning, or rejects
with a counter that tells the truth, or accepts (`Outcome`).

### The output (`OutputProofs`)

For any capacities of the two buffers, numbers and decimals of any size, books of
any depth and any calls of a client, as far as the assumptions of `Output` allow:

| Theorem | States |
|---|---|
| `NumberReadsBackAlways` | `Spec => []NumberReadsBack` |
| `StreamHoldsTextAlways` | `Spec => []StreamHoldsText` |
| `BookPrintedInFullAlways` | `Spec => []BookPrintedInFull` |
| `TypeCorrect` | `Spec => []TypeOK`: the first buffer is never exceeded, the heap buffer not by a stream that is not misused |

The assumptions. `CapacityAssumption`: the heap buffer is not the smaller one.
`OutputAssumption`: the constants are numbers, the margin is below the capacity and a float has no more
decimals than a double.
`NumberAssumption`: every number fits the heap buffer, where the code has
32767 characters for some 20 digits. `MarginAssumption`: a row fits the stream without its
margin, and the margin has room for the last row; this is what the 128 of
`printCurrentOrderBook` is there for. `PriceAssumption` only keeps the prices that
the model enumerates from being negative. TLC evaluates all five on `output`.

The argument. What a recursive function computes is found from its definition
alone: a function with the equation exists (`RecursionHasSolution`), so that
`CHOOSE` picks one and every value satisfies the equation; facts about all
values then follow by a least counterexample (`SetInduction` and its kind, over
sets and not over predicates). In this way `Reversed`, the digits two at a time,
reads back as the number, and does so behind the decimals, whose zeros `DecimalPart` fills
in. For the streams, `Holds` says what a stream contains on either side of the
overflow, and `Appended` what it contains after one more text: that text behind
the other, cut at the capacity, unless the stream overflows for a second time
after `clear()`, and then it is `Spoiled` (a byte that was not written is within its
length). Each function that moves a stream to the heap is shown to
be `Appended`, or to crash in the one case that `misused` names. For the book,
every row up to the current one is either printed or in the stream
(`BookState`), and a stream that is flushed at the margin has room for one more
row.

### The ring (`CircularBlockProofs`)

For every capacity (`CapacityAssumption`, `PowerOfTwoAssumption`;
the code asserts both) and any number of calls:

| Theorem | States |
|---|---|
| `TypeIsOK` | `Spec => []TypeOK` |
| `SlotIsNeverShared` | `Spec => []SlotIsExclusive` |
| `RingIsChannel` | `Spec => ImplementsChannel` |

The argument. That a slot is free is nowhere in the state: it follows from a
comparison of `size_` made some steps earlier. The invariant counts it:
`RoomIsLeft` says that `size_` and the slot that `fill` has claimed stay below
the capacity, `SeenIsThere` that `empty` still finds what it saw,
`LastFollowsSize` that `last_` is `size_` slots after `first_`, and
`SlotsInOrder` that these slots hold the data in order. The slot to be written is
then `size_ + 1 < CAPACITY` slots after `first_` and so a different one
(`SlotAfterInjective`). For the refinement, `fillPublish` is the step that
sends, `emptyTake` the one that takes, and all others stutter.

### Only model-checked

`CounterTellsTheLine`, the six counters of lines that are blank, commented,
incomplete, or have a wrong letter or a character that does not belong: most of
it is about the reference's reading of text that the scanner rejects, and the
proof of the fourteen other counters does not speak of that.
`SummaryCountsAll`: its inputs are the same for all values of the constants
(each counter has its own number), so that TLC evaluates nearly all that a theorem
would say; a proof would add the capacities only. And all liveness (`JoinReturns`,
`Terminates`, that main gets to the end in `DrainedUnlessInWindow`,
`ReadsToTheEnd`, the two threads of the ring), which is out of the prover's reach.

## What is not modelled

- Prices are exact: two texts of one price decode to the same double (zeros at
  the end divide out exactly) and two prices of nine digits and six decimals
  to different ones. Sums of quantities cannot overflow 64 bits: 10^9 ids of at
  most 10^6-1.
- `dontSpin_` is a plain `bool`, a data race. The models read its current
  value each time: between two reads are an exchange with acquire order and a
  release store.
- The late read of an event in the composition: `WaitFreeQueue` has it
  (`queue_recycle`, and that only the last slot of a node is exposed), `Pipeline`
  has not. What the reporter does with an event that was overwritten is not
  modelled.
- Logging, the wording of the output, the handling of arguments, `open`, `stat`
  and the timing lines of `main`. A file that cannot be mapped, the empty file
  among them, ends the program before `Lines` begins.
- `FiniteStr::assign`, `toString` and the forms of its constructor and of `resize` with a
  filler: nothing calls them.
- `moreSpace` of `SimpleBuffer`, which is commented out.
- `genOrders.py`, a generator of test files, and `src/ext`.

## Plan

1. (done) `Limits`, `OrderBook`, `FeedHandler`: the book, its refinement, its
   invariants, their proofs.
2. (done) `Reporter`, `Channel`, `WaitFreeQueue`, `Pipeline`: the second
   thread, the queue, and the composition.
3. (done) `Parser` with a reference reading of lines.
4. (done) `CircularBlock`, and that it implements `Channel`, with proofs.
5. (done) `Decoder` both ways, `StrStream` over `FiniteStr`, and `Output`, which
   prints books and summaries with them.
6. (done) `SimpleBuffer` and `Lines`.
7. (done) Proofs of the reporter's invariants and of the queue's lock.
8. (done) Proofs: the refinement of `OrderBook`; that the queue implements
   `Channel` and that only the ends of nodes dangle; `MirrorCatchesUp` of the
   pipeline, and that it implements `Reporter`; the totals of trades; the
   invariants of `Lines` and of `Parser`.
9. (done) Proofs of `Output`: numbers, streams, the print of a book, types.
10. Left: a proof of `SummaryCountsAll` for counters of any values.
