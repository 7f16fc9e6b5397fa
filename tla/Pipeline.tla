------------------------------ MODULE Pipeline ------------------------------
(***************************************************************************)
(* main.cpp: the main thread reads the input and lets FeedHandler rebuild  *)
(* the book; the reporter's thread repeats it on its own deques, some      *)
(* events behind.  Between them the queue, here a sequence: in which order *)
(* events are taken from it, WaitFreeQueue shows (ImplementsChannel).  Of  *)
(* the weaknesses of pop_front one is kept: it looks at the queue and at   *)
(* dontSpin_ in two steps.  The other is left out: that the event behind   *)
(* the reference it returns may be overwritten before it is read           *)
(* (queue_recycle).  All that is said here is for runs in which the thread *)
(* reads each event before its node is used again.                         *)
(***************************************************************************)
EXTENDS Limits

CONSTANTS
  OrderId, Quantity,   \* of the messages, with Price
  MaxErrors, MaxTraded, MaxCrosses, BookPeriod,   \* see FeedHandler, Reporter
  MaxMessages          \* bound on the lines of the input

\* What the two ends assume, and a largest quantity, which Parser enforces.
ASSUME PipelineAssumption ==
  /\ IsFiniteSet(OrderId)
  /\ Quantity \subseteq Nat \ {0}
  /\ \E q \in Quantity : \A r \in Quantity : r <= q
  /\ BookPeriod \in Nat
  /\ MaxMessages \in Nat

VARIABLES
  limits, orders, errors, pushed,           \* the feed's
  book, currentTrade, receivedNewTrade, detectCross, crosses, counter,
  bookPrinted, printed,                     \* the reporter's
  queue,        \* the events pushed and not popped
  dontSpin_,    \* the main thread pushes no more
  main,         \* what the main thread does next
  thread,       \* what the reporter's thread does next
  unread        \* how many lines of the input are left

Feed == INSTANCE FeedHandler

\* What the quantities of the messages can add up to on a limit.
AggregatedQty == 1 .. (MaxMessages * Max(Quantity))

Rep == INSTANCE Reporter WITH Quantity <- AggregatedQty

feedVars == <<limits, orders, errors, pushed>>
reporterVars == <<book, currentTrade, receivedNewTrade, detectCross, crosses,
                  counter, bookPrinted, printed>>
vars == <<feedVars, reporterVars, queue, dontSpin_, main, thread, unread>>

Init ==
  /\ Feed!Init
  /\ Rep!Init
  /\ queue = << >>
  /\ dontSpin_ = FALSE
  /\ main = "reading"
  /\ thread = "pop"
  /\ unread \in 0 .. MaxMessages

-----------------------------------------------------------------------------
(* The main thread.                                                         *)

\* Mutant: a refused message is pushed too.
processLine_PushesRefused ==
  /\ main = "reading"
  /\ unread > 0
  /\ unread' = unread - 1
  /\ Feed!processMessage
  /\ queue' = Append(queue, pushed')
  /\ UNCHANGED <<reporterVars, dontSpin_, main, thread>>

\* Mutant: the newest event goes first.
processLine_PushesFront ==
  /\ main = "reading"
  /\ unread > 0
  /\ unread' = unread - 1
  /\ Feed!processMessage
  /\ queue' = IF pushed' = NoData THEN queue ELSE <<pushed'>> \o queue
  /\ UNCHANGED <<reporterVars, dontSpin_, main, thread>>

processLine ==
  /\ main = "reading"
  /\ unread > 0
  /\ unread' = unread - 1
  /\ Feed!processMessage
  /\ queue' = IF pushed' = NoData THEN queue ELSE Append(queue, pushed')
  /\ UNCHANGED <<reporterVars, dontSpin_, main, thread>>

\* The input is read, or its last line has no end.
dontSpin ==
  /\ main = "reading"
  /\ unread = 0
  /\ dontSpin_' = TRUE
  /\ main' = "join"
  /\ UNCHANGED <<feedVars, reporterVars, queue, thread, unread>>

\* join, then printCurrentOrderBook and printErrors on what there is.
joinAndPrint ==
  /\ main = "join"
  /\ thread = "stopped"
  /\ main' = "printed"
  /\ UNCHANGED <<feedVars, reporterVars, queue, dontSpin_, thread, unread>>

Main == processLine \/ dontSpin \/ joinAndPrint

-----------------------------------------------------------------------------
(* The reporter's thread.                                                   *)

popAndReport ==
  /\ thread = "pop"
  /\ queue # << >>
  /\ Rep!report(Head(queue))
  /\ queue' = Tail(queue)
  /\ UNCHANGED <<feedVars, dontSpin_, main, thread, unread>>

\* Mutant: the flag is read first, whatever is in the queue.
popFromEmpty_NoLook ==
  /\ thread = "pop"
  /\ thread' = "sawEmpty"
  /\ UNCHANGED <<feedVars, reporterVars, queue, dontSpin_, main, unread>>

popFromEmpty ==
  /\ thread = "pop"
  /\ queue = << >>
  /\ thread' = "sawEmpty"
  /\ UNCHANGED <<feedVars, reporterVars, queue, dontSpin_, main, unread>>

\* Mutant: the flag does not stop the thread.
readFlag_Retries ==
  /\ thread = "sawEmpty"
  /\ thread' = "pop"
  /\ UNCHANGED <<feedVars, reporterVars, queue, dontSpin_, main, unread>>

readFlag ==
  /\ thread = "sawEmpty"
  /\ thread' = IF dontSpin_ THEN "stopped" ELSE "pop"
  /\ UNCHANGED <<feedVars, reporterVars, queue, dontSpin_, main, unread>>

Thread == popAndReport \/ popFromEmpty \/ readFlag

Done == main = "printed" /\ UNCHANGED vars

Next == Main \/ Thread \/ Done

Spec == Init /\ [][Next]_vars /\ WF_vars(Main) /\ WF_vars(Thread)

-----------------------------------------------------------------------------
(* Properties.                                                              *)

TypeOK ==
  /\ Feed!TypeOK
  /\ Rep!TypeOK
  /\ queue \in Seq(DataType \ {NoData})
  /\ dontSpin_ \in BOOLEAN
  /\ main \in {"reading", "join", "printed"}
  /\ thread \in {"pop", "sawEmpty", "stopped"}
  /\ unread \in 0 .. MaxMessages

\* The reporter's deques after the first n pending events.
After[n \in 0 .. Len(queue)] ==
  IF n = 0 THEN book ELSE Replay(After[n - 1], queue[n])

\* However far behind it is, the reporter has a book that the feed had: the
\* pending events, replayed on it, fit and lead to the feed's deques.  The
\* positions they carry were computed on deques the reporter does not have
\* yet.  It is true of the program as long as no event is read too late.
MirrorCatchesUp ==
  /\ \A n \in DOMAIN queue : InRange(After[n - 1], queue[n])
  /\ After[Len(queue)] = limits

\* Every event the reporter gets fits its deques, so that it behaves as the
\* Reporter module says: if it reads, through its reference, the event that
\* was pushed.
ImplementsReporter == Rep!Spec

\* If the reporter's thread is not between its look at the queue and its look
\* at the flag when the flag is set, every event is taken from the queue and
\* main prints the book that the feed built, provided that no event was read
\* too late.
DrainedUnlessInWindow ==
  (main = "join" /\ thread = "pop") ~> (main = "printed" /\ book = limits)

\* The program ends, whatever the messages and the interleaving, as long as no
\* event is read too late: one that was overwritten need not fit the deques.
Terminates == <>(main = "printed")
=============================================================================
