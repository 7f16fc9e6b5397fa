--------------------------- MODULE WaitFreeQueue ---------------------------
(***************************************************************************)
(* The queue between the two threads of main.cpp: a std::deque under a     *)
(* spin lock, and the flag dontSpin_ that lets the consumer stop.          *)
(*                                                                         *)
(* The producer is the main thread: for each event of the feed push_back,  *)
(* then dontSpin(), then join.  The consumer is the reporter's thread:     *)
(* pop_front and use of what it returned, until it returns nodata.         *)
(*                                                                         *)
(* pop_front returns a reference to an element it has already removed.     *)
(* What the reference reads depends on the memory of the deque, so that is *)
(* modelled: nodes of NodeSize slots, taken from the heap when the last    *)
(* slot of the last node is filled, given back when the last slot of the   *)
(* first node is popped (libstdc++: 512 / sizeof(Data) = 3 slots).         *)
(***************************************************************************)
EXTENDS Naturals, Sequences, FiniteSets, Functions

CONSTANTS
  NodeSize,   \* slots in a node of the deque
  Block,      \* the blocks of memory that can hold a node
  MaxPush     \* bound on the number of events

ASSUME QueueAssumption ==
  /\ NodeSize \in Nat \ {0}
  /\ MaxPush \in Nat

VARIABLES
  lock_,       \* SpinLock::lock_
  dontSpin_,   \* the flag, read and written without the lock
  nodes,       \* the blocks that hold the deque, front node first
  first,       \* slot of the front element in the first node
  free,        \* slot after the back element, in the last node
  freed,       \* the blocks given back to the heap
  memory,      \* what each slot of each block holds
  producer,    \* what the main thread does next
  consumer,    \* what the reporter's thread does next
  input,       \* how many events the input makes
  sent,        \* how many events were pushed
  data,        \* the reference pop_front returns: [block, slot]
  delivered    \* what the consumer read through it, in order

deque == <<nodes, first, free, freed>>
vars == <<lock_, dontSpin_, deque, memory, producer, consumer, input, sent,
          data, delivered>>

Slot == 0 .. (NodeSize - 1)

Nothing == 0            \* an event is its number; 0 is no event
Other == MaxPush + 1    \* what else the feed's thread keeps in the heap

Init ==
  /\ lock_ = FALSE
  /\ dontSpin_ = FALSE
  /\ \E b \in Block : nodes = <<b>> /\ data = [block |-> b, slot |-> 0]
  /\ first = 0
  /\ free = 0
  /\ freed = {}
  /\ memory = [b \in Block |-> [s \in Slot |-> Nothing]]
  /\ producer = "lock"
  /\ consumer = "lock"
  /\ input \in 0 .. MaxPush
  /\ sent = 0
  /\ delivered = << >>

-----------------------------------------------------------------------------
(* The deque.                                                               *)

Back == nodes[Len(nodes)]

Size == ((Len(nodes) - 1) * NodeSize + free) - first

\* Slot k of the deque, from 0.
Place(k) ==
  [block |-> nodes[(first + k) \div NodeSize + 1], slot |-> (first + k) % NodeSize]

Read(place) == memory[place.block][place.slot]

Contents == [i \in 1 .. Size |-> Read(Place(i - 1))]

\* What malloc may return: a block that was freed is as good as any.
Available == Block \ Range(nodes)

\* Mutant: a new last node, filled from where the old one ended.
emplace_back_NoReset(value) ==
  /\ memory' = [memory EXCEPT ![Back][free] = value]
  /\ free' = free + 1
  /\ \/ free + 1 < NodeSize /\ UNCHANGED <<nodes, freed>>
     \/ /\ free + 1 = NodeSize
        /\ \E b \in Available :
             /\ nodes' = Append(nodes, b)
             /\ freed' = freed \ {b}
  /\ UNCHANGED first

emplace_back(value) ==
  /\ memory' = [memory EXCEPT ![Back][free] = value]
  /\ \/ /\ free + 1 < NodeSize
        /\ free' = free + 1
        /\ UNCHANGED <<nodes, freed>>
     \/ /\ free + 1 = NodeSize
        /\ \E b \in Available :
             /\ nodes' = Append(nodes, b)
             /\ freed' = freed \ {b}
        /\ free' = 0
  /\ UNCHANGED first

pop_front ==
  /\ \/ /\ first + 1 < NodeSize
        /\ first' = first + 1
        /\ UNCHANGED <<nodes, freed>>
     \/ /\ first + 1 = NodeSize
        /\ nodes' = Tail(nodes)
        /\ freed' = freed \cup {Head(nodes)}
        /\ first' = 0
  /\ UNCHANGED <<free, memory>>

-----------------------------------------------------------------------------
(* The main thread.                                                         *)

\* lock_.lock(): the exchange that finds false.  Those that find true change
\* nothing.
pushLock ==
  /\ producer = "lock"
  /\ sent < input
  /\ ~lock_
  /\ lock_' = TRUE
  /\ producer' = "emplace"
  /\ UNCHANGED <<dontSpin_, deque, memory, consumer, input, sent, data,
                 delivered>>

pushEmplace ==
  /\ producer = "emplace"
  /\ emplace_back(sent + 1)
  /\ sent' = sent + 1
  /\ producer' = "unlock"
  /\ UNCHANGED <<lock_, dontSpin_, consumer, input, data, delivered>>

pushUnlock ==
  /\ producer = "unlock"
  /\ lock_' = FALSE
  /\ producer' = "lock"
  /\ UNCHANGED <<dontSpin_, deque, memory, consumer, input, sent, data,
                 delivered>>

\* Between two events the feed allocates for its own containers, and may be
\* given a block that was freed, and give it back.
feedAllocates ==
  /\ producer = "lock"
  /\ \E b \in freed : memory' = [memory EXCEPT ![b] = [s \in Slot |-> Other]]
  /\ UNCHANGED <<lock_, dontSpin_, deque, producer, consumer, input, sent,
                 data,
                 delivered>>

\* Mutant: the flag is set while there is more to push.
dontSpin_Early ==
  /\ producer = "lock"
  /\ dontSpin_' = TRUE
  /\ UNCHANGED <<lock_, deque, memory, producer, consumer, input, sent, data,
                 delivered>>

\* The input is at its end.
dontSpin ==
  /\ producer = "lock"
  /\ sent = input
  /\ dontSpin_' = TRUE
  /\ producer' = "join"
  /\ UNCHANGED <<lock_, deque, memory, consumer, input, sent, data, delivered>>

join ==
  /\ producer = "join"
  /\ consumer = "stopped"
  /\ producer' = "joined"
  /\ UNCHANGED <<lock_, dontSpin_, deque, memory, consumer, input, sent, data,
                 delivered>>

Producer ==
  \/ pushLock \/ pushEmplace \/ pushUnlock
  \/ feedAllocates
  \/ dontSpin \/ join

-----------------------------------------------------------------------------
(* The reporter's thread.                                                   *)

\* Mutant: the exchange is not looked at.
popLock_Barges ==
  /\ consumer = "lock"
  /\ lock_' = TRUE
  /\ consumer' = "empty"
  /\ UNCHANGED <<dontSpin_, deque, memory, producer, input, sent, data,
                 delivered>>

popLock ==
  /\ consumer = "lock"
  /\ ~lock_
  /\ lock_' = TRUE
  /\ consumer' = "empty"
  /\ UNCHANGED <<dontSpin_, deque, memory, producer, input, sent, data,
                 delivered>>

popEmpty ==
  /\ consumer = "empty"
  /\ consumer' = IF Size = 0 THEN "unlockEmpty" ELSE "front"
  /\ UNCHANGED <<lock_, dontSpin_, deque, memory, producer, input, sent, data,
                 delivered>>

popUnlockEmpty ==
  /\ consumer = "unlockEmpty"
  /\ lock_' = FALSE
  /\ consumer' = "readFlag"
  /\ UNCHANGED <<dontSpin_, deque, memory, producer, input, sent, data,
                 delivered>>

\* Mutant: nodata never stops the loop.
popReadFlag_Retries ==
  /\ consumer = "readFlag"
  /\ consumer' = "lock"
  /\ UNCHANGED <<lock_, dontSpin_, deque, memory, producer, input, sent, data,
                 delivered>>

\* Outside the lock.  nodata makes processData return false.
popReadFlag ==
  /\ consumer = "readFlag"
  /\ consumer' = IF dontSpin_ THEN "stopped" ELSE "lock"
  /\ UNCHANGED <<lock_, dontSpin_, deque, memory, producer, input, sent, data,
                 delivered>>

\* Mutant: the reference is taken after the element was removed.
popFront_TooLate ==
  /\ consumer = "front"
  /\ data' = Place(1)
  /\ pop_front
  /\ consumer' = "unlock"
  /\ UNCHANGED <<lock_, dontSpin_, producer, input, sent, delivered>>

popFront ==
  /\ consumer = "front"
  /\ data' = Place(0)
  /\ pop_front
  /\ consumer' = "unlock"
  /\ UNCHANGED <<lock_, dontSpin_, producer, input, sent, delivered>>

popUnlock ==
  /\ consumer = "unlock"
  /\ lock_' = FALSE
  /\ consumer' = "use"
  /\ UNCHANGED <<dontSpin_, deque, memory, producer, input, sent, data,
                 delivered>>

\* processData reads through the reference.
useData ==
  /\ consumer = "use"
  /\ delivered' = Append(delivered, Read(data))
  /\ consumer' = "lock"
  /\ UNCHANGED <<lock_, dontSpin_, deque, memory, producer, input, sent, data>>

Consumer ==
  \/ popLock \/ popEmpty \/ popUnlockEmpty \/ popReadFlag
  \/ popFront \/ popUnlock \/ useData

\* The program ends here.
Done == producer = "joined" /\ UNCHANGED vars

Next == Producer \/ Consumer \/ Done

Spec == Init /\ [][Next]_vars

\* Both threads are scheduled: each keeps taking its steps as long as it can.
\* The main thread, spinning while the lock becomes free again and again, gets
\* it at last: the consumer polls an empty queue for ever until the flag is set,
\* and the lock has no order of arrival.
FairSpec ==
  /\ Spec
  /\ WF_vars(Consumer)
  /\ WF_vars(pushEmplace \/ pushUnlock \/ dontSpin \/ join)
  /\ SF_vars(pushLock)

-----------------------------------------------------------------------------
(* Properties.                                                              *)

TypeOK ==
  /\ lock_ \in BOOLEAN
  /\ dontSpin_ \in BOOLEAN
  /\ nodes \in Seq(Block) /\ nodes # << >>
  /\ first \in Slot
  /\ free \in Slot
  /\ freed \subseteq Block
  /\ memory \in [Block -> [Slot -> 0 .. Other]]
  /\ producer \in {"lock", "emplace", "unlock", "join", "joined"}
  /\ consumer \in {"lock", "empty", "unlockEmpty", "readFlag", "front",
                   "unlock", "use", "stopped"}
  /\ input \in 0 .. MaxPush
  /\ sent \in 0 .. input
  /\ data \in [block : Block, slot : Slot]
  /\ delivered \in Seq(0 .. Other)

\* The spin lock: at most one thread is between its lock and its unlock.
Pushing == producer \in {"emplace", "unlock"}
Popping == consumer \in {"empty", "unlockEmpty", "front", "unlock"}

MutualExclusion ==
  /\ ~(Pushing /\ Popping)
  /\ lock_ <=> (Pushing \/ Popping)

\* What the consumer reads through the reference, after the unlock, is the
\* element that it removed: the updates arrive in order, none twice, none
\* missing, none made of other memory.  (README: the second thread is there
\* "to receive updates (or events) to rebuild his own copy".)
DeliveredInOrder == \A i \in DOMAIN delivered : delivered[i] = i

\* Only the element in the last slot of a node can be read after its memory was
\* freed; every other one is read as it was pushed, in the order of the pushes.
OnlyNodeEndsDangle ==
  \A i \in DOMAIN delivered : i % NodeSize # 0 => delivered[i] = i

\* The queue implements a channel: through the lock, the nodes and memory that
\* the heap reuses, each removal takes the oldest event that was not taken yet,
\* and nothing is sent once the channel is closed.  An event is its number, so
\* that the last one taken is the number of those taken.
Taken == Len(delivered) + (IF consumer \in {"unlock", "use"} THEN 1 ELSE 0)

Fifo == INSTANCE Channel WITH
  buffer <- Contents,
  taken  <- Taken,
  last   <- Taken,
  closed <- dontSpin_

ImplementsChannel == Fifo!Spec

\* main returns from join: whatever the interleaving of pushes, pops and the
\* flag, the reporter's thread stops.
JoinReturns == <>(producer = "joined")

\* Reporter.cpp: nodata is returned "only when no more data and dontSpin is
\* true => stop at the end".
StopOnlyWhenDrained == consumer = "stopped" => Size = 0
=============================================================================
