------------------------ MODULE WaitFreeQueueProofs ------------------------
(***************************************************************************)
(* The queue, for any size of a node, any blocks and any number of events: *)
(* the two threads are never in the deque together, so that what it holds, *)
(* in memory that the heap reuses, are the events sent and not yet taken.  *)
(***************************************************************************)
EXTENDS WaitFreeQueue, TLAPS, SequenceTheorems

\* Where the two threads can be.
ThreadsOK ==
  /\ lock_ \in BOOLEAN
  /\ producer \in {"lock", "emplace", "unlock", "join", "joined"}
  /\ consumer \in {"lock", "empty", "unlockEmpty", "readFlag", "front",
                   "unlock", "use", "stopped"}

LockInv == ThreadsOK /\ MutualExclusion

LEMMA InitLockInv == Init => LockInv
BY DEF Init, LockInv, ThreadsOK, MutualExclusion, Pushing, Popping

\* Each step of the main thread takes the lock free, gives back its own, or
\* leaves it alone.
LEMMA ProducerKeepsLock == LockInv /\ Producer => LockInv'
<1>. SUFFICES ASSUME LockInv, Producer PROVE LockInv'
  OBVIOUS
<1>. USE DEF LockInv, ThreadsOK, MutualExclusion, Pushing, Popping
<1>1. CASE pushLock
  BY <1>1 DEF pushLock
<1>2. CASE pushEmplace
  BY <1>2 DEF pushEmplace
<1>3. CASE pushUnlock
  BY <1>3 DEF pushUnlock
<1>4. CASE feedAllocates
  BY <1>4 DEF feedAllocates
<1>5. CASE dontSpin
  BY <1>5 DEF dontSpin
<1>6. CASE join
  BY <1>6 DEF join
<1>. QED  BY <1>1, <1>2, <1>3, <1>4, <1>5, <1>6 DEF Producer

\* So does each step of the reporter's thread, on both ways out of pop_front.
LEMMA ConsumerKeepsLock == LockInv /\ Consumer => LockInv'
<1>. SUFFICES ASSUME LockInv, Consumer PROVE LockInv'
  OBVIOUS
<1>. USE DEF LockInv, ThreadsOK, MutualExclusion, Pushing, Popping
<1>1. CASE popLock
  BY <1>1 DEF popLock
<1>2. CASE popEmpty
  <2>1. consumer' \in {"unlockEmpty", "front"}
    BY <1>2 DEF popEmpty
  <2>. QED  BY <1>2, <2>1 DEF popEmpty
<1>3. CASE popUnlockEmpty
  BY <1>3 DEF popUnlockEmpty
<1>4. CASE popReadFlag
  <2>1. consumer' \in {"stopped", "lock"}
    BY <1>4 DEF popReadFlag
  <2>. QED  BY <1>4, <2>1 DEF popReadFlag
<1>5. CASE popFront
  BY <1>5 DEF popFront
<1>6. CASE popUnlock
  BY <1>6 DEF popUnlock
<1>7. CASE useData
  BY <1>7 DEF useData
<1>. QED  BY <1>1, <1>2, <1>3, <1>4, <1>5, <1>6, <1>7 DEF Consumer

\* Between its lock and its unlock (WaitFreeQueue.h:13-17, :30-33, :42-50) each
\* thread has the deque to itself, and the lock is taken exactly then.
THEOREM DequeHasOneUser == Spec => []MutualExclusion
<1>1. LockInv /\ [Next]_vars => LockInv'
  <2>. SUFFICES ASSUME LockInv, [Next]_vars PROVE LockInv'
    OBVIOUS
  <2>1. CASE Producer
    BY <2>1, ProducerKeepsLock
  <2>2. CASE Consumer
    BY <2>2, ConsumerKeepsLock
  <2>3. CASE UNCHANGED vars
    BY <2>3 DEF vars, LockInv, ThreadsOK, MutualExclusion, Pushing, Popping
  <2>. QED  BY <2>1, <2>2, <2>3 DEF Next, Done
<1>2. LockInv => MutualExclusion
  BY DEF LockInv
<1>. QED  BY <1>1, <1>2, InitLockInv, PTL DEF Spec

-----------------------------------------------------------------------------
(* The deque and its memory.                                                *)

\* The slots in the order in which the deque fills them, counted from the
\* first slot of the first node, and the first that is still to be filled.
Offset(n, s) == (n - 1) * NodeSize + s

End == Offset(Len(nodes), free)

Held(n, s) == first <= Offset(n, s) /\ Offset(n, s) < End

\* No block is two nodes, or a node and a block of the heap.
NodesInv ==
  /\ \A i, j \in 1 .. Len(nodes) : nodes[i] = nodes[j] => i = j
  /\ \A i \in 1 .. Len(nodes) : nodes[i] \notin freed

\* What was sent was taken or is in the deque.
CountInv ==
  /\ first <= End
  /\ sent = Taken + (End - first)
  /\ consumer = "front" => first < End
  /\ producer = "emplace" => sent < input

FlagInv == dontSpin_ = (producer \in {"join", "joined"})

\* The slots of the deque hold the events that follow the last one taken.
MemoryInv ==
  \A n \in 1 .. Len(nodes), s \in Slot :
    Held(n, s) => memory[nodes[n]][s] = Taken + 1 + (Offset(n, s) - first)

\* The front slot follows from the number of events taken, and while the
\* consumer holds a reference to a slot that is not the last of its node, this
\* node is still the first one and the slot still holds what was taken.
ReferenceInv ==
  /\ first = Taken % NodeSize
  /\ consumer \in {"unlock", "use"} /\ first # 0
       => /\ data = [block |-> nodes[1], slot |-> first - 1]
          /\ memory[nodes[1]][first - 1] = Taken

\* The inductive invariant.  TypeOK needs sent <= input; what the consumer reads
\* is right because the deque is, and the deque is because of the lock.
IInv ==
  /\ TypeOK /\ LockInv
  /\ NodesInv /\ CountInv /\ FlagInv /\ MemoryInv /\ ReferenceInv
  /\ OnlyNodeEndsDangle

-----------------------------------------------------------------------------
(* Arithmetic of slots.                                                     *)

LEMMA OffsetFacts ==
  ASSUME NEW n \in Nat \ {0}, NEW s \in Slot
  PROVE  /\ s \in Nat /\ s < NodeSize /\ NodeSize \in Nat \ {0}
         /\ Offset(n, s) \in Nat
         /\ Offset(n + 1, s) = Offset(n, s) + NodeSize
         /\ Offset(n + 1, 0) = n * NodeSize
         /\ Offset(n, 0) <= Offset(n, s) /\ Offset(n, s) < Offset(n + 1, 0)
         /\ s + 1 < NodeSize => Offset(n, s + 1) = Offset(n, s) + 1
         /\ s + 1 = NodeSize => Offset(n + 1, 0) = Offset(n, s) + 1
<1>1. s \in Nat /\ s < NodeSize /\ NodeSize \in Nat \ {0}
  BY QueueAssumption DEF Slot
<1>2. (n - 1) * NodeSize \in Nat /\ n * NodeSize = (n - 1) * NodeSize + NodeSize
  BY <1>1
<1> QED BY <1>1, <1>2 DEF Offset

LEMMA OffsetOrder ==
  ASSUME NEW n \in Nat \ {0}, NEW m \in Nat \ {0}, NEW s \in Slot, NEW t \in Slot
  PROVE  /\ Offset(n, s) = Offset(m, t) => n = m /\ s = t
         /\ n < m => Offset(n, s) < Offset(m, t)
<1>1. s \in Nat /\ t \in Nat /\ s < NodeSize /\ t < NodeSize /\ NodeSize \in Nat \ {0}
  BY OffsetFacts
<1>2. ASSUME NEW a \in Nat \ {0}, NEW b \in Nat \ {0}, NEW c \in Slot, NEW d \in Slot,
             a < b
      PROVE  Offset(a, c) < Offset(b, d)
  <2>1. c \in Nat /\ d \in Nat /\ c < NodeSize
    BY OffsetFacts
  <2>2. PICK k \in Nat : b = a + 1 + k
    <3>1. b - a - 1 \in Nat /\ b = a + 1 + (b - a - 1)
      BY <1>2
    <3> QED BY <3>1
  <2>3. (b - 1) * NodeSize = (a - 1) * NodeSize + NodeSize + k * NodeSize
    BY <1>1, <2>2
  <2>4. k * NodeSize \in Nat /\ (a - 1) * NodeSize \in Nat
    BY <1>1
  <2> QED BY <1>1, <2>1, <2>3, <2>4 DEF Offset
<1>3. ASSUME Offset(n, s) = Offset(m, t)
      PROVE  n = m /\ s = t
  <2>1. ~(n < m) /\ ~(m < n)
    BY <1>2, <1>3, OffsetFacts, SMTT(30)
  <2>2. n = m
    BY <2>1
  <2>3. (n - 1) * NodeSize \in Nat
    BY <1>1
  <2> QED BY <2>2, <2>3, <1>1, <1>3 DEF Offset
<1> QED BY <1>2, <1>3

\* The slot after the r-th of q full nodes.
LEMMA Remainder ==
  ASSUME NEW q \in Nat, NEW r \in Slot
  PROVE  /\ (q * NodeSize + r) % NodeSize = r
         /\ (q * NodeSize + r) \div NodeSize = q
BY QueueAssumption DEF Slot

\* Taking one more event moves the front slot on by one, or to the next node.
LEMMA NextRemainder ==
  ASSUME NEW a \in Nat
  PROVE  /\ a % NodeSize \in Slot
         /\ (a % NodeSize) + 1 < NodeSize => (a + 1) % NodeSize = (a % NodeSize) + 1
         /\ (a % NodeSize) + 1 = NodeSize => (a + 1) % NodeSize = 0
<1> DEFINE q == a \div NodeSize
           r == a % NodeSize
<1>1. q \in Nat /\ r \in Slot /\ a = (q * NodeSize) + r
  BY QueueAssumption DEF Slot
<1>2. r \in Nat /\ NodeSize \in Nat \ {0} /\ q * NodeSize \in Nat
  BY <1>1, QueueAssumption DEF Slot
<1> HIDE DEF q, r
<1>3. ASSUME r + 1 < NodeSize
      PROVE  (a + 1) % NodeSize = r + 1
  <2>1. r + 1 \in Slot /\ a + 1 = (q * NodeSize) + (r + 1)
    BY <1>1, <1>2, <1>3 DEF Slot
  <2>2. ((q * NodeSize) + (r + 1)) % NodeSize = r + 1
    BY <1>1, <2>1, Remainder
  <2> QED BY <2>1, <2>2
<1>4. ASSUME r + 1 = NodeSize
      PROVE  (a + 1) % NodeSize = 0
  <2>1. 0 \in Slot /\ q + 1 \in Nat /\ a + 1 = ((q + 1) * NodeSize) + 0
    BY <1>1, <1>2, <1>4 DEF Slot
  <2>2. (((q + 1) * NodeSize) + 0) % NodeSize = 0
    BY <2>1, Remainder
  <2> QED BY <2>1, <2>2
<1> QED BY <1>1, <1>3, <1>4 DEF r

\* What the types say of the numbers.
LEMMA TypeFacts ==
  ASSUME TypeOK
  PROVE  /\ Len(nodes) \in Nat \ {0}
         /\ \A i \in 1 .. Len(nodes) : nodes[i] \in Block
         /\ Range(nodes) = {nodes[i] : i \in 1 .. Len(nodes)}
         /\ first \in Slot /\ free \in Slot /\ 0 \in Slot
         /\ first \in Nat /\ free \in Nat /\ first < NodeSize /\ free < NodeSize
         /\ NodeSize \in Nat \ {0}
         /\ End \in Nat
         /\ Len(delivered) \in Nat /\ DOMAIN delivered = 1 .. Len(delivered)
         /\ Taken \in Nat
         /\ sent \in Nat /\ input \in Nat /\ sent <= input /\ MaxPush \in Nat
<1>1. nodes \in Seq(Block) /\ nodes # << >> /\ first \in Slot /\ free \in Slot
  BY DEF TypeOK
<1>2. Len(nodes) \in Nat \ {0} /\ DOMAIN nodes = 1 .. Len(nodes)
  BY <1>1, LenProperties, EmptySeq
<1>3. \A i \in 1 .. Len(nodes) : nodes[i] \in Block
  BY <1>1, ElementOfSeq
<1>4. Range(nodes) = {nodes[i] : i \in 1 .. Len(nodes)}
  BY <1>2 DEF Range
<1>5. /\ first \in Nat /\ free \in Nat /\ first < NodeSize /\ free < NodeSize
      /\ NodeSize \in Nat \ {0} /\ End \in Nat
  BY <1>1, <1>2, OffsetFacts DEF End
<1>6. Len(delivered) \in Nat /\ DOMAIN delivered = 1 .. Len(delivered)
  BY LenProperties DEF TypeOK
<1>7. Taken \in Nat
  BY <1>6 DEF Taken
<1>8. sent \in Nat /\ input \in Nat /\ sent <= input /\ MaxPush \in Nat
  BY QueueAssumption DEF TypeOK
<1>9. 0 \in Slot
  BY QueueAssumption DEF Slot
<1> QED BY <1>1, <1>2, <1>3, <1>4, <1>5, <1>6, <1>7, <1>8, <1>9

-----------------------------------------------------------------------------
(* The steps.                                                               *)

LEMMA InitIInv == Init => IInv
<1> SUFFICES ASSUME Init PROVE IInv
  OBVIOUS
<1>1. PICK b \in Block : nodes = <<b>> /\ data = [block |-> b, slot |-> 0]
  BY DEF Init
<1>2. /\ nodes \in Seq(Block) /\ nodes # << >> /\ Len(nodes) = 1
      /\ first = 0 /\ free = 0 /\ 0 \in Slot /\ NodeSize \in Nat \ {0}
  BY <1>1, QueueAssumption DEF Init, Slot
<1>3. delivered = << >> /\ Len(delivered) = 0 /\ Taken = 0 /\ End = 0
  BY <1>2 DEF Init, Taken, End, Offset
<1>4. TypeOK
  <2>1. memory \in [Block -> [Slot -> 0 .. Other]]
    BY QueueAssumption DEF Init, Other, Nothing
  <2>2. data \in [block : Block, slot : Slot]
    BY <1>1, <1>2
  <2>3. delivered \in Seq(0 .. Other)
    BY <1>3
  <2> QED BY <1>2, <2>1, <2>2, <2>3, QueueAssumption DEF Init, TypeOK
<1>5. NodesInv
  BY <1>2 DEF Init, NodesInv
<1>6. CountInv /\ FlagInv
  BY <1>2, <1>3 DEF Init, CountInv, FlagInv
<1>7. MemoryInv
  <2>1. ASSUME NEW n \in 1 .. Len(nodes), NEW t \in Slot
        PROVE  ~Held(n, t)
    <3>1. n = 1 /\ Offset(n, t) \in Nat
      BY <1>2, OffsetFacts
    <3> QED BY <3>1, <1>3 DEF Held
  <2> QED BY <2>1 DEF MemoryInv
<1>8. ReferenceInv
  <2>1. ((0 * NodeSize) + 0) % NodeSize = 0 /\ (0 * NodeSize) + 0 = 0
    BY <1>2, Remainder
  <2>2. 0 % NodeSize = 0
    BY <2>1
  <2> QED BY <1>2, <1>3, <2>2 DEF Init, ReferenceInv
<1>9. OnlyNodeEndsDangle
  BY <1>3 DEF OnlyNodeEndsDangle
<1> QED BY <1>4, <1>5, <1>6, <1>7, <1>8, <1>9, InitLockInv DEF IInv

\* A step that leaves the deque, its memory and what was delivered alone.
LEMMA DequeUnchanged ==
  ASSUME IInv, LockInv', UNCHANGED <<deque, memory, input, sent, data, delivered>>,
         Taken' = Taken,
         consumer' \in {"unlock", "use"} => consumer \in {"unlock", "use"},
         consumer' = "front" => first < End,
         producer' = "emplace" => sent < input,
         FlagInv'
  PROVE  IInv'
<1>1. /\ nodes' = nodes /\ first' = first /\ free' = free /\ freed' = freed
      /\ memory' = memory /\ End' = End
  BY DEF deque, End, Offset
<1>2. TypeOK'
  <2>1. dontSpin_' \in BOOLEAN
    BY DEF FlagInv
  <2>2. TypeOK /\ ThreadsOK'
    BY DEF IInv, LockInv
  <2>3. input' = input /\ sent' = sent /\ data' = data /\ delivered' = delivered
    OBVIOUS
  <2> QED BY <1>1, <2>1, <2>2, <2>3 DEF TypeOK, ThreadsOK, Other
<1>3. NodesInv'
  BY <1>1 DEF IInv, NodesInv
<1>4. CountInv'
  BY <1>1 DEF IInv, CountInv
<1>5. MemoryInv'
  BY <1>1 DEF IInv, MemoryInv, Held, Offset
<1>6. ReferenceInv'
  BY <1>1 DEF IInv, ReferenceInv
<1>7. OnlyNodeEndsDangle'
  BY DEF IInv, OnlyNodeEndsDangle
<1> QED BY <1>2, <1>3, <1>4, <1>5, <1>6, <1>7 DEF IInv

\* emplace_back: the slot that is filled is the first free one, so no slot of
\* the deque is written twice.
LEMMA EmplaceKeepsIInv ==
  ASSUME IInv, pushEmplace
  PROVE  IInv'
<1> DEFINE L == Len(nodes)
           Filled ==
             /\ nodes' \in Seq(Block) /\ Len(nodes') \in {L, L + 1}
             /\ nodes' # << >>
             /\ \A i \in 1 .. L : nodes'[i] = nodes[i]
             /\ freed' \subseteq freed
             /\ Len(nodes') = L + 1 => /\ nodes'[L + 1] \in Block \ Range(nodes)
                                       /\ nodes'[L + 1] \notin freed'
             /\ free' \in Slot
             /\ End' = End + 1
<1>1. /\ producer = "emplace" /\ producer' = "unlock" /\ sent' = sent + 1
      /\ emplace_back(sent + 1)
      /\ UNCHANGED <<lock_, dontSpin_, consumer, input, data, delivered>>
  BY DEF pushEmplace
<1>2. TypeOK /\ NodesInv /\ CountInv /\ FlagInv /\ MemoryInv /\ ReferenceInv
  BY DEF IInv
<1>3. /\ L \in Nat \ {0} /\ first \in Nat /\ free \in Nat /\ NodeSize \in Nat \ {0}
      /\ first < NodeSize /\ free < NodeSize
      /\ \A i \in 1 .. L : nodes[i] \in Block
      /\ Range(nodes) = {nodes[i] : i \in 1 .. L}
      /\ End \in Nat /\ Taken \in Nat /\ sent \in Nat /\ input \in Nat /\ MaxPush \in Nat
      /\ first \in Slot /\ free \in Slot /\ 0 \in Slot
  BY <1>2, TypeFacts
<1>4. sent < input /\ first <= End /\ sent = Taken + (End - first)
  BY <1>1, <1>2 DEF CountInv
<1>5. Taken' = Taken /\ first' = first
  BY <1>1 DEF Taken, emplace_back
<1>6. /\ memory' = [memory EXCEPT ![nodes[L]][free] = sent + 1]
      /\ memory \in [Block -> [Slot -> 0 .. Other]]
      /\ nodes[L] \in Block /\ L \in 1 .. L
  <2>1. memory \in [Block -> [Slot -> 0 .. Other]]
    BY <1>2 DEF TypeOK
  <2>2. memory' = [memory EXCEPT ![Back][free] = sent + 1]
    BY <1>1 DEF emplace_back
  <2> QED BY <2>1, <2>2, <1>3 DEF Back
<1>7. Filled
  <2>1. CASE free + 1 < NodeSize /\ free' = free + 1 /\ UNCHANGED <<nodes, freed>>
    <3>1. Offset(L, free + 1) = Offset(L, free) + 1
      BY <2>1, <1>3, OffsetFacts
    <3>2. End' = Offset(L, free + 1)
      BY <2>1 DEF End, Offset
    <3>3. free' \in Slot
      BY <2>1, <1>3 DEF Slot
    <3> QED BY <2>1, <3>1, <3>2, <3>3, <1>2, <1>3 DEF TypeOK, End
  <2>2. ASSUME free + 1 = NodeSize, free' = 0,
               NEW b \in Available, nodes' = Append(nodes, b), freed' = freed \ {b}
        PROVE  Filled
    <3>1. nodes \in Seq(Block) /\ b \in Block
      BY <1>2 DEF TypeOK, Available
    <3>2. /\ nodes' \in Seq(Block) /\ Len(nodes') = L + 1
          /\ \A i \in 1 .. L : nodes'[i] = nodes[i]
          /\ nodes'[L + 1] = b
      BY <3>1, <2>2, AppendProperties
    <3>3. Offset(L + 1, 0) = Offset(L, free) + 1
      BY <2>2, <1>3, OffsetFacts
    <3>4. End' = Offset(L + 1, 0)
      BY <2>2, <3>2 DEF End, Offset
    <3>5. nodes' # << >>
      BY <3>2, <1>3
    <3> QED BY <2>2, <3>2, <3>3, <3>4, <3>5, <1>3 DEF End, Available
  <2> QED BY <2>1, <2>2, <1>1 DEF emplace_back
<1> HIDE DEF L
<1>a. L \in Nat \ {0} /\ L + 1 \in Nat \ {0} /\ free \in Slot /\ 0 \in Slot
  BY <1>3
<1>8. TypeOK'
  <2>1. sent + 1 \in 0 .. Other /\ sent' \in 0 .. input /\ freed \subseteq Block
    BY <1>1, <1>2, <1>3, <1>4 DEF TypeOK, Other
  <2>2. memory' \in [Block -> [Slot -> 0 .. Other]]
    BY <2>1, <1>3, <1>6
  <2> QED BY <2>1, <2>2, <1>1, <1>2, <1>3, <1>5, <1>7 DEF TypeOK, Other
<1>9. LockInv'
  BY ProducerKeepsLock DEF IInv, Producer
<1>10. NodesInv'
  <2>1. ASSUME NEW i \in 1 .. Len(nodes')
        PROVE  /\ nodes'[i] \notin freed'
               /\ \A j \in 1 .. Len(nodes') : nodes'[i] = nodes'[j] => i = j
    <3>1. i \in 1 .. L \/ (Len(nodes') = L + 1 /\ i = L + 1)
      BY <1>3, <1>7
    <3>2. \A j \in 1 .. Len(nodes') : j \in 1 .. L \/ (Len(nodes') = L + 1 /\ j = L + 1)
      BY <1>3, <1>7
    <3> QED BY <3>1, <3>2, <1>2, <1>3, <1>7, ZenonT(60) DEF NodesInv, L
  <2> QED BY <2>1 DEF NodesInv
<1>11. CountInv'
  BY <1>1, <1>2, <1>3, <1>4, <1>5, <1>7 DEF CountInv
<1>12. FlagInv'
  BY <1>1, <1>2 DEF FlagInv
<1>13. MemoryInv'
  <2>1. ASSUME NEW n \in 1 .. Len(nodes'), NEW s \in Slot,
               first <= Offset(n, s), Offset(n, s) < End + 1
        PROVE  memory'[nodes'[n]][s] = Taken + 1 + (Offset(n, s) - first)
    <3>1. Offset(n, s) \in Nat /\ n \in Nat \ {0}
      <4>1. n \in Nat \ {0}
        BY <1>3, <1>7
      <4> QED BY <4>1, OffsetFacts
    <3>2. n \in 1 .. L
      <4>1. n <= L \/ n = L + 1
        BY <1>3, <1>7
      <4>2. ASSUME n = L + 1
            PROVE  FALSE
        <5>1. Offset(L, free) < Offset(L + 1, 0) /\ Offset(L + 1, 0) <= Offset(L + 1, s)
          BY <1>a, OffsetFacts
        <5>2. Offset(L, free) = End /\ free + 1 = NodeSize => Offset(L + 1, 0) = End + 1
          BY <1>3, OffsetFacts DEF End, L
        <5>3. Offset(L + 1, 0) \in Nat /\ Offset(L + 1, s) \in Nat
          BY <1>a, OffsetFacts
        <5>4. Offset(L + 1, s) < End + 1 /\ Offset(L, free) = End
          BY <2>1, <4>2 DEF End, L
        <5> QED BY <5>1, <5>3, <5>4, <1>3
      <4> QED BY <4>1, <4>2, <1>3, <3>1
    <3>3. nodes'[n] = nodes[n] /\ nodes[n] \in Block
      BY <3>2, <1>3, <1>7
    <3>4. CASE Offset(n, s) = End
      <4>1. n = L /\ s = free
        BY <3>1, <3>4, <1>3, OffsetOrder DEF End, L
      <4>2. memory'[nodes[L]][free] = sent + 1
        BY <1>3, <1>6
      <4> QED BY <4>1, <4>2, <3>3, <3>4, <1>3, <1>4
    <3>5. CASE Offset(n, s) # End
      <4>1. Held(n, s)
        BY <3>1, <3>5, <2>1, <1>3 DEF Held
      <4>2. ~(n = L /\ s = free)
        BY <3>5 DEF End, L
      <4>3. ~(nodes[n] = nodes[L] /\ s = free)
        BY <4>2, <3>2, <1>2, <1>6 DEF NodesInv, L
      <4>4. memory'[nodes[n]][s] = memory[nodes[n]][s]
        BY <4>3, <3>3, <1>3, <1>6
      <4> QED BY <4>1, <4>4, <3>2, <3>3, <1>2 DEF MemoryInv, L
    <3> QED BY <3>4, <3>5
  <2> QED BY <2>1, <1>5, <1>7 DEF MemoryInv, Held, Offset
<1>14. ReferenceInv'
  <2>1. ASSUME consumer \in {"unlock", "use"}, first # 0
        PROVE  memory'[nodes'[1]][first - 1] = Taken /\ nodes'[1] = nodes[1]
    <3>1. 1 \in 1 .. L /\ nodes'[1] = nodes[1] /\ nodes[1] \in Block
      BY <1>3, <1>7
    <3>2. first - 1 \in Slot
      BY <2>1, <1>3 DEF Slot
    <3>3. ~(nodes[1] = nodes[L] /\ first - 1 = free)
      <4>1. ASSUME nodes[1] = nodes[L], first - 1 = free
            PROVE  FALSE
        <5>1. L = 1
          BY <4>1, <3>1, <1>2, <1>6 DEF NodesInv, L
        <5>2. End = free
          BY <5>1, <1>3 DEF End, Offset, L
        <5> QED BY <5>2, <4>1, <1>3, <1>4
      <4> QED BY <4>1
    <3>4. memory'[nodes[1]][first - 1] = memory[nodes[1]][first - 1]
      BY <3>1, <3>2, <3>3, <1>6
    <3> QED BY <3>1, <3>4, <2>1, <1>2 DEF ReferenceInv
  <2> QED BY <2>1, <1>1, <1>2, <1>5 DEF ReferenceInv
<1>15. OnlyNodeEndsDangle'
  BY <1>1 DEF IInv, OnlyNodeEndsDangle
<1> QED BY <1>8, <1>9, <1>10, <1>11, <1>12, <1>13, <1>14, <1>15 DEF IInv

\* pop_front: the front slot moves on, and what it held is the next event.
LEMMA PopKeepsIInv ==
  ASSUME IInv, popFront
  PROVE  IInv'
<1> DEFINE L == Len(nodes)
           Popped ==
             /\ nodes' \in Seq(Block) /\ nodes' # << >>
             /\ freed' \subseteq Block
             /\ first' \in Slot
             /\ End' - first' = (End - first) - 1
             /\ first' <= End'
<1>1. /\ consumer = "front" /\ consumer' = "unlock"
      /\ data' = Place(0) /\ pop_front
      /\ UNCHANGED <<lock_, dontSpin_, producer, input, sent, delivered>>
      /\ memory' = memory /\ free' = free
  BY DEF popFront, pop_front
<1>2. TypeOK /\ NodesInv /\ CountInv /\ FlagInv /\ MemoryInv /\ ReferenceInv
  BY DEF IInv
<1>3. /\ L \in Nat \ {0} /\ first \in Nat /\ free \in Nat /\ NodeSize \in Nat \ {0}
      /\ first < NodeSize /\ free < NodeSize
      /\ \A i \in 1 .. L : nodes[i] \in Block
      /\ End \in Nat /\ Taken \in Nat /\ sent \in Nat
      /\ first \in Slot /\ free \in Slot /\ 0 \in Slot
  BY <1>2, TypeFacts
<1>4. first < End /\ sent = Taken + (End - first)
  BY <1>1, <1>2 DEF CountInv
<1>5. Taken' = Taken + 1 /\ Taken = Len(delivered) /\ Len(delivered) \in Nat
  BY <1>1, <1>2, TypeFacts DEF Taken
<1>6. data' = [block |-> nodes[1], slot |-> first]
  <2>1. 0 * NodeSize + first = first
    BY <1>3
  <2>2. first \div NodeSize = 0 /\ first % NodeSize = first
    BY <1>3, <2>1, Remainder
  <2> QED BY <1>1, <1>3, <2>2 DEF Place
<1>7. memory[nodes[1]][first] = Taken + 1
  <2>1. Offset(1, first) = first
    BY <1>3 DEF Offset
  <2>2. Held(1, first) /\ 1 \in 1 .. L
    BY <2>1, <1>3, <1>4 DEF Held
  <2>3. memory[nodes[1]][first] = Taken + 1 + (Offset(1, first) - first)
    BY <2>2, <1>2, <1>3 DEF MemoryInv
  <2> QED BY <2>1, <2>3, <1>3
<1>8. /\ first \in Slot
      /\ first + 1 < NodeSize => (Taken + 1) % NodeSize = first + 1
      /\ first + 1 = NodeSize => (Taken + 1) % NodeSize = 0
  BY <1>2, <1>3, NextRemainder DEF ReferenceInv
<1>9. LockInv'
  BY ConsumerKeepsLock DEF IInv, Consumer
<1>10. OnlyNodeEndsDangle' /\ FlagInv'
  BY <1>1 DEF IInv, OnlyNodeEndsDangle, FlagInv
<1>11. ASSUME Popped
       PROVE  TypeOK' /\ CountInv'
  <2>1. data' \in [block : Block, slot : Slot]
    BY <1>3, <1>6
  <2>2. TypeOK'
    BY <1>1, <1>2, <1>11, <2>1 DEF TypeOK, Other
  <2>3. sent = (Taken + 1) + ((End - first) - 1)
    BY <1>3, <1>4
  <2>4. CountInv'
    BY <1>1, <1>2, <1>5, <1>11, <2>3 DEF CountInv
  <2> QED BY <2>2, <2>4
<1>12. CASE first + 1 < NodeSize /\ first' = first + 1 /\ UNCHANGED <<nodes, freed>>
  <2>1. End' = End /\ nodes' = nodes /\ freed' = freed
    BY <1>1, <1>12 DEF End, Offset
  <2>2. Popped
    BY <1>2, <1>3, <1>4, <1>12, <2>1 DEF TypeOK, Slot
  <2>3. NodesInv'
    BY <1>2, <2>1 DEF NodesInv
  <2>4. MemoryInv'
    <3>1. ASSUME NEW n \in 1 .. L, NEW s \in Slot,
                 first + 1 <= Offset(n, s), Offset(n, s) < End
          PROVE  memory[nodes[n]][s] = (Taken + 1) + 1 + (Offset(n, s) - (first + 1))
      <4>1. n \in Nat \ {0}
        BY <1>3
      <4>2. Offset(n, s) \in Nat
        BY <4>1, OffsetFacts
      <4>3. Held(n, s)
        BY <4>2, <3>1, <1>3 DEF Held
      <4>4. memory[nodes[n]][s] = Taken + 1 + (Offset(n, s) - first)
        BY <4>3, <1>2 DEF MemoryInv
      <4> QED BY <4>2, <4>4, <1>3
    <3> QED BY <3>1, <1>1, <1>5, <1>12, <2>1 DEF MemoryInv, Held, Offset
  <2>5. ReferenceInv'
    <3>1. (first + 1) - 1 = first
      BY <1>3
    <3> QED BY <3>1, <1>1, <1>5, <1>6, <1>7, <1>8, <1>12, <2>1 DEF ReferenceInv
  <2> QED BY <2>2, <2>3, <2>4, <2>5, <1>9, <1>10, <1>11 DEF IInv
<1>13. CASE /\ first + 1 = NodeSize /\ first' = 0
            /\ nodes' = Tail(nodes) /\ freed' = freed \cup {Head(nodes)}
  <2>1. L # 1
    <3>1. ASSUME L = 1
          PROVE  FALSE
      <4>1. End = free
        BY <3>1, <1>3 DEF End, Offset
      <4> QED BY <4>1, <1>3, <1>4, <1>13
    <3> QED BY <3>1
  <2>2. /\ nodes' \in Seq(Block) /\ Len(nodes') = L - 1
        /\ \A i \in 1 .. L - 1 : nodes'[i] = nodes[i + 1]
        /\ Head(nodes) = nodes[1]
    <3>1. nodes \in Seq(Block) /\ nodes # << >>
      BY <1>2 DEF TypeOK
    <3>2. /\ Tail(nodes) \in Seq(Block) /\ Len(Tail(nodes)) = L - 1
          /\ \A i \in 1 .. L - 1 : Tail(nodes)[i] = nodes[i + 1]
      BY <3>1, HeadTailProperties
    <3> QED BY <3>1, <3>2, <1>13
  <2>3. L - 1 \in Nat \ {0} /\ (L - 1) + 1 = L
    BY <2>1, <1>3
  <2>4. End = End' + NodeSize /\ End' \in Nat
    <3>1. /\ Offset((L - 1) + 1, free) = Offset(L - 1, free) + NodeSize
          /\ Offset(L - 1, free) \in Nat
      BY <2>3, <1>3, OffsetFacts
    <3>2. End' = Offset(L - 1, free)
      BY <2>2, <1>1 DEF End, Offset
    <3> QED BY <3>1, <3>2, <2>3 DEF End
  <2>5. Popped
    <3>1. nodes' # << >>
      BY <2>2, <2>3
    <3>2. freed' \subseteq Block
      BY <2>2, <1>2, <1>3, <1>13 DEF TypeOK
    <3>3. End' - 0 = (End - first) - 1 /\ 0 <= End'
      BY <2>4, <1>3, <1>13
    <3> QED BY <3>1, <3>2, <3>3, <2>2, <1>3, <1>13
  <2>6. NodesInv'
    <3>1. ASSUME NEW i \in 1 .. L - 1
          PROVE  /\ nodes'[i] \notin freed'
                 /\ \A j \in 1 .. L - 1 : nodes'[i] = nodes'[j] => i = j
      <4>1. \A j \in 1 .. L - 1 : /\ j + 1 \in 1 .. L /\ j + 1 # 1
                                  /\ nodes'[j] = nodes[j + 1]
        BY <2>2, <1>3
      <4>2. nodes'[i] \notin freed /\ nodes'[i] # nodes[1]
        BY <4>1, <1>2, <1>3 DEF NodesInv
      <4>3. \A j \in 1 .. L - 1 : nodes'[i] = nodes'[j] => i + 1 = j + 1
        BY <4>1, <1>2 DEF NodesInv
      <4> QED BY <4>2, <4>3, <2>2, <1>3, <1>13
    <3> QED BY <3>1, <2>2 DEF NodesInv
  <2>7. MemoryInv'
    <3>1. ASSUME NEW n \in 1 .. L - 1, NEW s \in Slot,
                 0 <= Offset(n, s), Offset(n, s) < End'
          PROVE  memory[nodes'[n]][s] = (Taken + 1) + 1 + (Offset(n, s) - 0)
      <4>1. n \in Nat \ {0} /\ n + 1 \in 1 .. L /\ nodes'[n] = nodes[n + 1]
        BY <1>3, <2>2
      <4>2. Offset(n, s) \in Nat /\ Offset(n + 1, s) = Offset(n, s) + NodeSize
        BY <4>1, OffsetFacts
      <4>3. Held(n + 1, s)
        BY <4>2, <3>1, <2>4, <1>3 DEF Held
      <4>4. memory[nodes[n + 1]][s] = Taken + 1 + (Offset(n + 1, s) - first)
        BY <4>1, <4>3, <1>2 DEF MemoryInv
      <4>5. Taken + 1 + (Offset(n + 1, s) - first) = (Taken + 1) + 1 + (Offset(n, s) - 0)
        <5>1. Taken \in Nat /\ first \in Nat /\ first + 1 = NodeSize
          BY <1>3, <1>13
        <5> QED BY <5>1, <4>2
      <4> QED BY <4>1, <4>4, <4>5
    <3> QED BY <3>1, <1>1, <1>5, <1>13, <2>2 DEF MemoryInv, Held, Offset
  <2>8. ReferenceInv'
    BY <1>5, <1>8, <1>13 DEF ReferenceInv
  <2> QED BY <2>5, <2>6, <2>7, <2>8, <1>9, <1>10, <1>11 DEF IInv
<1> QED BY <1>1, <1>12, <1>13 DEF pop_front

\* What is read through the reference: the event taken, unless its node may
\* have been freed.
LEMMA UseKeepsIInv ==
  ASSUME IInv, useData
  PROVE  IInv'
<1>1. /\ consumer = "use" /\ consumer' = "lock"
      /\ delivered' = Append(delivered, Read(data))
      /\ UNCHANGED <<lock_, dontSpin_, deque, memory, producer, input, sent, data>>
  BY DEF useData
<1>2. /\ nodes' = nodes /\ first' = first /\ free' = free /\ freed' = freed
      /\ memory' = memory /\ End' = End
  BY <1>1 DEF deque, End, Offset
<1>3. TypeOK /\ ReferenceInv /\ OnlyNodeEndsDangle
  BY DEF IInv
<1>4. Read(data) \in 0 .. Other
  <2>1. memory \in [Block -> [Slot -> 0 .. Other]] /\ data \in [block : Block, slot : Slot]
    BY <1>3 DEF TypeOK
  <2> QED BY <2>1 DEF Read
<1>5. /\ delivered' \in Seq(0 .. Other) /\ Len(delivered') = Len(delivered) + 1
      /\ \A i \in 1 .. Len(delivered) : delivered'[i] = delivered[i]
      /\ delivered'[Len(delivered) + 1] = Read(data)
      /\ Len(delivered) \in Nat
  <2>1. delivered \in Seq(0 .. Other)
    BY <1>3 DEF TypeOK
  <2> QED BY <2>1, <1>1, <1>4, AppendProperties, LenProperties
<1>6. Taken' = Taken /\ Taken = Len(delivered) + 1
  BY <1>1, <1>5 DEF Taken
<1>7. TypeOK'
  <2>1. delivered' \in Seq(0 .. Other')
    BY <1>5 DEF Other
  <2> QED BY <1>1, <1>2, <1>3, <2>1 DEF TypeOK, Other
<1>8. LockInv'
  BY ConsumerKeepsLock DEF IInv, Consumer
<1>9. NodesInv' /\ FlagInv' /\ CountInv'
  BY <1>1, <1>2, <1>6 DEF IInv, NodesInv, FlagInv, CountInv
<1>10. MemoryInv'
  BY <1>2, <1>6 DEF IInv, MemoryInv, Held, Offset
<1>11. ReferenceInv'
  BY <1>1, <1>2, <1>6 DEF IInv, ReferenceInv
<1>12. OnlyNodeEndsDangle'
  <2>1. ASSUME NEW i \in 1 .. Len(delivered) + 1, i % NodeSize # 0
        PROVE  delivered'[i] = i
    <3>1. CASE i \in 1 .. Len(delivered)
      <4>1. DOMAIN delivered = 1 .. Len(delivered)
        BY <1>3, TypeFacts
      <4> QED BY <3>1, <4>1, <2>1, <1>3, <1>5 DEF OnlyNodeEndsDangle
    <3>2. CASE i = Len(delivered) + 1
      <4>1. i = Taken /\ first # 0
        BY <3>2, <2>1, <1>3, <1>6 DEF ReferenceInv
      <4>2. data = [block |-> nodes[1], slot |-> first - 1] /\ memory[nodes[1]][first - 1] = Taken
        BY <4>1, <1>1, <1>3 DEF ReferenceInv
      <4>3. Read(data) = Taken
        BY <4>2 DEF Read
      <4> QED BY <3>2, <4>1, <4>3, <1>5
    <3> QED BY <3>1, <3>2, <1>5
  <2>2. DOMAIN delivered' = 1 .. Len(delivered) + 1
    BY <1>5, LenProperties
  <2> QED BY <2>1, <2>2 DEF OnlyNodeEndsDangle
<1> QED BY <1>7, <1>8, <1>9, <1>10, <1>11, <1>12 DEF IInv

\* The feed's own allocations are in blocks that are not nodes.
LEMMA AllocateKeepsIInv ==
  ASSUME IInv, feedAllocates
  PROVE  IInv'
<1>1. PICK b \in freed : memory' = [memory EXCEPT ![b] = [s \in Slot |-> Other]]
  BY DEF feedAllocates
<1>2. /\ UNCHANGED <<lock_, dontSpin_, producer, consumer, input, sent, data, delivered>>
      /\ nodes' = nodes /\ first' = first /\ free' = free /\ freed' = freed
  BY DEF feedAllocates, deque
<1>3. TypeOK /\ NodesInv
  BY DEF IInv
<1>4. /\ \A i \in 1 .. Len(nodes) : nodes[i] \in Block /\ nodes[i] # b
      /\ memory \in [Block -> [Slot -> 0 .. Other]]
      /\ Len(nodes) \in Nat \ {0}
      /\ Other \in Nat
  <2>1. Other \in Nat
    BY QueueAssumption DEF Other
  <2>2. memory \in [Block -> [Slot -> 0 .. Other]]
    BY <1>3 DEF TypeOK
  <2> QED BY <2>1, <2>2, <1>3, TypeFacts DEF NodesInv
<1>5. \A i \in 1 .. Len(nodes) : memory'[nodes[i]] = memory[nodes[i]]
  BY <1>1, <1>4
<1>6. memory' \in [Block -> [Slot -> 0 .. Other]]
  <2>1. [s \in Slot |-> Other] \in [Slot -> 0 .. Other]
    BY <1>4
  <2> QED BY <2>1, <1>1, <1>4
<1>7. Taken' = Taken /\ End' = End
  BY <1>2 DEF Taken, End, Offset
<1>8. TypeOK'
  BY <1>2, <1>3, <1>6 DEF TypeOK, Other
<1>9. LockInv'
  BY ProducerKeepsLock DEF IInv, Producer
<1>10. NodesInv' /\ FlagInv' /\ CountInv'
  BY <1>2, <1>7 DEF IInv, NodesInv, FlagInv, CountInv
<1>11. MemoryInv'
  BY <1>2, <1>5, <1>7 DEF IInv, MemoryInv, Held, Offset
<1>12. ReferenceInv'
  BY <1>2, <1>4, <1>5, <1>7 DEF IInv, ReferenceInv
<1>13. OnlyNodeEndsDangle'
  BY <1>2 DEF IInv, OnlyNodeEndsDangle
<1> QED BY <1>8, <1>9, <1>10, <1>11, <1>12, <1>13 DEF IInv

LEMMA NextKeepsIInv == IInv /\ [Next]_vars => IInv'
<1> SUFFICES ASSUME IInv, [Next]_vars PROVE IInv'
  OBVIOUS
<1>1. ASSUME Producer \/ Consumer
      PROVE  LockInv'
  BY <1>1, ProducerKeepsLock, ConsumerKeepsLock DEF IInv
<1>2. FlagInv /\ CountInv /\ TypeOK
  BY DEF IInv
<1>3. CASE pushLock
  BY <1>1, <1>2, <1>3, DequeUnchanged DEF pushLock, Producer, Taken, FlagInv, CountInv
<1>4. CASE pushEmplace
  BY <1>4, EmplaceKeepsIInv
<1>5. CASE pushUnlock
  <2>1. FlagInv'
    BY <1>2, <1>5 DEF pushUnlock, FlagInv
  <2> QED BY <2>1, <1>1, <1>2, <1>5, DequeUnchanged DEF pushUnlock, Producer, Taken, CountInv
<1>6. CASE feedAllocates
  BY <1>6, AllocateKeepsIInv
<1>7. CASE dontSpin
  BY <1>1, <1>2, <1>7, DequeUnchanged DEF dontSpin, Producer, Taken, FlagInv, CountInv
<1>8. CASE join
  BY <1>1, <1>2, <1>8, DequeUnchanged DEF join, Producer, Taken, FlagInv, CountInv
<1>9. CASE popLock
  BY <1>1, <1>2, <1>9, DequeUnchanged DEF popLock, Consumer, Taken, FlagInv, CountInv
<1>10. CASE popEmpty
  <2>1. consumer' \in {"unlockEmpty", "front"} /\ (consumer' = "front" => Size # 0)
    BY <1>10 DEF popEmpty
  <2>2. Size = End - first
    BY DEF Size, End, Offset
  <2>3. consumer' = "front" => first < End
    BY <2>1, <2>2, <1>2, TypeFacts DEF CountInv
  <2> QED BY <2>1, <2>3, <1>1, <1>2, <1>10, DequeUnchanged
          DEF popEmpty, Consumer, Taken, FlagInv, CountInv
<1>11. CASE popUnlockEmpty
  BY <1>1, <1>2, <1>11, DequeUnchanged DEF popUnlockEmpty, Consumer, Taken, FlagInv, CountInv
<1>12. CASE popReadFlag
  <2>1. consumer' \in {"stopped", "lock"}
    BY <1>12 DEF popReadFlag
  <2> QED BY <2>1, <1>1, <1>2, <1>12, DequeUnchanged
          DEF popReadFlag, Consumer, Taken, FlagInv, CountInv
<1>13. CASE popFront
  BY <1>13, PopKeepsIInv
<1>14. CASE popUnlock
  BY <1>1, <1>2, <1>14, DequeUnchanged DEF popUnlock, Consumer, Taken, FlagInv, CountInv
<1>15. CASE useData
  BY <1>15, UseKeepsIInv
<1>16. CASE UNCHANGED vars
  <2>1. LockInv'
    BY <1>16 DEF IInv, vars, LockInv, ThreadsOK, MutualExclusion, Pushing, Popping
  <2> QED BY <2>1, <1>2, <1>16, DequeUnchanged DEF vars, Taken, FlagInv, CountInv
<1> QED BY <1>3, <1>4, <1>5, <1>6, <1>7, <1>8, <1>9, <1>10, <1>11, <1>12, <1>13, <1>14,
           <1>15, <1>16 DEF Next, Done, Producer, Consumer

\* The invariant holds in every state, whatever the two threads and the heap do.
LEMMA InvariantHolds == Spec => []IInv
BY InitIInv, NextKeepsIInv, PTL DEF Spec

-----------------------------------------------------------------------------
(* The properties.                                                          *)

\* The deque always has a node, its ends are slots of nodes, no more is sent
\* than there is, and all that is read through the reference is an event or
\* what the feed keeps in the heap.
THEOREM TypeIsOK == Spec => []TypeOK
<1>1. IInv => TypeOK
  BY DEF IInv
<1> QED BY <1>1, InvariantHolds, PTL

\* The reference pop_front returns to an element it removed is read too late
\* only when the element was in the last slot of its node: every other one is
\* read as it was pushed, in the order of the pushes.
THEOREM OthersAreReadInOrder == Spec => []OnlyNodeEndsDangle
<1>1. IInv => OnlyNodeEndsDangle
  BY DEF IInv
<1> QED BY <1>1, InvariantHolds, PTL

-----------------------------------------------------------------------------
(* The channel that the queue implements.                                   *)

\* The numbers from a on, m of them, as a sequence.
After(a, m) == [k \in 1 .. m |-> a + k]

\* The deque holds what was sent and not taken.
EventsWait ==
  /\ Taken \in Nat /\ sent \in Nat /\ Taken <= sent
  /\ Size = sent - Taken
  /\ Contents = After(Taken, sent - Taken)

LEMMA AfterIsSequence ==
  ASSUME NEW a \in Nat, NEW m \in Nat
  PROVE  /\ After(a, m) \in Seq(Nat) /\ Len(After(a, m)) = m
         /\ After(a, m + 1) = Append(After(a, m), a + m + 1)
         /\ m # 0 => /\ After(a, m) # << >>
                     /\ Head(After(a, m)) = a + 1
                     /\ Tail(After(a, m)) = After(a + 1, m - 1)
<1>1. After(a, m) \in Seq(Nat) /\ Len(After(a, m)) = m
  BY DEF After
<1>2. After(a, m + 1) = Append(After(a, m), a + m + 1)
  <2> DEFINE more == Append(After(a, m), a + m + 1)
  <2>1. /\ more \in Seq(Nat) /\ Len(more) = m + 1
        /\ \A k \in 1 .. m : more[k] = After(a, m)[k]
        /\ more[m + 1] = a + m + 1
    BY <1>1, AppendProperties
  <2>2. more = [k \in 1 .. m + 1 |-> more[k]]
    BY <2>1
  <2> HIDE DEF more
  <2>3. \A k \in 1 .. m + 1 : more[k] = a + k
    BY <2>1 DEF After
  <2> QED BY <2>2, <2>3 DEF After, more
<1>3. ASSUME m # 0
      PROVE  /\ After(a, m) # << >>
             /\ Head(After(a, m)) = a + 1
             /\ Tail(After(a, m)) = After(a + 1, m - 1)
  <2> DEFINE rest == Tail(After(a, m))
  <2>1. After(a, m) # << >> /\ Head(After(a, m)) = After(a, m)[1]
    BY <1>1, <1>3
  <2>2. /\ rest \in Seq(Nat) /\ Len(rest) = m - 1
        /\ \A k \in 1 .. m - 1 : rest[k] = After(a, m)[k + 1]
    BY <1>1, <2>1, HeadTailProperties
  <2>3. DOMAIN rest = 1 .. m - 1 /\ rest = [k \in DOMAIN rest |-> rest[k]]
    BY <2>2, <1>3, LenProperties
  <2> HIDE DEF rest
  <2>4. ASSUME NEW k \in 1 .. m - 1
        PROVE  rest[k] = (a + 1) + k
    <3>1. k + 1 \in 1 .. m /\ a + (k + 1) = (a + 1) + k
      BY <1>3
    <3>2. After(a, m)[k + 1] = a + (k + 1)
      BY <3>1 DEF After
    <3> QED BY <3>1, <3>2, <2>2
  <2>5. rest = After(a + 1, m - 1)
    BY <2>3, <2>4 DEF After
  <2>6. After(a, m)[1] = a + 1
    BY <1>3 DEF After
  <2> QED BY <2>1, <2>5, <2>6 DEF rest
<1> QED BY <1>1, <1>2, <1>3

\* What the deque holds are the events that follow the last one taken.
LEMMA ContentsAre ==
  IInv => EventsWait
<1> SUFFICES ASSUME IInv
             PROVE  EventsWait
  OBVIOUS
<1>1. TypeOK /\ CountInv /\ MemoryInv
  BY DEF IInv
<1>2. /\ Len(nodes) \in Nat \ {0} /\ first \in Slot /\ free \in Slot /\ 0 \in Slot
      /\ first \in Nat /\ NodeSize \in Nat \ {0} /\ End \in Nat /\ Taken \in Nat
  BY <1>1, TypeFacts
<1>3. Size = End - first /\ Size \in Nat
  BY <1>1, <1>2 DEF Size, End, Offset, CountInv
<1>4. ASSUME NEW k \in 1 .. Size
      PROVE  Read(Place(k - 1)) = Taken + k
  <2> DEFINE a == first + (k - 1)
             q == a \div NodeSize
             s == a % NodeSize
  <2>1. a \in Nat /\ first <= a /\ a < End
    BY <1>2, <1>3
  <2>2. q \in Nat /\ s \in Slot /\ a = (q * NodeSize) + s
    BY <2>1, QueueAssumption DEF Slot
  <2>3. Place(k - 1) = [block |-> nodes[q + 1], slot |-> s]
    BY DEF Place
  <2> HIDE DEF q, s
  <2>4. Offset(q + 1, s) = a /\ q + 1 \in Nat \ {0}
    BY <2>2 DEF Offset
  <2>5. q + 1 \in 1 .. Len(nodes)
    <3>1. ASSUME Len(nodes) < q + 1
          PROVE  FALSE
      <4>1. Offset(Len(nodes), free) < Offset(q + 1, s)
        BY <3>1, <1>2, <2>2, <2>4, OffsetOrder
      <4> QED BY <4>1, <2>1, <2>4, <1>2 DEF End
    <3> QED BY <3>1, <2>4, <1>2
  <2>6. Held(q + 1, s)
    BY <2>1, <2>4 DEF Held
  <2>7. memory[nodes[q + 1]][s] = Taken + 1 + (Offset(q + 1, s) - first)
    BY <2>2, <2>5, <2>6, <1>1 DEF MemoryInv
  <2>8. Taken + 1 + (a - first) = Taken + k
    BY <1>2, <1>3
  <2> QED BY <2>3, <2>4, <2>7, <2>8 DEF Read
<1>5. Contents = [k \in 1 .. Size |-> Taken + k]
  BY <1>4 DEF Contents
<1>6. Taken <= sent /\ Size = sent - Taken /\ sent \in Nat
  BY <1>1, <1>2, <1>3, TypeFacts DEF CountInv
<1> QED BY <1>2, <1>5, <1>6 DEF EventsWait, After

LEMMA NextContentsAre == IInv' => EventsWait'
BY ContentsAre, PTL

\* emplace_back under the lock is the step that sends.
LEMMA EmplaceSends ==
  ASSUME IInv, IInv', pushEmplace
  PROVE  Fifo!Send
<1>1. sent' = sent + 1 /\ Taken' = Taken /\ dontSpin_' = dontSpin_
  BY DEF pushEmplace, Taken
<1>2. ~dontSpin_
  BY DEF IInv, FlagInv, pushEmplace
<1>3. /\ Taken \in Nat /\ sent - Taken \in Nat
      /\ Contents = After(Taken, sent - Taken)
      /\ Contents' = After(Taken, (sent - Taken) + 1)
  BY <1>1, ContentsAre, NextContentsAre DEF EventsWait
<1>4. Contents' = Append(Contents, Taken + Len(Contents) + 1)
  <2> DEFINE m == sent - Taken
  <2>1. After(Taken, m + 1) = Append(After(Taken, m), Taken + m + 1)
    BY <1>3, AfterIsSequence
  <2>2. Len(After(Taken, m)) = m
    BY <1>3, AfterIsSequence
  <2> HIDE DEF m
  <2> QED BY <2>1, <2>2, <1>3 DEF m
<1> QED BY <1>1, <1>2, <1>4 DEF Fifo!Send

\* front and pop_front under the lock are the step that takes.
LEMMA PopTakes ==
  ASSUME IInv, IInv', popFront
  PROVE  Fifo!Take
<1>1. sent' = sent /\ dontSpin_' = dontSpin_ /\ Taken' = Taken + 1
  <2>1. Len(delivered) \in Nat
    BY TypeFacts DEF IInv
  <2> QED BY <2>1 DEF popFront, Taken
<1>2. /\ Taken \in Nat /\ sent \in Nat
      /\ Contents = After(Taken, sent - Taken)
      /\ Contents' = After(Taken + 1, sent - (Taken + 1))
      /\ Taken + 1 <= sent
  BY <1>1, ContentsAre, NextContentsAre DEF EventsWait
<1>3. /\ sent - Taken \in Nat /\ sent - Taken # 0
      /\ sent - (Taken + 1) = (sent - Taken) - 1
  BY <1>2
<1>4. /\ Contents # << >> /\ Head(Contents) = Taken + 1
      /\ Contents' = Tail(Contents)
  BY <1>2, <1>3, AfterIsSequence, ZenonT(60)
<1> QED BY <1>1, <1>4 DEF Fifo!Take

\* The other steps leave the channel alone, but for the one that closes it:
\* the locks, the reads outside them, and what the heap does with freed nodes.
LEMMA OthersStutter ==
  ASSUME IInv, IInv', [Next]_vars, ~pushEmplace, ~popFront
  PROVE  [Fifo!Next]_(Fifo!vars)
<1>1. ASSUME sent' = sent, Taken' = Taken
      PROVE  Contents' = Contents
  BY <1>1, ContentsAre, NextContentsAre DEF EventsWait
<1>2. CASE dontSpin
  <2>1. dontSpin_' = TRUE /\ sent' = sent /\ Taken' = Taken
    BY <1>2 DEF dontSpin, Taken
  <2> QED BY <2>1, <1>1 DEF Fifo!Next, Fifo!Close
<1>3. CASE useData
  <2>1. Taken' = Taken
    <3>1. delivered \in Seq(0 .. Other) /\ Read(data) \in 0 .. Other
      <4>1. /\ delivered \in Seq(0 .. Other)
            /\ memory \in [Block -> [Slot -> 0 .. Other]]
            /\ data \in [block : Block, slot : Slot]
        BY DEF IInv, TypeOK
      <4> QED BY <4>1 DEF Read
    <3>2. Len(delivered') = Len(delivered) + 1 /\ Len(delivered) \in Nat
      BY <1>3, <3>1, AppendProperties, LenProperties DEF useData
    <3> QED BY <3>2, <1>3 DEF useData, Taken
  <2>2. sent' = sent /\ dontSpin_' = dontSpin_
    BY <1>3 DEF useData
  <2> QED BY <2>1, <2>2, <1>1 DEF Fifo!vars
<1>4. ASSUME pushLock \/ pushUnlock \/ feedAllocates \/ join \/ popLock \/ popEmpty
               \/ popUnlockEmpty \/ popReadFlag \/ popUnlock \/ UNCHANGED vars
      PROVE  [Fifo!Next]_(Fifo!vars)
  <2>1. sent' = sent /\ dontSpin_' = dontSpin_ /\ delivered' = delivered
    BY <1>4 DEF pushLock, pushUnlock, feedAllocates, join, popLock, popEmpty,
                popUnlockEmpty, popReadFlag, popUnlock, vars
  <2>2. consumer' \in {"unlock", "use"} <=> consumer \in {"unlock", "use"}
    BY <1>4 DEF pushLock, pushUnlock, feedAllocates, join, popLock, popEmpty,
                popUnlockEmpty, popReadFlag, popUnlock, vars
  <2>3. Taken' = Taken
    BY <2>1, <2>2 DEF Taken
  <2> QED BY <2>1, <2>3, <1>1 DEF Fifo!vars
<1> QED BY <1>2, <1>3, <1>4 DEF Next, Producer, Consumer, Done

\* For any nodes, blocks and number of events, and whatever the heap reuses, the
\* locked deque is a channel: each removal takes the oldest event that was not
\* taken yet, none is lost or taken twice, and none is sent after the flag.
THEOREM QueueIsChannel == Spec => ImplementsChannel
<1>1. Init => Fifo!Init
  <2> SUFFICES ASSUME Init PROVE Fifo!Init
    OBVIOUS
  <2>1. IInv /\ sent = 0 /\ Taken = 0 /\ dontSpin_ = FALSE
    <3>1. Len(<< >>) = 0
      OBVIOUS
    <3> QED BY <3>1, InitIInv DEF Init, Taken
  <2>2. Contents = After(0, 0)
    BY <2>1, ContentsAre DEF EventsWait
  <2>3. After(0, 0) = << >>
    BY DEF After
  <2> QED BY <2>1, <2>2, <2>3 DEF Fifo!Init
<1>2. IInv /\ IInv' /\ [Next]_vars => [Fifo!Next]_(Fifo!vars)
  BY EmplaceSends, PopTakes, OthersStutter DEF Fifo!Next
<1> QED BY <1>1, <1>2, InvariantHolds, PTL DEF Spec, ImplementsChannel, Fifo!Spec
=============================================================================
