------------------------ MODULE CircularBlockProofs ------------------------
(***************************************************************************)
(* For every CAPACITY: the slot that the listener holds is never the one   *)
(* that the publisher writes, and the ring implements Channel.             *)
(***************************************************************************)
EXTENDS CircularBlock, SequenceTheorems, TLAPS

\* Has the publisher written a slot that size_ does not count yet?
Written == IF publisher = "publish" THEN 1 ELSE 0

\* Has it seen room, and not used it yet?
Claimed == IF publisher \in {"store", "publish"} THEN 1 ELSE 0

\* What the publisher has claimed leaves one slot over.
RoomIsLeft == size_ + Claimed < CAPACITY

\* The two indices and the size agree.
LastFollowsSize == last_ = SlotAfter(size_ + Written)

\* The slots after first_ hold the data that come next, in their order.
SlotsInOrder ==
  \A k \in 1 .. (size_ + Written) : array_[SlotAfter(k)] = taken + k

\* What the listener has seen is still there.
SeenIsThere == listener = "take" => size_ > 0

\* The ring holds what went in and did not go out.
SizeIsDifference == sent = taken + size_

IInv ==
  /\ TypeOK
  /\ RoomIsLeft
  /\ LastFollowsSize
  /\ SlotsInOrder
  /\ SizeIsDifference
  /\ SeenIsThere

-----------------------------------------------------------------------------
(* The slots of the ring.                                                   *)

\* SlotAfter stays within the ring.
LEMMA SlotAfterType ==
  ASSUME first_ \in Slots, NEW k \in 0 .. CAPACITY
  PROVE  SlotAfter(k) \in Slots
  BY CapacityAssumption DEF SlotAfter, Slots

\* Different distances below CAPACITY lead to different slots.
LEMMA SlotAfterInjective ==
  ASSUME first_ \in Slots,
         NEW k \in 0 .. (CAPACITY - 1), NEW m \in 0 .. (CAPACITY - 1), k # m
  PROVE  SlotAfter(k) # SlotAfter(m)
  BY CapacityAssumption DEF SlotAfter, Slots

\* Moving on from one slot is one more step from first_.
LEMMA SlotAfterNext ==
  ASSUME first_ \in Slots, NEW k \in 0 .. (CAPACITY - 1)
  PROVE  Following(SlotAfter(k)) = SlotAfter(k + 1)
  BY CapacityAssumption DEF SlotAfter, Slots, Following

\* When first_ moves on, every slot is one step nearer.
LEMMA SlotAfterShift ==
  ASSUME first_ \in Slots, first_' = Following(first_),
         NEW k \in 0 .. (CAPACITY - 1)
  PROVE  SlotAfter(k)' = SlotAfter(k + 1)
  BY CapacityAssumption DEF SlotAfter, Slots, Following

\* The slot that the publisher is about to write.
LEMMA StoreSlot ==
  ASSUME IInv, publisher = "store"
  PROVE  /\ Following(last_) = SlotAfter(size_ + 1)
         /\ size_ \in Nat /\ size_ + 1 \in 1 .. (CAPACITY - 1)
         /\ last_ \in Slots
<1>1. size_ \in Nat /\ size_ + 1 \in 1 .. (CAPACITY - 1)
  BY CapacityAssumption DEF IInv, TypeOK, RoomIsLeft, Claimed
<1>2. Following(last_) = SlotAfter(size_ + 1)
  <2>1. last_ = SlotAfter(size_)
    BY <1>1 DEF IInv, LastFollowsSize, Written
  <2>. QED  BY <1>1, <2>1, SlotAfterNext, CapacityAssumption DEF IInv, TypeOK
<1>. QED  BY <1>1, <1>2 DEF IInv, TypeOK

\* It is not the slot that the listener holds, nor one that is full.
LEMMA StoreSlotIsFree ==
  ASSUME IInv, publisher = "store"
  PROVE  /\ Following(last_) # first_
         /\ \A k \in 1 .. size_ : Following(last_) # SlotAfter(k)
<1>1. SlotAfter(0) = first_
  BY CapacityAssumption DEF SlotAfter, Slots, IInv, TypeOK
<1>2. ASSUME NEW k \in 0 .. size_ PROVE SlotAfter(size_ + 1) # SlotAfter(k)
  BY StoreSlot, SlotAfterInjective, CapacityAssumption DEF IInv, TypeOK
<1>. QED  BY <1>1, <1>2, StoreSlot

-----------------------------------------------------------------------------
(* The invariant.                                                           *)

LEMMA InitIInv == Init => IInv
<1>. SUFFICES ASSUME Init PROVE IInv
  OBVIOUS
<1>1. TypeOK
  <2>1. CAPACITY - 1 \in Slots /\ 0 \in 0 .. CAPACITY
    BY CapacityAssumption DEF Slots
  <2>2. array_ \in [Slots -> Nat]
    BY DEF Init
  <2>. QED  BY <2>1, <2>2 DEF Init, TypeOK
<1>2. RoomIsLeft /\ SlotsInOrder /\ SizeIsDifference /\ SeenIsThere
  BY CapacityAssumption DEF Init, RoomIsLeft, Claimed, SlotsInOrder, Written,
                            SizeIsDifference, SeenIsThere
<1>3. LastFollowsSize
  BY CapacityAssumption DEF Init, LastFollowsSize, Written, SlotAfter
<1>. QED  BY <1>1, <1>2, <1>3 DEF IInv

\* The steps that only move a thread.
LEMMA LookKeepsIInv ==
  ASSUME IInv, fillLoad \/ fillReadFlag \/ emptyLoad \/ emptyReadFlag
               \/ emptyUse \/ dontSpin
  PROVE  IInv'
<1>1. UNCHANGED <<first_, last_, size_, array_, sent, taken>>
  BY DEF fillLoad, fillReadFlag, emptyLoad, emptyReadFlag, emptyUse, dontSpin
<1>2. TypeOK'
  <2>1. /\ first_' \in Slots /\ last_' \in Slots /\ size_' \in 0 .. CAPACITY
        /\ array_' \in [Slots -> Nat] /\ sent' \in Nat /\ taken' \in Nat
    BY <1>1 DEF IInv, TypeOK
  <2>2. dontSpin_' \in BOOLEAN
    BY DEF fillLoad, fillReadFlag, emptyLoad, emptyReadFlag, emptyUse,
           dontSpin, IInv, TypeOK
  <2>3. publisher' \in {"fill", "full", "store", "publish"}
    BY DEF fillLoad, fillReadFlag, emptyLoad, emptyReadFlag, emptyUse,
           dontSpin, IInv, TypeOK
  <2>4. listener' \in {"empty", "none", "take", "use"}
    BY DEF fillLoad, fillReadFlag, emptyLoad, emptyReadFlag, emptyUse,
           dontSpin, IInv, TypeOK
  <2>5. fills' \in Nat /\ empties' \in Nat
    BY DEF fillLoad, fillReadFlag, emptyLoad, emptyReadFlag, emptyUse,
           dontSpin, IInv, TypeOK
  <2>6. got' \in Nat
    BY DEF fillLoad, fillReadFlag, emptyLoad, emptyReadFlag, emptyUse,
           dontSpin, IInv, TypeOK
  <2>. QED  BY <2>1, <2>2, <2>3, <2>4, <2>5, <2>6 DEF TypeOK
<1>3. Written' = Written
  BY DEF fillLoad, fillReadFlag, emptyLoad, emptyReadFlag, emptyUse, dontSpin,
         Written
<1>4. RoomIsLeft'
  <2>1. CASE fillLoad
    BY <2>1, CapacityAssumption
       DEF fillLoad, IInv, TypeOK, RoomIsLeft, Claimed
  <2>2. CASE ~fillLoad
    BY <1>1, <2>2 DEF fillReadFlag, emptyLoad, emptyReadFlag, emptyUse,
       dontSpin, IInv, RoomIsLeft, Claimed
  <2>. QED  BY <2>1, <2>2
<1>5. LastFollowsSize' /\ SlotsInOrder' /\ SizeIsDifference'
  <2>1. \A k : SlotAfter(k)' = SlotAfter(k)
    BY <1>1 DEF SlotAfter
  <2>. QED  BY <1>1, <1>3, <2>1
            DEF IInv, LastFollowsSize, SlotsInOrder, SizeIsDifference
<1>6. SeenIsThere'
  BY <1>1 DEF fillLoad, fillReadFlag, emptyLoad, emptyReadFlag, emptyUse,
     dontSpin, IInv, TypeOK, SeenIsThere
<1>. QED  BY <1>2, <1>4, <1>5, <1>6 DEF IInv

LEMMA StoreKeepsIInv ==
  ASSUME IInv, fillStore
  PROVE  IInv'
<1>1. /\ publisher = "store" /\ publisher' = "publish"
      /\ UNCHANGED <<first_, size_, listener, sent, taken>>
      /\ last_' = Following(last_)
      /\ array_' = [array_ EXCEPT ![last_'] = sent + 1]
  BY DEF fillStore
<1>2. last_' \in Slots
  BY <1>1, StoreSlot, SlotAfterType, CapacityAssumption DEF IInv, TypeOK
<1>3. TypeOK'
  BY <1>1, <1>2 DEF fillStore, IInv, TypeOK
<1>4. RoomIsLeft' /\ SizeIsDifference' /\ SeenIsThere'
  BY <1>1 DEF IInv, RoomIsLeft, Claimed, SizeIsDifference, SeenIsThere
<1>5. \A k : SlotAfter(k)' = SlotAfter(k)
  BY <1>1 DEF SlotAfter
<1>6. LastFollowsSize'
  BY <1>1, <1>5, StoreSlot DEF LastFollowsSize, Written
<1>7. ASSUME NEW k \in 1 .. (size_ + 1)
      PROVE  array_'[SlotAfter(k)] = taken + k
  <2>1. CASE k = size_ + 1
    BY <1>1, <1>2, <2>1, StoreSlot DEF IInv, TypeOK, SizeIsDifference
  <2>2. CASE k \in 1 .. size_
    <3>1. SlotAfter(k) \in Slots /\ SlotAfter(k) # last_'
      <4>1. k \in 0 .. CAPACITY
        BY <1>1, <2>2, StoreSlot, CapacityAssumption
      <4>. QED  BY <1>1, <2>2, <4>1, StoreSlotIsFree, SlotAfterType
                DEF IInv, TypeOK
    <3>2. array_[SlotAfter(k)] = taken + k
      BY <1>1, <2>2, StoreSlot DEF IInv, SlotsInOrder, Written
    <3>. QED  BY <1>1, <3>1, <3>2 DEF IInv, TypeOK
  <2>. QED  BY <1>1, <2>1, <2>2, StoreSlot
<1>8. SlotsInOrder'
  BY <1>1, <1>5, <1>7 DEF SlotsInOrder, Written
<1>. QED  BY <1>3, <1>4, <1>6, <1>8 DEF IInv

LEMMA PublishKeepsIInv ==
  ASSUME IInv, fillPublish
  PROVE  IInv'
<1>1. /\ publisher = "publish" /\ publisher' = "fill"
      /\ UNCHANGED <<first_, last_, array_, listener, taken>>
      /\ size_' = size_ + 1 /\ sent' = sent + 1
  BY DEF fillPublish
<1>2. size_ \in Nat /\ size_ + 1 < CAPACITY
  BY <1>1 DEF IInv, TypeOK, RoomIsLeft, Claimed
<1>3. TypeOK'
  BY <1>1, <1>2, CapacityAssumption DEF fillPublish, IInv, TypeOK
<1>4. RoomIsLeft'
  BY <1>1, <1>2 DEF RoomIsLeft, Claimed
<1>5. SizeIsDifference' /\ SeenIsThere'
  BY <1>1, <1>2 DEF IInv, TypeOK, SizeIsDifference, SeenIsThere
<1>6. \A k : SlotAfter(k)' = SlotAfter(k)
  BY <1>1 DEF SlotAfter
<1>7. Written = 1 /\ Written' = 0
  BY <1>1 DEF Written
<1>8. LastFollowsSize' /\ SlotsInOrder'
  BY <1>1, <1>2, <1>6, <1>7 DEF IInv, LastFollowsSize, SlotsInOrder
<1>. QED  BY <1>3, <1>4, <1>5, <1>8 DEF IInv

LEMMA TakeKeepsIInv ==
  ASSUME IInv, emptyTake
  PROVE  IInv'
<1>1. /\ listener = "take" /\ listener' = "use"
      /\ UNCHANGED <<last_, array_, publisher, sent>>
      /\ first_' = Following(first_)
      /\ size_' = size_ - 1 /\ taken' = taken + 1
  BY DEF emptyTake
<1>2. size_ \in 1 .. (CAPACITY - 1) /\ size_ + Written < CAPACITY
  BY <1>1, CapacityAssumption
     DEF IInv, TypeOK, RoomIsLeft, Claimed, Written, SeenIsThere
<1>3. first_' \in Slots
  BY <1>1, CapacityAssumption DEF IInv, TypeOK, Slots, Following
<1>4. TypeOK'
  BY <1>1, <1>2, <1>3, CapacityAssumption DEF emptyTake, IInv, TypeOK
<1>5. RoomIsLeft'
  <2>1. Claimed' = Claimed /\ Claimed \in {0, 1}
    BY <1>1 DEF Claimed
  <2>. QED  BY <1>1, <1>2, <2>1, CapacityAssumption DEF IInv, RoomIsLeft
<1>6. SizeIsDifference' /\ SeenIsThere'
  BY <1>1, <1>2 DEF IInv, TypeOK, SizeIsDifference, SeenIsThere
<1>7. Written' = Written /\ Written \in {0, 1}
  BY <1>1 DEF Written
<1>8. ASSUME NEW k \in 0 .. (CAPACITY - 1)
      PROVE  SlotAfter(k)' = SlotAfter(k + 1)
  BY <1>1, SlotAfterShift DEF IInv, TypeOK
<1>9. LastFollowsSize'
  <2>1. last_ = SlotAfter(size_ + Written) /\ first_ \in Slots
    BY DEF IInv, TypeOK, LastFollowsSize
  <2>. QED  BY <1>1, <1>2, <1>7, <2>1, CapacityAssumption
            DEF LastFollowsSize, SlotAfter, Following, Slots
<1>10. ASSUME NEW k \in 1 .. (size_' + Written')
       PROVE  array_'[SlotAfter(k)'] = taken' + k
  <2>1. k + 1 \in 1 .. (size_ + Written) /\ k \in 0 .. (CAPACITY - 1)
    BY <1>1, <1>2, <1>7, CapacityAssumption
  <2>. QED  BY <1>1, <1>8, <2>1 DEF IInv, TypeOK, SlotsInOrder
<1>11. SlotsInOrder'
  BY <1>10 DEF SlotsInOrder
<1>. QED  BY <1>4, <1>5, <1>6, <1>9, <1>11 DEF IInv

\* Every step keeps the invariant.
LEMMA NextKeepsIInv == IInv /\ [Next]_vars => IInv'
<1>. SUFFICES ASSUME IInv, [Next]_vars PROVE IInv'
  OBVIOUS
<1>1. CASE fillLoad \/ fillReadFlag \/ emptyLoad \/ emptyReadFlag
           \/ emptyUse \/ dontSpin
  BY <1>1, LookKeepsIInv
<1>2. CASE fillStore
  BY <1>2, StoreKeepsIInv
<1>3. CASE fillPublish
  BY <1>3, PublishKeepsIInv
<1>4. CASE emptyTake
  BY <1>4, TakeKeepsIInv
<1>5. CASE UNCHANGED vars
  <2>1. IInv' = IInv
    BY <1>5 DEF vars, IInv, TypeOK, RoomIsLeft, Claimed, LastFollowsSize,
       Written, SlotAfter, SlotsInOrder, SizeIsDifference, SeenIsThere
  <2>. QED  BY <2>1
<1>. QED  BY <1>1, <1>2, <1>3, <1>4, <1>5
          DEF Next, Publisher, Listener, Done

LEMMA InvariantHolds == Spec => []IInv
BY InitIInv, NextKeepsIInv, PTL DEF Spec

-----------------------------------------------------------------------------
(* The theorems.                                                            *)

\* first_, last_ and size_ stay in range, for every CAPACITY.
THEOREM TypeIsOK == Spec => []TypeOK
<1>1. IInv => TypeOK
  BY DEF IInv
<1>. QED  BY <1>1, InvariantHolds, PTL

\* The slot behind the reference that empty returned is not written.
THEOREM SlotIsNeverShared == Spec => []SlotIsExclusive
<1>1. IInv => SlotIsExclusive
  BY StoreSlotIsFree DEF SlotIsExclusive
<1>. QED  BY <1>1, InvariantHolds, PTL

-----------------------------------------------------------------------------
(* The ring implements Channel.                                             *)

Buffer == [k \in 1 .. size_ |-> array_[SlotAfter(k)]]
Last   == IF listener = "use" THEN array_[first_] ELSE got

\* The data in the ring are a sequence of as many as size_ says.
LEMMA BufferIsSequence ==
  ASSUME IInv
  PROVE  /\ Buffer \in Seq(Nat)
         /\ Len(Buffer) = size_ /\ size_ \in Nat
         /\ \A k \in 1 .. size_ : Buffer[k] = taken + k
<1>1. size_ \in Nat /\ taken \in Nat
  BY DEF IInv, TypeOK
<1>2. ASSUME NEW k \in 1 .. size_ PROVE Buffer[k] = taken + k
  BY <1>1 DEF Buffer, IInv, SlotsInOrder, Written
<1>3. Buffer \in [1 .. size_ -> Nat]
  BY <1>1, <1>2 DEF Buffer
<1>4. Buffer \in Seq(Nat) /\ Len(Buffer) = size_
  BY <1>1, <1>3
<1>. QED  BY <1>1, <1>2, <1>4

\* fillPublish is the step that sends.
LEMMA PublishSends ==
  ASSUME IInv, fillPublish
  PROVE  Ring!Send
<1>1. /\ publisher = "publish"
      /\ UNCHANGED <<first_, array_, listener, taken, got>>
      /\ size_' = size_ + 1
  BY DEF fillPublish
<1>2. Last' = Last
  BY <1>1 DEF Last
<1>3. taken \in Nat /\ taken + Len(Buffer) + 1 \in Nat
  BY BufferIsSequence DEF IInv, TypeOK
<1>4. array_[SlotAfter(size_ + 1)] = taken + Len(Buffer) + 1
  BY <1>1, <1>3, BufferIsSequence DEF IInv, SlotsInOrder, Written
<1>5. Buffer' = [k \in 1 .. (size_ + 1) |-> array_[SlotAfter(k)]]
  BY <1>1 DEF Buffer, SlotAfter
<1>6. Buffer' = Append(Buffer, taken + Len(Buffer) + 1)
  <2>1. \A k \in 1 .. size_ : array_[SlotAfter(k)] = Buffer[k]
    BY DEF Buffer
  <2>2. Buffer' = [k \in 1 .. (Len(Buffer) + 1) |->
                     IF k = Len(Buffer) + 1 THEN taken + Len(Buffer) + 1
                                            ELSE Buffer[k]]
    BY <1>4, <1>5, <2>1, BufferIsSequence
  <2>. QED  BY <1>3, <2>2, BufferIsSequence, AppendProperties
<1>. QED  BY <1>1, <1>2, <1>6 DEF Ring!Send, Buffer, Last

\* emptyTake is the step that takes.
LEMMA TakeTakes ==
  ASSUME IInv, emptyTake
  PROVE  Ring!Take
<1>1. /\ listener = "take" /\ listener' = "use"
      /\ UNCHANGED <<array_, got>>
      /\ first_' = Following(first_)
      /\ size_' = size_ - 1 /\ taken' = taken + 1
  BY DEF emptyTake
<1>2. size_ \in 1 .. (CAPACITY - 1)
  BY <1>1, CapacityAssumption
     DEF IInv, TypeOK, RoomIsLeft, Claimed, SeenIsThere
<1>3. Buffer # << >>
  BY <1>2, BufferIsSequence
<1>4. Last' = Head(Buffer)
  <2>1. first_' = SlotAfter(1)
    BY <1>1, <1>2, CapacityAssumption
       DEF IInv, TypeOK, Slots, SlotAfter, Following
  <2>2. Buffer[1] = array_[SlotAfter(1)]
    BY <1>2, CapacityAssumption DEF Buffer
  <2>3. Head(Buffer) = Buffer[1]
    BY <1>3, BufferIsSequence
  <2>. QED  BY <1>1, <2>1, <2>2, <2>3 DEF Last
<1>5. Buffer' = Tail(Buffer)
  <2>1. ASSUME NEW k \in 1 .. (size_ - 1)
        PROVE  SlotAfter(k)' = SlotAfter(k + 1)
    BY <1>1, <1>2, SlotAfterShift, CapacityAssumption DEF IInv, TypeOK
  <2>2. ASSUME NEW k \in 1 .. (size_ - 1)
        PROVE  array_'[SlotAfter(k)'] = Buffer[k + 1]
    BY <1>1, <1>2, <2>1, CapacityAssumption DEF Buffer
  <2>3. Buffer' = [k \in 1 .. (Len(Buffer) - 1) |-> Buffer[k + 1]]
    BY <1>1, <2>2, BufferIsSequence DEF Buffer
  <2>4. /\ Tail(Buffer) \in Seq(Nat) /\ Len(Tail(Buffer)) = Len(Buffer) - 1
        /\ \A k \in 1 .. Len(Tail(Buffer)) : Tail(Buffer)[k] = Buffer[k + 1]
    BY <1>3, BufferIsSequence, HeadTailProperties
  <2>5. Tail(Buffer) \in [1 .. (Len(Buffer) - 1) -> Nat]
    BY <2>4, LenProperties
  <2>. QED  BY <2>3, <2>4, <2>5
<1>. QED  BY <1>1, <1>3, <1>4, <1>5 DEF Ring!Take, Buffer, Last

\* What the listener reads, and what the publisher writes, leaves the channel
\* as it is.
LEMMA OthersStutter ==
  ASSUME IInv, [Next]_vars, ~fillPublish, ~emptyTake
  PROVE  UNCHANGED Ring!vars
<1>1. CASE fillStore
  <2>1. /\ publisher = "store"
        /\ UNCHANGED <<first_, size_, listener, taken, got>>
        /\ array_' = [array_ EXCEPT ![Following(last_)] = sent + 1]
    BY <1>1 DEF fillStore
  <2>2. first_ \in Slots /\ array_ \in [Slots -> Nat] /\ size_ \in 0 .. CAPACITY
    BY DEF IInv, TypeOK
  <2>3. Last' = Last
    BY <2>1, <2>2, StoreSlotIsFree DEF Last
  <2>4. ASSUME NEW k \in 1 .. size_
        PROVE  array_'[SlotAfter(k)'] = array_[SlotAfter(k)]
    <3>1. SlotAfter(k)' = SlotAfter(k)
      BY <2>1 DEF SlotAfter
    <3>2. SlotAfter(k) \in Slots /\ SlotAfter(k) # Following(last_)
      <4>1. k \in 0 .. CAPACITY
        BY <2>2, CapacityAssumption
      <4>. QED  BY <2>1, <2>2, <4>1, StoreSlotIsFree, SlotAfterType
    <3>. QED  BY <2>1, <2>2, <3>1, <3>2
  <2>5. Buffer' = Buffer
    BY <2>1, <2>4 DEF Buffer
  <2>. QED  BY <2>1, <2>3, <2>5 DEF Ring!vars, Buffer, Last
<1>2. CASE emptyUse
  BY <1>2 DEF emptyUse, Ring!vars, SlotAfter
<1>3. CASE fillLoad \/ fillReadFlag \/ dontSpin \/ UNCHANGED vars
  BY <1>3 DEF fillLoad, fillReadFlag, dontSpin, vars, Ring!vars, SlotAfter
<1>4. CASE emptyLoad \/ emptyReadFlag
  BY <1>4 DEF emptyLoad, emptyReadFlag, Ring!vars, SlotAfter
<1>. QED  BY <1>1, <1>2, <1>3, <1>4 DEF Next, Publisher, Listener, Done

\* For every CAPACITY the ring is a channel: data come out in the order in
\* which they went in, each once, read through a reference or not.
THEOREM RingIsChannel == Spec => ImplementsChannel
<1>1. Init => Ring!Init
  BY DEF Init, Ring!Init
<1>2. IInv /\ [Next]_vars => [Ring!Next]_(Ring!vars)
  BY PublishSends, TakeTakes, OthersStutter DEF Ring!Next
<1>. QED  BY <1>1, <1>2, InvariantHolds, PTL
          DEF Spec, ImplementsChannel, Ring!Spec
=============================================================================
