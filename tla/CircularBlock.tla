--------------------------- MODULE CircularBlock ---------------------------
(***************************************************************************)
(* The ring between one publisher and one listener that its tests drive:   *)
(* a thread that calls fill for each of MaxCalls data, a thread that calls *)
(* empty as often, and dontSpin, which anyone may call.                    *)
(*                                                                         *)
(* A step ends at an access to what the two threads share: the atomic      *)
(* size_, the flag, and the slots.  first_ belongs to the listener and     *)
(* last_ to the publisher.                                                 *)
(***************************************************************************)
EXTENDS Naturals, Sequences

CONSTANTS
  CAPACITY,    \* slots of the ring: 262144 unless the user says otherwise
  MaxCalls     \* bound on the calls of fill, and of empty

ASSUME CapacityAssumption == CAPACITY \in Nat \ {0}

\* static_assert: "Block capacity must be a positive power of 2".
ASSUME PowerOfTwoAssumption == \E e \in 0 .. CAPACITY : CAPACITY = 2 ^ e

ASSUME MaxCallsAssumption == MaxCalls \in Nat

VARIABLES
  dontSpin_, first_, last_, size_, array_,
  publisher,   \* where it is in fill
  listener,    \* where it is in empty, or "use": it holds the reference
  fills,       \* calls of fill that are over
  empties,     \* calls of empty that are over
  sent,        \* data that went in: a datum is its number among them
  taken,       \* data that went out
  got          \* the last one that the listener has read

vars == <<dontSpin_, first_, last_, size_, array_, publisher, listener,
          fills, empties, sent, taken, got>>

Slots == 0 .. (CAPACITY - 1)

\* if (++index == CAPACITY) index = 0;
Following(index) == IF index + 1 = CAPACITY THEN 0 ELSE index + 1

Init ==
  /\ dontSpin_ = FALSE
  /\ first_ = CAPACITY - 1
  /\ last_ = CAPACITY - 1
  /\ size_ = 0
  /\ array_ = [s \in Slots |-> 0]
  /\ publisher = "fill" /\ listener = "empty"
  /\ fills = 0 /\ empties = 0
  /\ sent = 0 /\ taken = 0 /\ got = 0

-----------------------------------------------------------------------------
(* fill.                                                                    *)

\* Mutant: every slot may be filled.
fillLoad_LastSlotToo ==
  /\ publisher = "fill" /\ fills < MaxCalls
  /\ publisher' = IF size_ >= CAPACITY THEN "full" ELSE "store"
  /\ UNCHANGED <<dontSpin_, first_, last_, size_, array_, listener, fills,
                 empties, sent, taken, got>>

fillLoad ==
  /\ publisher = "fill" /\ fills < MaxCalls
  /\ publisher' = IF size_ >= CAPACITY - 1 THEN "full" ELSE "store"
  /\ UNCHANGED <<dontSpin_, first_, last_, size_, array_, listener, fills,
                 empties, sent, taken, got>>

\* The datum is dropped when the flag is up, else the loop goes round.
fillReadFlag ==
  /\ publisher = "full"
  /\ publisher' = "fill"
  /\ fills' = IF dontSpin_ THEN fills + 1 ELSE fills
  /\ UNCHANGED <<dontSpin_, first_, last_, size_, array_, listener, empties,
                 sent, taken, got>>

\* Mutant: the index moves on after the slot is written.
fillStore_IndexAfter ==
  /\ publisher = "store"
  /\ last_' = Following(last_)
  /\ array_' = [array_ EXCEPT ![last_] = sent + 1]
  /\ publisher' = "publish"
  /\ UNCHANGED <<dontSpin_, first_, size_, listener, fills, empties, sent,
                 taken, got>>

fillStore ==
  /\ publisher = "store"
  /\ last_' = Following(last_)
  /\ array_' = [array_ EXCEPT ![last_'] = sent + 1]
  /\ publisher' = "publish"
  /\ UNCHANGED <<dontSpin_, first_, size_, listener, fills, empties, sent,
                 taken, got>>

fillPublish ==
  /\ publisher = "publish"
  /\ size_' = size_ + 1
  /\ sent' = sent + 1
  /\ fills' = fills + 1
  /\ publisher' = "fill"
  /\ UNCHANGED <<dontSpin_, first_, last_, array_, listener, empties, taken,
                 got>>

Publisher == fillLoad \/ fillReadFlag \/ fillStore \/ fillPublish

-----------------------------------------------------------------------------
(* empty.                                                                   *)

emptyLoad ==
  /\ listener = "empty" /\ empties < MaxCalls
  /\ listener' = IF size_ = 0 THEN "none" ELSE "take"
  /\ UNCHANGED <<dontSpin_, first_, last_, size_, array_, publisher, fills,
                 empties, sent, taken, got>>

\* Mutant: the loop does not look at the flag.
emptyReadFlag_Retries ==
  /\ listener = "none"
  /\ listener' = "empty"
  /\ UNCHANGED <<dontSpin_, first_, last_, size_, array_, publisher, fills,
                 empties, sent, taken, got>>

\* nodata is returned when the flag is up, else the loop goes round.
emptyReadFlag ==
  /\ listener = "none"
  /\ listener' = "empty"
  /\ empties' = IF dontSpin_ THEN empties + 1 ELSE empties
  /\ UNCHANGED <<dontSpin_, first_, last_, size_, array_, publisher, fills,
                 sent, taken, got>>

\* Mutant: the index does not come round.
emptyTake_NoWrap ==
  /\ listener = "take"
  /\ first_' = first_ + 1
  /\ size_' = size_ - 1
  /\ taken' = taken + 1
  /\ listener' = "use"
  /\ UNCHANGED <<dontSpin_, last_, array_, publisher, fills, empties, sent,
                 got>>

\* The slot is given back before the reference to it is returned.
emptyTake ==
  /\ listener = "take"
  /\ first_' = Following(first_)
  /\ size_' = size_ - 1
  /\ taken' = taken + 1
  /\ listener' = "use"
  /\ UNCHANGED <<dontSpin_, last_, array_, publisher, fills, empties, sent,
                 got>>

\* The caller moves the datum out of the slot.
emptyUse ==
  /\ listener = "use"
  /\ got' = array_[first_]
  /\ empties' = empties + 1
  /\ listener' = "empty"
  /\ UNCHANGED <<dontSpin_, first_, last_, size_, array_, publisher, fills,
                 sent, taken>>

Listener == emptyLoad \/ emptyReadFlag \/ emptyTake \/ emptyUse

-----------------------------------------------------------------------------

dontSpin ==
  /\ ~dontSpin_
  /\ dontSpin_' = TRUE
  /\ UNCHANGED <<first_, last_, size_, array_, publisher, listener, fills,
                 empties, sent, taken, got>>

\* Both threads have made their calls.
Finished == publisher = "fill" /\ fills = MaxCalls
            /\ listener = "empty" /\ empties = MaxCalls

Done == Finished /\ UNCHANGED vars

Next == Publisher \/ Listener \/ dontSpin \/ Done

Spec == Init /\ [][Next]_vars

\* The operating system keeps scheduling both threads; nobody has to call
\* dontSpin.
FairSpec == Spec /\ WF_vars(Publisher) /\ WF_vars(Listener)

-----------------------------------------------------------------------------

\* The indices stay within the array although they only ever move on.
TypeOK ==
  /\ dontSpin_ \in BOOLEAN
  /\ first_ \in Slots /\ last_ \in Slots
  /\ size_ \in 0 .. CAPACITY
  /\ array_ \in [Slots -> Nat]
  /\ publisher \in {"fill", "full", "store", "publish"}
  /\ listener \in {"empty", "none", "take", "use"}
  /\ fills \in Nat /\ empties \in Nat
  /\ sent \in Nat /\ taken \in Nat /\ got \in Nat

\* empty returns a reference to a slot that it has given back already: the
\* publisher is never about to write to that slot, however far the listener
\* is behind, since one slot of the ring is never filled (CAPACITY-1).
SlotIsExclusive ==
  publisher = "store" /\ listener = "use" => Following(last_) # first_

\* The kth slot after first_, for k up to CAPACITY.
SlotAfter(k) ==
  IF first_ + k >= CAPACITY THEN first_ + k - CAPACITY ELSE first_ + k

\* The ring is a channel: data come out in order, none twice and none lost,
\* whatever the interleaving, and what the listener reads through its
\* reference is the datum that it took.  (A datum that fill drops was never
\* in the channel.)
Ring == INSTANCE Channel WITH
          buffer <- [k \in 1 .. size_ |-> array_[SlotAfter(k)]],
          taken  <- taken,
          last   <- IF listener = "use" THEN array_[first_] ELSE got,
          closed <- FALSE

ImplementsChannel == Ring!Spec

\* As many calls of empty as of fill: both threads come to their end, even
\* without dontSpin, and even when the flag makes fill drop a datum.
BothFinish == <>Finished
=============================================================================
