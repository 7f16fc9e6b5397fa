----------------------------- MODULE StrStream -----------------------------
(***************************************************************************)
(* The stream on which every line of output is put together: FiniteStr, a  *)
(* buffer of CAPACITY characters, and behind it a heap buffer that is      *)
(* filled from the first character that does not fit.                      *)
(*                                                                         *)
(* A stream is a record with the fields of the code.  Characters of a      *)
(* buffer beyond its size are left out.                                    *)
(***************************************************************************)
EXTENDS Decoder

CONSTANTS
  CAPACITY,        \* FiniteStr<>::CAPACITY: 1024 in the code
  CAPACITY_MAX     \* of the heap buffer: 32767

ASSUME CapacityAssumption ==
  /\ CAPACITY \in Nat \ {0}
  /\ CAPACITY_MAX \in Nat /\ CAPACITY_MAX >= CAPACITY

\* What is in memory that nobody has written.
Junk == "junk"

\* strOver_ = nullptr.  The heap buffer is never there and empty.
NoBuffer == << >>

\* crashed: a length below 0 was given to memcpy or memset.
NewStream ==
  [str_ |-> << >>, strOver_ |-> NoBuffer, sizeOver_ |-> 0, crashed |-> FALSE]

size(s) == Len(s.str_)

Overflowed(s) == s.strOver_ # NoBuffer

length(s) == IF Overflowed(s) THEN s.sizeOver_ ELSE size(s)

c_str(s) == IF Overflowed(s) THEN s.strOver_ ELSE s.str_

\* sizeOver_ stays.
clear(s) == [s EXCEPT !.str_ = << >>, !.strOver_ = NoBuffer]

Repeat(c, n) == [k \in 1 .. n |-> c]

-----------------------------------------------------------------------------

\* A new heap buffer with the contents at its start: sizeOver_ is added to,
\* not set, and so covers memory that is not written when it was not 0.
overflow(s) ==
  [s EXCEPT !.strOver_ = s.str_ \o Repeat(Junk, s.sizeOver_),
            !.sizeOver_ = @ + size(s)]

\* The lambdas appendBeyond: text from sizeOver_ up to newSize.
appendBeyond(s, text, newSize) ==
  IF newSize < s.sizeOver_
  THEN [s EXCEPT !.sizeOver_ = newSize, !.crashed = TRUE]
  ELSE [s EXCEPT !.strOver_ = @ \o SubSeq(text, 1, newSize - s.sizeOver_),
                 !.sizeOver_ = newSize]

appendRest(s, rest) ==
  appendBeyond(s, rest, Min({s.sizeOver_ + Len(rest), CAPACITY_MAX}))

\* Mutant: the heap buffer gets the part that did fit once more.
append_RepeatsHead(s, text) ==
  LET addedLen == Min({Len(text), CAPACITY - size(s)})
      fitted   == [s EXCEPT !.str_ = @ \o SubSeq(text, 1, addedLen)]
  IN  IF Overflowed(s)            THEN appendRest(s, text)
      ELSE IF Len(text) = addedLen THEN fitted
      ELSE appendRest(overflow(fitted), text)

\* append(str, len); the operators << for text and for another stream.
append(s, text) ==
  LET addedLen == Min({Len(text), CAPACITY - size(s)})
      fitted   == [s EXCEPT !.str_ = @ \o SubSeq(text, 1, addedLen)]
  IN  IF Overflowed(s)            THEN appendRest(s, text)
      ELSE IF Len(text) = addedLen THEN fitted
      ELSE appendRest(overflow(fitted), SubSeq(text, addedLen + 1, Len(text)))

\* append(pos, c): c up to a column.  That there is nothing to do is seen by
\* the size of the first buffer alone.
appendUpTo(s, pos, c) ==
  LET over    == IF Overflowed(s) THEN s ELSE overflow(s)
      newSize == Min({pos, CAPACITY_MAX})
  IN  IF pos < size(s) THEN s
      ELSE IF ~Overflowed(s) /\ pos < CAPACITY
      THEN [s EXCEPT !.str_ = @ \o Repeat(c, pos - size(s))]
      ELSE appendBeyond(over, Repeat(c, newSize - over.sizeOver_), newSize)

\* Mutant: the heap buffer has no limit.
put_NoLimit(s, c) ==
  LET over == IF Overflowed(s) THEN s ELSE overflow(s)
  IN  IF ~Overflowed(s) /\ size(s) < CAPACITY
      THEN [s EXCEPT !.str_ = Append(@, c)]
      ELSE appendBeyond(over, <<c>>, over.sizeOver_ + 1)

\* operator<<(char)
put(s, c) ==
  LET over == IF Overflowed(s) THEN s ELSE overflow(s)
  IN  IF ~Overflowed(s) /\ size(s) < CAPACITY
      THEN [s EXCEPT !.str_ = Append(@, c)]
      ELSE IF over.sizeOver_ < CAPACITY_MAX
      THEN appendBeyond(over, <<c>>, over.sizeOver_ + 1)
      ELSE over

\* operator<<(std::ostream&): what the other stream still has to give, one
\* character at a time.
putAll(s, text) == FoldLeft(put, s, text)

\* The operators << for numbers.
appendInteger(s, n) == append(s, convert_unsigned_integer(n))

appendFloat(s, val, precision) ==
  append(s, convert_unsigned_float(val, precision))
=============================================================================
