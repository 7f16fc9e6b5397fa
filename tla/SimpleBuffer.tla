---------------------------- MODULE SimpleBuffer ----------------------------
(***************************************************************************)
(* A buffer with a window begin_ .. end_ of what is in it and not used.    *)
(* A buffer is a record with the fields of the code.                       *)
(***************************************************************************)
EXTENDS Integers, Sequences, SequencesExt

\* Memory that nobody has written; characters are numbers from 0.
Junk == -1

\* SimpleBuffer(capacity)
NewBuffer(capacity) ==
  [capacity_ |-> capacity, str_ |-> [k \in 1 .. capacity |-> Junk],
   begin_ |-> 0, end_ |-> 0]

\* SimpleBuffer(str, len)
BufferOn(str) ==
  [capacity_ |-> Len(str), str_ |-> str, begin_ |-> 0, end_ |-> 0]

\* memcpy, memmove: text to the offset at.
WrittenAt(b, at, text) ==
  [k \in 1 .. b.capacity_ |->
     IF k \in (at + 1) .. (at + Len(text)) THEN text[k - at] ELSE b.str_[k]]

\* From data() for available() characters.
data(b) == SubSeq(b.str_, b.begin_ + 1, b.end_)

available(b) == b.end_ - b.begin_
freeSpace(b) == b.capacity_ - b.end_

\* Nothing looks whether len is within freeSpace(): the caller must.
push(b, text) ==
  [b EXCEPT !.str_ = WrittenAt(b, b.end_, text), !.end_ = @ + Len(text)]

reset(b) == [b EXCEPT !.begin_ = 0, !.end_ = 0]

\* Mutant: the end stays where it was.
pushOnLeft_KeepsEnd(b) ==
  [b EXCEPT !.str_ = WrittenAt(b, 0, data(b)), !.begin_ = 0]

pushOnLeft(b) ==
  [b EXCEPT !.str_ = WrittenAt(b, 0, data(b)), !.begin_ = 0,
            !.end_ = @ - b.begin_]

\* Never beyond end_.
seek(b, step) == [b EXCEPT !.begin_ = Min({@ + step, b.end_})]

seekEnd(b, step) == [b EXCEPT !.end_ = @ + step]

\* Where c is first, from begin_; -1 if it is not there.
getPosition(b, c) == SelectInSeq(data(b), LAMBDA d : d = c) - 1
=============================================================================
