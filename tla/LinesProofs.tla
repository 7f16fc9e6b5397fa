---------------------------- MODULE LinesProofs ----------------------------
(***************************************************************************)
(* Reading a file line by line, for every length of the file and every     *)
(* capacity of the buffer: the window never leaves the buffer, and the     *)
(* lines are cut once each.                                                *)
(***************************************************************************)
EXTENDS Lines, TLAPS, FiniteSetTheorems, SequenceTheorems, WellFoundedInduction

-----------------------------------------------------------------------------
(* Numbers and sequences.                                                   *)

\* Induction, for a property that is a set.
LEMMA LeastNatural ==
  ASSUME NEW T \in SUBSET Nat, T # {}
  PROVE  \E m \in T : \A k \in T : m <= k
<1>1. \E m \in T : \A k \in T : <<k, m>> \notin OpToRel(<, Nat)
  BY WFMin, NatLessThanWellFounded, Zenon
<1>2. PICK m \in T : \A k \in T : <<k, m>> \notin OpToRel(<, Nat)
  BY <1>1
<1>3. ASSUME NEW k \in T
      PROVE  ~(k < m)
  BY <1>2 DEF OpToRel
<1>. QED  BY <1>3

\* Min finds the least element.
LEMMA MinIsLeast ==
  ASSUME NEW T \in SUBSET Nat, T # {}
  PROVE  Min(T) \in T /\ \A k \in T : Min(T) <= k
<1>1. \E m \in T : \A k \in T : m <= k
  BY LeastNatural
<1>. QED  BY <1>1 DEF Min

LEMMA MinOfTwo ==
  ASSUME NEW a \in Nat, NEW b \in Nat
  PROVE  /\ Min({a, b}) \in Nat
         /\ Min({a, b}) <= a /\ Min({a, b}) <= b
         /\ a <= b => Min({a, b}) = a
         /\ b <= a => Min({a, b}) = b
BY MinIsLeast

LEMMA JoinsThree ==
  ASSUME NEW s \in Seq(Int), NEW t \in Seq(Int), NEW u \in Seq(Int)
  PROVE  (s \o t) \o u = s \o (t \o u)
BY ConcatAssociative

\* Cutting a sequence in two loses nothing.
LEMMA CutInTwo ==
  ASSUME NEW s \in Seq(Int), NEW n \in 0 .. Len(s)
  PROVE  /\ SubSeq(s, 1, n) \in Seq(Int) /\ Len(SubSeq(s, 1, n)) = n
         /\ SubSeq(s, n + 1, Len(s)) \in Seq(Int)
         /\ Len(SubSeq(s, n + 1, Len(s))) = Len(s) - n
         /\ \A k \in 1 .. n : SubSeq(s, 1, n)[k] = s[k]
         /\ \A k \in 1 .. Len(s) - n : SubSeq(s, n + 1, Len(s))[k] = s[n + k]
         /\ SubSeq(s, 1, n) \o SubSeq(s, n + 1, Len(s)) = s
<1>1. /\ SubSeq(s, 1, n) \in Seq(Int) /\ Len(SubSeq(s, 1, n)) = n
      /\ \A k \in 1 .. n : SubSeq(s, 1, n)[k] = s[k]
  OBVIOUS
<1>2. /\ SubSeq(s, n + 1, Len(s)) \in Seq(Int)
      /\ Len(SubSeq(s, n + 1, Len(s))) = Len(s) - n
      /\ \A k \in 1 .. Len(s) - n : SubSeq(s, n + 1, Len(s))[k] = s[n + k]
  OBVIOUS
<1>3. SubSeq(s, 1, n) \o SubSeq(s, n + 1, Len(s)) = s
  <2>1. Len(s) \in Nat
    OBVIOUS
  <2>2. 1 \in 1 .. Len(s) + 1 /\ n \in (1 - 1) .. Len(s) /\ Len(s) \in n .. Len(s)
    BY <2>1
  <2>. QED  BY <2>2, ConcatAdjacentSubSeq, SubSeqFull
<1>. QED  BY <1>1, <1>2, <1>3

-----------------------------------------------------------------------------
(* The buffer.                                                              *)

\* The window lies within the buffer.
Buffers ==
  {b \in [capacity_ : Nat, str_ : Seq(Int), begin_ : Nat, end_ : Nat] :
     /\ Len(b.str_) = b.capacity_
     /\ b.begin_ <= b.end_ /\ b.end_ <= b.capacity_}

LEMMA BufferIsRecord ==
  ASSUME NEW b \in Buffers
  PROVE  /\ b = [capacity_ |-> b.capacity_, str_ |-> b.str_,
                 begin_ |-> b.begin_, end_ |-> b.end_]
         /\ b.capacity_ \in Nat /\ b.str_ \in Seq(Int)
         /\ b.begin_ \in Nat /\ b.end_ \in Nat
         /\ Len(b.str_) = b.capacity_
         /\ b.begin_ <= b.end_ /\ b.end_ <= b.capacity_
BY DEF Buffers

\* The fields that are changed, one after the other.
LEMMA ExceptFields ==
  ASSUME NEW b \in Buffers, NEW str, NEW from, NEW to
  PROVE  /\ [b EXCEPT !.str_ = str] =
              [capacity_ |-> b.capacity_, str_ |-> str, begin_ |-> b.begin_, end_ |-> b.end_]
         /\ [b EXCEPT !.begin_ = from] =
              [capacity_ |-> b.capacity_, str_ |-> b.str_, begin_ |-> from, end_ |-> b.end_]
         /\ [b EXCEPT !.str_ = str, !.end_ = to] =
              [capacity_ |-> b.capacity_, str_ |-> str, begin_ |-> b.begin_, end_ |-> to]
         /\ [b EXCEPT !.begin_ = from, !.end_ = to] =
              [capacity_ |-> b.capacity_, str_ |-> b.str_, begin_ |-> from, end_ |-> to]
<1>. DEFINE s == [b EXCEPT !.str_ = str]
            f == [b EXCEPT !.begin_ = from]
<1>1. s = [capacity_ |-> b.capacity_, str_ |-> str, begin_ |-> b.begin_, end_ |-> b.end_]
  BY BufferIsRecord
<1>2. f = [capacity_ |-> b.capacity_, str_ |-> b.str_, begin_ |-> from, end_ |-> b.end_]
  BY BufferIsRecord
<1>3. /\ [b EXCEPT !.str_ = str, !.end_ = to] = [s EXCEPT !.end_ = to]
      /\ [b EXCEPT !.begin_ = from, !.end_ = to] = [f EXCEPT !.end_ = to]
  OBVIOUS
<1>. HIDE DEF s, f
<1>4. [s EXCEPT !.end_ = to] =
        [capacity_ |-> b.capacity_, str_ |-> str, begin_ |-> b.begin_, end_ |-> to]
  BY <1>1
<1>5. [f EXCEPT !.end_ = to] =
        [capacity_ |-> b.capacity_, str_ |-> b.str_, begin_ |-> from, end_ |-> to]
  BY <1>2
<1>. QED  BY <1>1, <1>2, <1>3, <1>4, <1>5 DEF s, f

\* What is in the window.
LEMMA DataIsWindow ==
  ASSUME NEW b \in Buffers
  PROVE  /\ data(b) \in Seq(Int)
         /\ Len(data(b)) = b.end_ - b.begin_
         /\ \A k \in 1 .. b.end_ - b.begin_ : data(b)[k] = b.str_[b.begin_ + k]
<1>. DEFINE str  == b.str_
            from == b.begin_
            to   == b.end_
<1>1. /\ str \in Seq(Int) /\ from \in Nat /\ to \in Nat
      /\ from <= to /\ to <= Len(str)
  BY DEF Buffers
<1>. HIDE DEF str, from, to
<1>2. /\ SubSeq(str, from + 1, to) \in Seq(Int)
      /\ Len(SubSeq(str, from + 1, to)) = to - from
      /\ \A k \in 1 .. to - from : SubSeq(str, from + 1, to)[k] = str[from + k]
  BY <1>1
<1>. QED  BY <1>2 DEF data, str, from, to

\* A new buffer, and one on a text, are empty.
LEMMA NewIsEmpty ==
  ASSUME NEW capacity \in Nat
  PROVE  NewBuffer(capacity) \in Buffers /\ data(NewBuffer(capacity)) = << >>
<1>1. NewBuffer(capacity) \in Buffers
  BY DEF NewBuffer, Buffers, Junk
<1>2. Len(data(NewBuffer(capacity))) = 0
  BY <1>1, DataIsWindow DEF NewBuffer
<1>. QED  BY <1>1, <1>2, DataIsWindow, EmptySeq

\* The mapped file is all in the window.
LEMMA MappedIsWhole ==
  ASSUME NEW text \in Seq(Int)
  PROVE  /\ seekEnd(BufferOn(text), Len(text)) \in Buffers
         /\ data(seekEnd(BufferOn(text), Len(text))) = text
<1>. DEFINE b == seekEnd(BufferOn(text), Len(text))
<1>1. b = [capacity_ |-> Len(text), str_ |-> text, begin_ |-> 0, end_ |-> Len(text)]
  BY DEF seekEnd, BufferOn
<1>2. b \in Buffers
  BY <1>1 DEF Buffers
<1>3. data(b) = SubSeq(text, 1, Len(text))
  BY <1>1 DEF data
<1>. QED  BY <1>2, <1>3

\* memmove and memcpy within the buffer.
LEMMA WrittenWithin ==
  ASSUME NEW b \in Buffers, NEW text \in Seq(Int), NEW offset \in Nat,
         offset + Len(text) <= b.capacity_
  PROVE  LET str == WrittenAt(b, offset, text) IN
           /\ str \in Seq(Int) /\ Len(str) = b.capacity_
           /\ \A k \in 1 .. offset : str[k] = b.str_[k]
           /\ \A k \in 1 .. Len(text) : str[offset + k] = text[k]
<1>. DEFINE str == WrittenAt(b, offset, text)
            cap == b.capacity_
<1>1. /\ cap \in Nat /\ b.str_ \in Seq(Int) /\ Len(b.str_) = cap
  BY DEF Buffers
<1>2. \A k \in 1 .. cap :
        str[k] = IF k \in (offset + 1) .. (offset + Len(text))
                   THEN text[k - offset] ELSE b.str_[k]
  BY DEF WrittenAt
<1>3. \A k \in 1 .. cap : str[k] \in Int
  <2>. SUFFICES ASSUME NEW k \in 1 .. cap PROVE str[k] \in Int
    OBVIOUS
  <2>1. CASE k \in (offset + 1) .. (offset + Len(text))
    <3>1. k - offset \in 1 .. Len(text)
      BY <2>1
    <3>. QED  BY <1>2, <2>1, <3>1, ElementOfSeq
  <2>2. CASE k \notin (offset + 1) .. (offset + Len(text))
    BY <1>1, <1>2, <2>2, ElementOfSeq
  <2>. QED  BY <2>1, <2>2
<1>4. str \in Seq(Int) /\ Len(str) = cap
  <2>1. str = [k \in 1 .. cap |-> str[k]]
    BY DEF WrittenAt
  <2>. HIDE DEF str
  <2>2. str \in [1 .. cap -> Int]
    BY <1>3, <2>1
  <2>. HIDE DEF cap
  <2>. QED  BY <1>1, <2>2
<1>. HIDE DEF str
<1>5. ASSUME NEW k \in 1 .. offset
      PROVE  str[k] = b.str_[k]
  BY <1>1, <1>2
<1>6. ASSUME NEW k \in 1 .. Len(text)
      PROVE  str[offset + k] = text[k]
  <2>1. /\ offset + k \in 1 .. cap
        /\ offset + k \in (offset + 1) .. (offset + Len(text))
        /\ (offset + k) - offset = k
    BY <1>1
  <2>. QED  BY <1>2, <2>1
<1>. QED  BY <1>4, <1>5, <1>6 DEF str

\* What is pushed comes behind what is there, if there is room for it.
LEMMA PushAppends ==
  ASSUME NEW b \in Buffers, NEW text \in Seq(Int), Len(text) <= freeSpace(b)
  PROVE  /\ push(b, text) \in Buffers
         /\ data(push(b, text)) = data(b) \o text
<1>. DEFINE str  == WrittenAt(b, b.end_, text)
            from == b.begin_
            to   == b.end_
            n    == Len(text)
            c    == push(b, text)
<1>1. /\ b.capacity_ \in Nat /\ from \in Nat /\ to \in Nat /\ n \in Nat
      /\ from <= to /\ to + n <= b.capacity_
  BY DEF Buffers, freeSpace
<1>2. /\ str \in Seq(Int) /\ Len(str) = b.capacity_
      /\ \A k \in 1 .. to : str[k] = b.str_[k]
      /\ \A k \in 1 .. n : str[to + k] = text[k]
  BY <1>1, WrittenWithin
<1>3. c = [capacity_ |-> b.capacity_, str_ |-> str, begin_ |-> from, end_ |-> to + n]
  BY ExceptFields DEF push
<1>. HIDE DEF str, from, to, n, c
<1>4. c \in Buffers
  BY <1>1, <1>2, <1>3 DEF Buffers
<1>5. /\ data(c) \in Seq(Int) /\ Len(data(c)) = (to + n) - from
      /\ \A k \in 1 .. (to + n) - from : data(c)[k] = str[from + k]
  BY <1>3, <1>4, DataIsWindow
<1>6. /\ data(b) \in Seq(Int) /\ Len(data(b)) = to - from
      /\ \A k \in 1 .. to - from : data(b)[k] = b.str_[from + k]
  BY DataIsWindow DEF from, to
<1>7. /\ data(b) \o text \in Seq(Int) /\ Len(data(b) \o text) = (to + n) - from
      /\ \A k \in 1 .. (to + n) - from : (data(b) \o text)[k] =
           IF k <= to - from THEN data(b)[k] ELSE text[k - (to - from)]
  <2>1. (to - from) + n = (to + n) - from
    BY <1>1
  <2>. QED  BY <1>6, <2>1, ConcatProperties DEF n
<1>8. ASSUME NEW k \in 1 .. (to + n) - from
      PROVE  data(c)[k] = (data(b) \o text)[k]
  <2>1. CASE k <= to - from
    <3>1. from + k \in 1 .. to /\ k \in 1 .. to - from
      BY <1>1, <2>1
    <3>2. (data(b) \o text)[k] = data(b)[k]
      BY <1>7, <2>1
    <3>. QED  BY <1>2, <1>5, <1>6, <3>1, <3>2
  <2>2. CASE k > to - from
    <3>1. k - (to - from) \in 1 .. n /\ to + (k - (to - from)) = from + k
      BY <1>1, <2>2
    <3>2. (data(b) \o text)[k] = text[k - (to - from)]
      BY <1>1, <1>7, <2>2
    <3>. QED  BY <1>2, <1>5, <3>1, <3>2
  <2>3. k <= to - from \/ k > to - from
    BY <1>1
  <2>. QED  BY <2>1, <2>2, <2>3
<1>9. data(c) = data(b) \o text
  BY <1>5, <1>7, <1>8, SeqEqual
<1>. QED  BY <1>4, <1>9 DEF c

\* Reading into dataEnd() and moving the end is the same as a push.
LEMMA ReadIsPush ==
  ASSUME NEW b \in Buffers, NEW text \in Seq(Int), NEW n, n = Len(text)
  PROVE  seekEnd([b EXCEPT !.str_ = WrittenAt(b, b.end_, text)], n) = push(b, text)
BY BufferIsRecord DEF seekEnd, push

\* Moving the window left keeps what is in it.
LEMMA LeftKeepsData ==
  ASSUME NEW b \in Buffers
  PROVE  pushOnLeft(b) \in Buffers /\ data(pushOnLeft(b)) = data(b)
<1>. DEFINE str  == WrittenAt(b, 0, data(b))
            n    == b.end_ - b.begin_
            c    == pushOnLeft(b)
<1>1. /\ b.capacity_ \in Nat /\ n \in Nat /\ n <= b.capacity_
  BY DEF Buffers
<1>2. data(b) \in Seq(Int) /\ Len(data(b)) = n
  BY DataIsWindow
<1>3. /\ str \in Seq(Int) /\ Len(str) = b.capacity_
      /\ \A k \in 1 .. n : str[0 + k] = data(b)[k]
  <2>. DEFINE zero == 0
              text == data(b)
              made == WrittenAt(b, zero, text)
  <2>1. zero \in Nat /\ text \in Seq(Int) /\ zero + Len(text) <= b.capacity_
    BY <1>1, <1>2
  <2>. HIDE DEF zero, text
  <2>2. /\ made \in Seq(Int) /\ Len(made) = b.capacity_
        /\ \A k \in 1 .. Len(text) : made[zero + k] = text[k]
    BY <2>1, WrittenWithin
  <2>. QED  BY <1>2, <2>2 DEF zero, text
<1>4. c = [capacity_ |-> b.capacity_, str_ |-> str, begin_ |-> 0, end_ |-> n]
  <2>. DEFINE s == [b EXCEPT !.str_ = str]
              f == [s EXCEPT !.begin_ = 0]
  <2>1. s = [capacity_ |-> b.capacity_, str_ |-> str, begin_ |-> b.begin_, end_ |-> b.end_]
    BY BufferIsRecord
  <2>2. c = [f EXCEPT !.end_ = n]
    BY DEF pushOnLeft
  <2>. HIDE DEF s, c, str, n
  <2>3. f = [capacity_ |-> b.capacity_, str_ |-> str, begin_ |-> 0, end_ |-> b.end_]
    BY <2>1
  <2>. HIDE DEF f
  <2>. QED  BY <2>2, <2>3
<1>. HIDE DEF str, n, c
<1>5. c \in Buffers
  BY <1>1, <1>3, <1>4 DEF Buffers
<1>6. /\ data(c) \in Seq(Int) /\ Len(data(c)) = n
      /\ \A k \in 1 .. n : data(c)[k] = str[0 + k]
  BY <1>1, <1>4, <1>5, DataIsWindow
<1>7. data(c) = data(b)
  BY <1>2, <1>3, <1>6, SeqEqual
<1>. QED  BY <1>5, <1>7 DEF c

LEMMA ResetEmpties ==
  ASSUME NEW b \in Buffers
  PROVE  reset(b) \in Buffers /\ data(reset(b)) = << >>
<1>. DEFINE c == reset(b)
<1>1. c = [capacity_ |-> b.capacity_, str_ |-> b.str_, begin_ |-> 0, end_ |-> 0]
  <2>. DEFINE zero == 0
  <2>1. c = [b EXCEPT !.begin_ = zero, !.end_ = zero]
    BY DEF reset
  <2>2. zero = 0
    OBVIOUS
  <2>. HIDE DEF zero, c
  <2>3. c = [capacity_ |-> b.capacity_, str_ |-> b.str_, begin_ |-> zero, end_ |-> zero]
    BY <2>1, ExceptFields
  <2>. QED  BY <2>2, <2>3, Zenon
<1>. HIDE DEF c
<1>2. c \in Buffers
  BY <1>1, BufferIsRecord DEF Buffers
<1>3. data(c) \in Seq(Int) /\ Len(data(c)) = 0
  BY <1>1, <1>2, DataIsWindow
<1>4. data(c) = << >>
  BY <1>3
<1>. QED  BY <1>2, <1>4 DEF c

\* Going forward within the window drops what is passed.
LEMMA SeekDrops ==
  ASSUME NEW b \in Buffers, NEW step \in 0 .. Len(data(b))
  PROVE  /\ seek(b, step) \in Buffers
         /\ data(seek(b, step)) = SubSeq(data(b), step + 1, Len(data(b)))
<1>. DEFINE from == b.begin_
            to   == b.end_
            c    == seek(b, step)
<1>1. /\ b.capacity_ \in Nat /\ b.str_ \in Seq(Int) /\ Len(b.str_) = b.capacity_
      /\ from \in Nat /\ to \in Nat /\ from <= to /\ to <= b.capacity_
  BY DEF Buffers
<1>2. /\ data(b) \in Seq(Int) /\ Len(data(b)) = to - from
      /\ \A k \in 1 .. to - from : data(b)[k] = b.str_[from + k]
  BY DataIsWindow
<1>3. Min({from + step, to}) = from + step
  <2>. HIDE DEF from, to
  <2>. DEFINE next == from + step
  <2>1. next \in Nat /\ next <= to
    BY <1>1, <1>2
  <2>. HIDE DEF next
  <2>2. Min({next, to}) = next
    BY <1>1, <2>1, MinOfTwo
  <2>. QED  BY <2>2 DEF next
<1>4. c = [capacity_ |-> b.capacity_, str_ |-> b.str_, begin_ |-> from + step, end_ |-> to]
  BY <1>3, ExceptFields DEF seek
<1>. HIDE DEF from, to, c
<1>5. c \in Buffers
  BY <1>1, <1>2, <1>4 DEF Buffers
<1>6. /\ data(c) \in Seq(Int) /\ Len(data(c)) = to - (from + step)
      /\ \A k \in 1 .. to - (from + step) : data(c)[k] = b.str_[(from + step) + k]
  BY <1>4, <1>5, DataIsWindow
<1>. DEFINE back == SubSeq(data(b), step + 1, Len(data(b)))
<1>7. /\ back \in Seq(Int) /\ Len(back) = Len(data(b)) - step
      /\ \A k \in 1 .. Len(data(b)) - step : back[k] = data(b)[step + k]
  BY <1>2, CutInTwo
<1>. HIDE DEF back
<1>8. ASSUME NEW k \in 1 .. to - (from + step)
      PROVE  data(c)[k] = back[k]
  <2>1. step + k \in 1 .. to - from /\ k \in 1 .. Len(data(b)) - step
    BY <1>1, <1>2
  <2>2. from + (step + k) = (from + step) + k
    BY <1>1, <1>2
  <2>. QED  BY <1>2, <1>6, <1>7, <2>1, <2>2
<1>9. data(c) = back
  <2>1. Len(back) = to - (from + step)
    BY <1>1, <1>2, <1>7
  <2>. QED  BY <1>6, <1>7, <1>8, <2>1, SeqEqual
<1>. QED  BY <1>5, <1>9 DEF c, back

\* getPosition finds the first character that is c.
LEMMA PositionIsFirst ==
  ASSUME NEW b \in Buffers, NEW c
  PROVE  LET pos == getPosition(b, c) IN
           /\ pos \in Int
           /\ pos >= 0 => /\ pos + 1 \in 1 .. Len(data(b))
                          /\ data(b)[pos + 1] = c
                          /\ \A k \in 1 .. pos : data(b)[k] # c
           /\ pos < 0 => \A k \in 1 .. Len(data(b)) : data(b)[k] # c
<1>. DEFINE text == data(b)
            hits == {k \in 1 .. Len(text) : text[k] = c}
            pos  == getPosition(b, c)
<1>1. text \in Seq(Int) /\ Len(text) \in Nat
  BY DataIsWindow
<1>2. pos = (IF hits # {} THEN Min(hits) ELSE 0) - 1
  BY DEF getPosition, SelectInSeq
<1>. HIDE DEF text, pos
<1>3. CASE hits = {}
  <2>1. pos = -1
    BY <1>2, <1>3
  <2>. QED  BY <1>1, <1>3, <2>1 DEF text, pos
<1>4. CASE hits # {}
  <2>1. hits \in SUBSET Nat
    BY <1>1
  <2>2. Min(hits) \in hits /\ \A k \in hits : Min(hits) <= k
    <3>. HIDE DEF hits
    <3>. QED  BY <1>4, <2>1, MinIsLeast
  <2>3. pos \in Int /\ pos >= 0 /\ pos + 1 = Min(hits)
    BY <1>2, <1>4, <2>2
  <2>4. pos + 1 \in 1 .. Len(text) /\ text[pos + 1] = c
    BY <2>2, <2>3
  <2>5. ASSUME NEW k \in 1 .. pos
        PROVE  text[k] # c
    <3>1. k \in 1 .. Len(text) /\ ~(Min(hits) <= k)
      BY <1>1, <2>3, <2>4
    <3>. QED  BY <2>2, <3>1
  <2>. QED  BY <2>3, <2>4, <2>5 DEF text, pos
<1>. QED  BY <1>3, <1>4

-----------------------------------------------------------------------------
(* The invariant.                                                           *)

\* What of the file is still to be cut, and how much was.
Rest == data(buffer) \o unread
Cut  == Len(file) - Len(Rest)

Typed ==
  /\ file \in Seq(Int)
  /\ buffer \in Buffers
  /\ unread \in Seq(Int)
  /\ good \in BOOLEAN
  /\ at \in {"fill", "cut", "end"}
  /\ lines \in Seq(Seq(Int))

\* The rest is the end of the file.
RestIsNext ==
  /\ Len(Rest) <= Len(file)
  /\ \A k \in 1 .. Len(Rest) : Rest[k] = file[Cut + k]

\* stop[n] is where the nth line ends.
LinesEndAt(stop) ==
  /\ stop \in [0 .. Len(lines) -> 0 .. Len(file)]
  /\ stop[0] = 0 /\ stop[Len(lines)] = Cut
  /\ \A n \in 1 .. Len(lines) :
       /\ stop[n - 1] < stop[n]
       /\ file[stop[n]] = EndOfLine
       /\ lines[n] = SubSeq(file, stop[n - 1] + 1, stop[n] - 1)

LinesAreCut == \E stop : LinesEndAt(stop)

\* The ends of line up to a place.
EndsUpTo(n) == {k \in DOMAIN file : k <= n /\ file[k] = EndOfLine}

\* Each end of line that was passed has given a line.
EndsAreCounted ==
  /\ IsFiniteSet(EndsUpTo(Cut)) /\ Cardinality(EndsUpTo(Cut)) = Len(lines)
  /\ Cut = 0 \/ file[Cut] = EndOfLine

\* Reading ends when there is no more to come, and no end of line is left.
EndsWhenDone ==
  /\ ~good => unread = << >>
  /\ at = "end" => /\ ~good
                   /\ \A k \in 1 .. Len(data(buffer)) : data(buffer)[k] # EndOfLine

IInv ==
  /\ Typed /\ RestIsNext /\ LinesAreCut /\ EndsAreCounted /\ EndsWhenDone

-----------------------------------------------------------------------------
(* The first state.                                                         *)

LEMMA FilesAreSequences ==
  ASSUME NEW text \in Files
  PROVE  text \in Seq(Int)
<1>1. PICK n \in 0 .. MaxFile :
        text \in {[k \in 1 .. n |-> IF k \in ends THEN EndOfLine ELSE k] :
                     ends \in SUBSET (1 .. n)}
  BY DEF Files
<1>2. PICK ends \in SUBSET (1 .. n) :
        text = [k \in 1 .. n |-> IF k \in ends THEN EndOfLine ELSE k]
  BY <1>1
<1>3. n \in Nat
  BY LinesAssumption
<1>4. text \in [1 .. n -> Int]
  BY <1>2, <1>3 DEF EndOfLine
<1>. HIDE <1>2
<1>. QED  BY <1>3, <1>4

\* At first nothing was cut.
LEMMA WholeFileIsRest ==
  ASSUME file \in Seq(Int), Rest = file, lines = << >>
  PROVE  RestIsNext /\ LinesAreCut /\ EndsAreCounted
<1>1. Len(file) \in Nat /\ Cut = 0
  BY DEF Cut
<1>2. RestIsNext
  BY <1>1 DEF RestIsNext
<1>3. LinesAreCut
  <2>. DEFINE stop == [n \in 0 .. 0 |-> 0]
  <2>1. Len(lines) = 0
    OBVIOUS
  <2>2. stop \in [0 .. Len(lines) -> 0 .. Len(file)] /\ stop[0] = 0
    BY <1>1, <2>1
  <2>3. LinesEndAt(stop)
    <3>. HIDE DEF stop
    <3>. QED  BY <1>1, <2>1, <2>2 DEF LinesEndAt
  <2>. QED  BY <2>3 DEF LinesAreCut
<1>4. EndsAreCounted
  <2>1. EndsUpTo(Cut) = {}
    BY <1>1 DEF EndsUpTo
  <2>. QED  BY <1>1, <2>1, FS_EmptySet DEF EndsAreCounted
<1>. QED  BY <1>2, <1>3, <1>4

LEMMA InitIsSafe == Init => IInv
<1>. SUFFICES ASSUME Init PROVE IInv
  OBVIOUS
<1>1. file \in Seq(Int) /\ lines = << >>
  BY FilesAreSequences DEF Init
<1>2. /\ buffer \in Buffers /\ unread \in Seq(Int) /\ Rest = file
      /\ good \in BOOLEAN /\ at \in {"fill", "cut"}
      /\ ~good => unread = << >>
  <2>1. CASE way = "mapped"
    <3>1. buffer = seekEnd(BufferOn(file), Len(file)) /\ unread = << >>
          /\ good = FALSE /\ at = "cut"
      BY <2>1 DEF Init
    <3>2. buffer \in Buffers /\ data(buffer) = file
      BY <1>1, <3>1, MappedIsWhole
    <3>3. Rest = file
      BY <1>1, <3>1, <3>2, ConcatEmptySeq DEF Rest
    <3>4. unread \in Seq(Int)
      BY <3>1, EmptySeq
    <3>5. ~good => unread = << >>
      BY <3>1
    <3>. QED  BY <3>1, <3>2, <3>3, <3>4, <3>5
  <2>2. CASE way \in {"chunked", "pushed"}
    <3>1. /\ \E capacity \in Capacities : buffer = NewBuffer(capacity)
          /\ unread = file /\ good = TRUE /\ at = "fill"
      BY <2>2 DEF Init
    <3>2. PICK capacity \in Nat : buffer = NewBuffer(capacity)
      BY <3>1, LinesAssumption
    <3>3. buffer \in Buffers /\ data(buffer) = << >>
      BY <3>2, NewIsEmpty
    <3>4. Rest = file
      BY <1>1, <3>1, <3>3, ConcatEmptySeq DEF Rest
    <3>. QED  BY <1>1, <3>1, <3>3, <3>4
  <2>. QED  BY <2>1, <2>2 DEF Init
<1>3. RestIsNext /\ LinesAreCut /\ EndsAreCounted
  BY <1>1, <1>2, WholeFileIsRest
<1>4. Typed
  BY <1>1, <1>2 DEF Typed
<1>5. EndsWhenDone
  BY <1>2 DEF EndsWhenDone
<1>. QED  BY <1>3, <1>4, <1>5 DEF IInv

-----------------------------------------------------------------------------
(* Filling the buffer.                                                      *)

\* What moves from the file into the buffer stays part of the rest.
LEMMA FillKeepsCut ==
  ASSUME IInv, Rest' = Rest, file' = file, lines' = lines
  PROVE  RestIsNext' /\ LinesAreCut' /\ EndsAreCounted'
<1>1. Cut' = Cut
  BY DEF Cut
<1>2. RestIsNext'
  BY <1>1 DEF IInv, RestIsNext
<1>3. LinesAreCut'
  BY <1>1 DEF IInv, LinesAreCut, LinesEndAt
<1>4. EndsAreCounted'
  BY <1>1 DEF IInv, EndsAreCounted, EndsUpTo
<1>. QED  BY <1>2, <1>3, <1>4

\* A text that is taken from the front of the file and pushed.
LEMMA PushKeepsRest ==
  ASSUME Typed, NEW n \in Nat, n <= Len(unread), n <= freeSpace(buffer)
  PROVE  LET b == push(buffer, First(n)) IN
           /\ First(n) \in Seq(Int) /\ Len(First(n)) = n
           /\ After(n) \in Seq(Int)
           /\ n = Len(unread) => After(n) = << >>
           /\ b \in Buffers
           /\ data(b) \o After(n) = Rest
<1>. DEFINE b == push(buffer, First(n))
<1>1. buffer \in Buffers /\ unread \in Seq(Int)
  BY DEF Typed
<1>2. n \in 0 .. Len(unread)
  BY <1>1
<1>3. /\ First(n) \in Seq(Int) /\ Len(First(n)) = n
      /\ After(n) \in Seq(Int) /\ Len(After(n)) = Len(unread) - n
      /\ First(n) \o After(n) = unread
  BY <1>1, <1>2, CutInTwo DEF First, After
<1>4. n = Len(unread) => After(n) = << >>
  BY <1>1, <1>3
<1>5. b \in Buffers /\ data(b) = data(buffer) \o First(n)
  BY <1>1, <1>3, PushAppends
<1>6. data(buffer) \in Seq(Int)
  BY <1>1, DataIsWindow
<1>7. (data(buffer) \o First(n)) \o After(n) = data(buffer) \o (First(n) \o After(n))
  <2>. DEFINE window == data(buffer)
              front  == First(n)
              back   == After(n)
  <2>1. window \in Seq(Int) /\ front \in Seq(Int) /\ back \in Seq(Int)
    BY <1>3, <1>6
  <2>. HIDE DEF window, front, back
  <2>2. (window \o front) \o back = window \o (front \o back)
    BY <2>1, JoinsThree
  <2>. QED  BY <2>2 DEF window, front, back
<1>. QED  BY <1>3, <1>4, <1>5, <1>7 DEF Rest

LEMMA ChunkIsSafe == IInv /\ readChunk => IInv'
<1>. SUFFICES ASSUME IInv, readChunk PROVE IInv'
  OBVIOUS
<1>. DEFINE n    == Min({freeSpace(buffer), Len(unread)})
            b    == push(buffer, First(n))
            read == seekEnd([buffer EXCEPT
                       !.str_ = WrittenAt(buffer, buffer.end_, First(n))], n)
<1>1. Typed /\ buffer \in Buffers /\ unread \in Seq(Int)
  BY DEF IInv, Typed
<1>2. freeSpace(buffer) \in Nat /\ Len(unread) \in Nat
  BY <1>1, BufferIsRecord DEF freeSpace
<1>3. /\ n \in Nat /\ n <= Len(unread) /\ n <= freeSpace(buffer)
      /\ n # freeSpace(buffer) => n = Len(unread)
  BY <1>2, MinOfTwo
<1>4. /\ unread' = After(n) /\ good' = (n = freeSpace(buffer))
      /\ buffer' = IF freeSpace(read) < LowSpace THEN pushOnLeft(read) ELSE read
      /\ at' = "cut" /\ file' = file /\ lines' = lines
  BY DEF readChunk
<1>. HIDE DEF n
<1>5. /\ First(n) \in Seq(Int) /\ Len(First(n)) = n
      /\ After(n) \in Seq(Int)
      /\ n = Len(unread) => After(n) = << >>
      /\ b \in Buffers
      /\ data(b) \o After(n) = Rest
  BY <1>1, <1>3, PushKeepsRest
<1>6. read = b
  BY <1>1, <1>5, ReadIsPush
<1>. HIDE DEF b, read
<1>7. buffer' \in Buffers /\ data(buffer') = data(b)
  BY <1>4, <1>5, <1>6, LeftKeepsData
<1>8. Rest' = Rest
  BY <1>4, <1>5, <1>7 DEF Rest
<1>9. Typed'
  BY <1>1, <1>4, <1>5, <1>7 DEF Typed
<1>10. EndsWhenDone'
  BY <1>3, <1>4, <1>5 DEF EndsWhenDone
<1>. QED  BY <1>4, <1>8, <1>9, <1>10, FillKeepsCut DEF IInv

LEMMA PushIsSafe == IInv /\ pushText => IInv'
<1>. SUFFICES ASSUME IInv, pushText PROVE IInv'
  OBVIOUS
<1>1. Typed /\ buffer \in Buffers /\ unread \in Seq(Int)
  BY DEF IInv, Typed
<1>2. freeSpace(buffer) \in Nat /\ Len(unread) \in Nat
  BY <1>1, BufferIsRecord DEF freeSpace
<1>3. /\ good' = (unread' # << >>) /\ at' = "cut"
      /\ file' = file /\ lines' = lines
  BY DEF pushText
<1>4. buffer' \in Buffers /\ unread' \in Seq(Int) /\ Rest' = Rest
  <2>1. CASE \E n \in 1 .. Min({freeSpace(buffer), Len(unread)}) :
               buffer' = push(buffer, First(n)) /\ unread' = After(n)
    <3>1. PICK n \in 1 .. Min({freeSpace(buffer), Len(unread)}) :
             buffer' = push(buffer, First(n)) /\ unread' = After(n)
      BY <2>1
    <3>2. n \in Nat /\ n <= Len(unread) /\ n <= freeSpace(buffer)
      BY <1>2, MinOfTwo
    <3>. QED  BY <1>1, <3>1, <3>2, PushKeepsRest DEF Rest
  <2>2. CASE /\ buffer' = IF available(buffer) = 0 THEN reset(buffer)
                                                  ELSE pushOnLeft(buffer)
             /\ unread' = unread
    <3>1. CASE available(buffer) = 0
      <4>1. data(buffer) = << >>
        BY <1>1, <3>1, DataIsWindow DEF available
      <4>. QED  BY <1>1, <2>2, <3>1, <4>1, ResetEmpties DEF Rest
    <3>2. CASE available(buffer) # 0
      BY <1>1, <2>2, <3>2, LeftKeepsData DEF Rest
    <3>. QED  BY <3>1, <3>2
  <2>3. CASE buffer' = buffer /\ unread' = unread
    BY <1>1, <2>3 DEF Rest
  <2>. QED  BY <2>1, <2>2, <2>3 DEF pushText
<1>5. Typed'
  BY <1>1, <1>3, <1>4 DEF Typed
<1>6. EndsWhenDone'
  BY <1>3 DEF EndsWhenDone
<1>. QED  BY <1>3, <1>4, <1>5, <1>6, FillKeepsCut DEF IInv

-----------------------------------------------------------------------------
(* Cutting a line.                                                          *)

\* What is left of the rest when its first m characters are dropped from the
\* window.
LEMMA DropFromRest ==
  ASSUME NEW window \in Seq(Int), NEW later \in Seq(Int), NEW m \in 0 .. Len(window)
  PROVE  LET left == SubSeq(window, m + 1, Len(window)) \o later
             all  == window \o later
         IN  /\ left \in Seq(Int) /\ all \in Seq(Int)
             /\ Len(all) = m + Len(left)
             /\ \A k \in 1 .. Len(left) : left[k] = all[m + k]
             /\ \A k \in 1 .. Len(window) : all[k] = window[k]
<1>. DEFINE front == SubSeq(window, 1, m)
            back  == SubSeq(window, m + 1, Len(window))
            left  == back \o later
            all   == window \o later
<1>1. /\ front \in Seq(Int) /\ Len(front) = m
      /\ back \in Seq(Int) /\ front \o back = window
  BY CutInTwo
<1>. HIDE DEF front, back
<1>2. left \in Seq(Int) /\ Len(left) \in Nat
  BY <1>1
<1>3. all = front \o left
  <2>1. front \in Seq(Int) /\ back \in Seq(Int)
    BY <1>1
  <2>2. (front \o back) \o later = front \o (back \o later)
    BY <2>1, JoinsThree
  <2>. QED  BY <1>1, <2>2
<1>. HIDE DEF left
<1>4. /\ front \o left \in Seq(Int)
      /\ Len(front \o left) = m + Len(left)
      /\ \A k \in 1 .. m + Len(left) : (front \o left)[k] =
                                        IF k <= m THEN front[k] ELSE left[k - m]
  BY <1>1, <1>2, ConcatProperties
<1>5. ASSUME NEW k \in 1 .. Len(left)
      PROVE  left[k] = (front \o left)[m + k]
  <2>1. m + k \in 1 .. m + Len(left) /\ ~(m + k <= m) /\ (m + k) - m = k
    BY <1>2
  <2>. QED  BY <1>4, <2>1
<1>6. ASSUME NEW k \in 1 .. Len(window)
      PROVE  all[k] = window[k]
  <2>1. k \in 1 .. Len(window) + Len(later) /\ k <= Len(window)
    OBVIOUS
  <2>. QED  BY <2>1, ConcatProperties
<1>. HIDE DEF all
<1>. QED  BY <1>2, <1>3, <1>4, <1>5, <1>6 DEF left, back, all

\* A line, and its end, are taken from the front of the rest.
LEMMA LineIsTaken ==
  ASSUME IInv, cutLine
  PROVE  LET len == getPosition(buffer, EndOfLine) IN
           /\ len \in Nat
           /\ Cut \in Nat /\ Cut' = (Cut + len) + 1
           /\ (Cut + len) + 1 <= Len(file)
           /\ \A k \in 1 .. len : file[Cut + k] # EndOfLine
           /\ file[(Cut + len) + 1] = EndOfLine
           /\ lines' = Append(lines, SubSeq(file, Cut + 1, Cut + len))
           /\ Typed' /\ RestIsNext'
<1>. DEFINE pos    == getPosition(buffer, EndOfLine)
            window == data(buffer)
<1>1. /\ buffer \in Buffers /\ unread \in Seq(Int) /\ file \in Seq(Int)
      /\ lines \in Seq(Seq(Int))
      /\ good \in BOOLEAN /\ at \in {"fill", "cut", "end"}
  BY DEF IInv, Typed
<1>2. /\ pos >= 0
      /\ lines' = Append(lines, SubSeq(window, 1, pos))
      /\ buffer' = seek(buffer, pos + 1)
      /\ file' = file /\ unread' = unread /\ good' = good /\ at' = at
  BY DEF cutLine
<1>3. /\ pos \in Nat /\ pos + 1 \in 1 .. Len(window)
      /\ window[pos + 1] = EndOfLine
      /\ \A k \in 1 .. pos : window[k] # EndOfLine
  BY <1>1, <1>2, PositionIsFirst
<1>4. window \in Seq(Int) /\ Len(window) \in Nat
  BY <1>1, DataIsWindow
<1>. HIDE DEF pos
<1>5. /\ buffer' \in Buffers
      /\ data(buffer') = SubSeq(window, (pos + 1) + 1, Len(window))
  <2>. DEFINE step == pos + 1
  <2>1. step \in 0 .. Len(data(buffer))
    BY <1>3
  <2>. HIDE DEF step
  <2>2. /\ seek(buffer, step) \in Buffers
        /\ data(seek(buffer, step)) = SubSeq(window, step + 1, Len(window))
    BY <1>1, <2>1, SeekDrops
  <2>. QED  BY <1>2, <2>2 DEF step
<1>6. Rest = window \o unread /\ Rest' = SubSeq(window, (pos + 1) + 1, Len(window)) \o unread
  BY <1>2, <1>5 DEF Rest
<1>. HIDE DEF window
<1>7. /\ Rest' \in Seq(Int) /\ Rest \in Seq(Int)
      /\ Len(Rest) = (pos + 1) + Len(Rest')
      /\ \A k \in 1 .. Len(Rest') : Rest'[k] = Rest[(pos + 1) + k]
      /\ \A k \in 1 .. Len(window) : Rest[k] = window[k]
  <2>. DEFINE m == pos + 1
  <2>1. m \in 0 .. Len(window)
    BY <1>3, <1>4
  <2>. HIDE DEF m
  <2>2. LET left == SubSeq(window, m + 1, Len(window)) \o unread
            all  == window \o unread
        IN  /\ left \in Seq(Int) /\ all \in Seq(Int)
            /\ Len(all) = m + Len(left)
            /\ \A k \in 1 .. Len(left) : left[k] = all[m + k]
            /\ \A k \in 1 .. Len(window) : all[k] = window[k]
    BY <1>1, <1>4, <2>1, DropFromRest
  <2>. QED  BY <1>6, <2>2 DEF m
<1>8. /\ Len(Rest) \in Nat /\ Len(Rest') \in Nat /\ Len(file) \in Nat
      /\ Len(Rest) <= Len(file)
      /\ \A k \in 1 .. Len(Rest) : Rest[k] = file[Cut + k]
  BY <1>1, <1>7 DEF IInv, RestIsNext
<1>9. /\ Cut \in Nat /\ Cut' = (Cut + pos) + 1
      /\ (Cut + pos) + 1 <= Len(file)
  BY <1>2, <1>3, <1>7, <1>8 DEF Cut
<1>10. /\ Len(window) <= Len(Rest)
       /\ \A k \in 1 .. Len(window) : file[Cut + k] = window[k]
  <2>1. Len(window) <= Len(Rest)
    BY <1>1, <1>4, <1>6, ConcatProperties
  <2>. QED  BY <1>4, <1>7, <1>8, <2>1
<1>11. SubSeq(window, 1, pos) \in Seq(Int)
       /\ SubSeq(window, 1, pos) = SubSeq(file, Cut + 1, Cut + pos)
  <2>. DEFINE text == SubSeq(window, 1, pos)
              part == SubSeq(file, Cut + 1, Cut + pos)
  <2>1. /\ text \in Seq(Int) /\ Len(text) = pos
        /\ \A k \in 1 .. pos : text[k] = window[k]
    BY <1>3, <1>4
  <2>2. /\ part \in Seq(Int) /\ Len(part) = pos
        /\ \A k \in 1 .. pos : part[k] = file[Cut + k]
    BY <1>1, <1>3, <1>8, <1>9
  <2>. HIDE DEF text, part
  <2>3. \A k \in 1 .. pos : text[k] = part[k]
    <3>1. \A k \in 1 .. pos : k \in 1 .. Len(window)
      BY <1>3, <1>4
    <3>. QED  BY <1>10, <2>1, <2>2, <3>1
  <2>4. text = part
    BY <2>1, <2>2, <2>3, SeqEqual
  <2>. QED  BY <2>1, <2>4 DEF text, part
<1>12. /\ \A k \in 1 .. pos : file[Cut + k] # EndOfLine
       /\ file[(Cut + pos) + 1] = EndOfLine
  <2>1. (Cut + pos) + 1 = Cut + (pos + 1)
    BY <1>3, <1>9
  <2>. QED  BY <1>3, <1>4, <1>10, <2>1, SMTT(30)
<1>13. Typed'
  <2>1. lines' \in Seq(Seq(Int))
    BY <1>1, <1>2, <1>11
  <2>. QED  BY <1>1, <1>2, <1>5, <2>1 DEF Typed
<1>14. RestIsNext'
  <2>1. \A k \in 1 .. Len(Rest') : Rest'[k] = file[Cut' + k]
    <3>. SUFFICES ASSUME NEW k \in 1 .. Len(Rest') PROVE Rest'[k] = file[Cut' + k]
      OBVIOUS
    <3>1. (pos + 1) + k \in 1 .. Len(Rest) /\ Cut + ((pos + 1) + k) = Cut' + k
      BY <1>3, <1>7, <1>8, <1>9
    <3>. QED  BY <1>7, <1>8, <3>1
  <2>2. Len(Rest') <= Len(file')
    BY <1>2, <1>3, <1>7, <1>8
  <2>. QED  BY <1>2, <2>1, <2>2 DEF RestIsNext
<1>. QED  BY <1>2, <1>3, <1>9, <1>11, <1>12, <1>13, <1>14 DEF pos, window

LEMMA CutIsSafe == IInv /\ cutLine => IInv'
<1>. SUFFICES ASSUME IInv, cutLine PROVE IInv'
  OBVIOUS
<1>. DEFINE len  == getPosition(buffer, EndOfLine)
            L    == Len(lines)
            last == (Cut + len) + 1
<1>1. /\ len \in Nat
      /\ Cut \in Nat /\ Cut' = last
      /\ last <= Len(file)
      /\ \A k \in 1 .. len : file[Cut + k] # EndOfLine
      /\ file[last] = EndOfLine
      /\ lines' = Append(lines, SubSeq(file, Cut + 1, Cut + len))
      /\ Typed' /\ RestIsNext'
  BY LineIsTaken
<1>2. /\ file' = file /\ unread' = unread /\ good' = good /\ at' = "cut"
  BY DEF cutLine
<1>3. /\ file \in Seq(Int) /\ Len(file) \in Nat
      /\ lines \in Seq(Seq(Int)) /\ L \in Nat
  BY DEF IInv, Typed
<1>. HIDE DEF len
<1>4. /\ Len(lines') = L + 1 /\ last \in Nat
      /\ lines'[L + 1] = SubSeq(file, Cut + 1, Cut + len)
      /\ \A n \in 1 .. L : lines'[n] = lines[n]
  BY <1>1, <1>3
<1>5. LinesAreCut'
  <2>1. PICK stop : LinesEndAt(stop)
    BY DEF IInv, LinesAreCut
  <2>. DEFINE further == [n \in 0 .. L + 1 |-> IF n <= L THEN stop[n] ELSE last]
  <2>2. /\ stop \in [0 .. L -> 0 .. Len(file)]
        /\ stop[0] = 0 /\ stop[L] = Cut
        /\ \A n \in 1 .. L :
             /\ stop[n - 1] < stop[n]
             /\ file[stop[n]] = EndOfLine
             /\ lines[n] = SubSeq(file, stop[n - 1] + 1, stop[n] - 1)
    BY <2>1 DEF LinesEndAt
  <2>3. /\ further \in [0 .. L + 1 -> 0 .. Len(file)]
        /\ \A n \in 0 .. L : further[n] = stop[n]
        /\ further[L + 1] = last
    <3>. HIDE DEF last
    <3>. QED  BY <1>1, <1>3, <1>4, <2>2
  <2>. HIDE DEF further
  <2>4. ASSUME NEW n \in 1 .. L + 1
        PROVE  /\ further[n - 1] < further[n]
               /\ file[further[n]] = EndOfLine
               /\ lines'[n] = SubSeq(file, further[n - 1] + 1, further[n] - 1)
    <3>1. CASE n \in 1 .. L
      <4>1. n \in 0 .. L /\ n - 1 \in 0 .. L
        BY <1>3, <3>1
      <4>2. further[n] = stop[n] /\ further[n - 1] = stop[n - 1] /\ lines'[n] = lines[n]
        BY <1>4, <2>3, <3>1, <4>1
      <4>. QED  BY <2>2, <3>1, <4>2
    <3>2. CASE n = L + 1
      <4>1. n - 1 = L /\ L \in 0 .. L /\ 0 \in 0 .. L
        BY <1>3, <3>2
      <4>2. further[n] = last /\ further[n - 1] = Cut
        BY <2>2, <2>3, <3>2, <4>1
      <4>3. last - 1 = Cut + len /\ Cut < last
        BY <1>1
      <4>4. lines'[n] = SubSeq(file, Cut + 1, Cut + len)
        BY <1>4, <3>2
      <4>. HIDE DEF last
      <4>. QED  BY <1>1, <4>2, <4>3, <4>4
    <3>. QED  BY <1>3, <3>1, <3>2
  <2>5. further[0] = 0
    BY <1>3, <2>2, <2>3
  <2>6. PICK next : next = further
    OBVIOUS
  <2>7. LinesEndAt(next)'
    <3>. HIDE DEF last
    <3>. QED  BY <1>1, <1>2, <1>4, <2>3, <2>4, <2>5, <2>6 DEF LinesEndAt
  <2>. QED  BY <2>7 DEF LinesAreCut
<1>6. EndsAreCounted'
  <2>1. EndsUpTo(Cut)' = EndsUpTo(Cut) \cup {last}
    <3>. DEFINE old == EndsUpTo(Cut)
                new == EndsUpTo(Cut)'
    <3>1. /\ new = {k \in 1 .. Len(file) : k <= last /\ file[k] = EndOfLine}
          /\ old = {k \in 1 .. Len(file) : k <= Cut /\ file[k] = EndOfLine}
      BY <1>1, <1>2, <1>3 DEF EndsUpTo
    <3>2. ASSUME NEW k \in 1 .. Len(file), k <= last, file[k] = EndOfLine
          PROVE  k <= Cut \/ k = last
      <4>1. ~(k - Cut \in 1 .. len)
        <5>1. ASSUME k - Cut \in 1 .. len PROVE FALSE
          <6>1. Cut + (k - Cut) = k
            BY <1>1, <1>3
          <6>. QED  BY <1>1, <3>2, <5>1, <6>1
        <5>. QED  BY <5>1
      <4>. QED  BY <1>1, <1>3, <3>2, <4>1
    <3>3. last \in 1 .. Len(file) /\ Cut <= last
      BY <1>1, <1>3, <1>4
    <3>. HIDE DEF old, new, last
    <3>4. \A k \in 1 .. Len(file) : k <= Cut => k <= last
      BY <1>1, <1>3, <1>4, <3>3
    <3>5. new \subseteq old \cup {last}
      BY <3>1, <3>2
    <3>6. last \in new
      BY <1>1, <1>4, <3>1, <3>3
    <3>7. old \subseteq new
      BY <3>1, <3>4
    <3>8. new = old \cup {last}
      BY <3>5, <3>6, <3>7
    <3>. QED  BY <3>8 DEF old, new
  <2>2. last \notin EndsUpTo(Cut)
    <3>1. ~(last <= Cut)
      BY <1>1
    <3>. QED  BY <3>1 DEF EndsUpTo
  <2>3. IsFiniteSet(EndsUpTo(Cut)) /\ Cardinality(EndsUpTo(Cut)) = L
    BY DEF IInv, EndsAreCounted
  <2>4. /\ IsFiniteSet(EndsUpTo(Cut) \cup {last})
        /\ Cardinality(EndsUpTo(Cut) \cup {last}) = L + 1
    <3>. HIDE DEF last, L
    <3>. QED  BY <2>2, <2>3, FS_AddElement
  <2>5. IsFiniteSet(EndsUpTo(Cut)') /\ Cardinality(EndsUpTo(Cut)') = Len(lines')
    BY <1>4, <2>1, <2>4
  <2>6. file'[Cut'] = EndOfLine
    BY <1>1, <1>2
  <2>. QED  BY <2>5, <2>6 DEF EndsAreCounted
<1>7. EndsWhenDone'
  BY <1>2 DEF IInv, EndsWhenDone
<1>. QED  BY <1>1, <1>5, <1>6, <1>7 DEF IInv

LEMMA NoLineIsSafe == IInv /\ noLine => IInv'
<1>. SUFFICES ASSUME IInv, noLine PROVE IInv'
  OBVIOUS
<1>1. /\ file' = file /\ buffer' = buffer /\ unread' = unread
      /\ good' = good /\ lines' = lines
      /\ at' = IF good THEN "fill" ELSE "end"
  BY DEF noLine
<1>2. buffer \in Buffers
  BY DEF IInv, Typed
<1>3. Rest' = Rest
  BY <1>1 DEF Rest
<1>4. Typed'
  BY <1>1 DEF IInv, Typed
<1>5. \A k \in 1 .. Len(data(buffer)) : data(buffer)[k] # EndOfLine
  <2>1. CASE available(buffer) = 0
    BY <1>2, <2>1, DataIsWindow DEF available
  <2>2. CASE getPosition(buffer, EndOfLine) < 0
    BY <1>2, <2>2, PositionIsFirst
  <2>. QED  BY <2>1, <2>2 DEF noLine
<1>6. EndsWhenDone'
  <2>1. ~good => unread = << >>
    BY DEF IInv, EndsWhenDone
  <2>2. at' = "end" => ~good
    BY <1>1
  <2>. QED  BY <1>1, <1>5, <2>1, <2>2 DEF EndsWhenDone
<1>. QED  BY <1>1, <1>3, <1>4, <1>6, FillKeepsCut DEF IInv

LEMMA StepIsSafe == IInv /\ [Next]_vars => IInv'
<1>. SUFFICES ASSUME IInv, [Next]_vars PROVE IInv'
  OBVIOUS
<1>1. CASE readChunk
  BY <1>1, ChunkIsSafe
<1>2. CASE pushText
  BY <1>2, PushIsSafe
<1>3. CASE cutLine
  BY <1>3, CutIsSafe
<1>4. CASE noLine
  BY <1>4, NoLineIsSafe
<1>5. CASE UNCHANGED vars
  BY <1>5 DEF vars, IInv, Typed, RestIsNext, LinesAreCut, LinesEndAt,
     EndsAreCounted, EndsWhenDone, EndsUpTo, Rest, Cut
<1>. QED  BY <1>1, <1>2, <1>3, <1>4, <1>5 DEF Next, Done

LEMMA IInvAlways == Spec => []IInv
BY InitIsSafe, StepIsSafe, PTL DEF Spec

-----------------------------------------------------------------------------
(* What it implies.                                                         *)

\* The window and what is unread are the file from Cut on.
LEMMA RestIsEndOfFile ==
  ASSUME IInv
  PROVE  /\ Cut \in 0 .. Len(file) /\ Len(file) \in Nat
         /\ Rest = SubSeq(file, Cut + 1, Len(file))
<1>1. /\ file \in Seq(Int) /\ buffer \in Buffers /\ unread \in Seq(Int)
      /\ Len(Rest) <= Len(file)
      /\ \A k \in 1 .. Len(Rest) : Rest[k] = file[Cut + k]
  BY DEF IInv, Typed, RestIsNext
<1>2. Rest \in Seq(Int)
  BY <1>1, DataIsWindow, ConcatProperties DEF Rest
<1>3. /\ Len(file) \in Nat /\ Len(Rest) \in Nat
      /\ Cut \in 0 .. Len(file) /\ Len(file) - Cut = Len(Rest)
  BY <1>1, <1>2 DEF Cut
<1>. DEFINE back == SubSeq(file, Cut + 1, Len(file))
            c    == Cut
<1>4. /\ back \in Seq(Int) /\ Len(back) = Len(Rest)
      /\ \A k \in 1 .. Len(Rest) : back[k] = file[Cut + k]
  <2>1. c \in 0 .. Len(file)
    BY <1>3
  <2>. HIDE DEF c
  <2>2. /\ SubSeq(file, c + 1, Len(file)) \in Seq(Int)
        /\ Len(SubSeq(file, c + 1, Len(file))) = Len(file) - c
        /\ \A k \in 1 .. Len(file) - c : SubSeq(file, c + 1, Len(file))[k] = file[c + k]
    BY <1>1, <2>1, CutInTwo
  <2>. QED  BY <1>3, <2>2 DEF c
<1>. HIDE DEF back
<1>5. Rest = back
  BY <1>1, <1>2, <1>4, SeqEqual
<1>. QED  BY <1>3, <1>5 DEF back

\* A line and its end.
Ended == [n \in DOMAIN lines |-> Append(lines[n], EndOfLine)]

LEMMA EndedIsPart ==
  ASSUME Typed, NEW stop, LinesEndAt(stop), NEW n \in 1 .. Len(lines)
  PROVE  /\ stop[n - 1] \in Nat /\ stop[n] \in 1 .. Len(file)
         /\ stop[n - 1] < stop[n]
         /\ Ended[n] = SubSeq(file, stop[n - 1] + 1, stop[n])
<1>. DEFINE a == stop[n - 1]
            b == stop[n]
            part == SubSeq(file, a + 1, b)
            line == SubSeq(file, a + 1, b - 1)
<1>1. /\ file \in Seq(Int) /\ Len(file) \in Nat
      /\ lines \in Seq(Seq(Int)) /\ Len(lines) \in Nat
  BY DEF Typed
<1>2. /\ stop \in [0 .. Len(lines) -> 0 .. Len(file)]
      /\ a < b /\ file[b] = EndOfLine
      /\ lines[n] = line
  BY DEF LinesEndAt
<1>3. n - 1 \in 0 .. Len(lines) /\ n \in 0 .. Len(lines) /\ n \in DOMAIN lines
  BY <1>1
<1>4. a \in Nat /\ b \in 1 .. Len(file)
  BY <1>1, <1>2, <1>3
<1>. HIDE DEF a, b
<1>5. part = line \o <<file[b]>>
  <2>1. a + 1 \in 1 .. Len(file) /\ b \in (a + 1) .. Len(file)
    BY <1>1, <1>2, <1>4
  <2>. QED  BY <1>1, <2>1, SubSeqRecursiveSecond
<1>. HIDE DEF line, part
<1>6. line \in Seq(Int)
  <2>1. lines[n] \in Seq(Int)
    BY <1>1, ElementOfSeq
  <2>. QED  BY <1>2, <2>1
<1>7. Append(line, EndOfLine) = line \o <<EndOfLine>>
  <2>1. EndOfLine \in Int
    BY DEF EndOfLine
  <2>. QED  BY <1>6, <2>1, AppendIsConcat
<1>8. Append(line, EndOfLine) = part
  BY <1>2, <1>5, <1>7
<1>9. Ended[n] = part
  BY <1>2, <1>3, <1>8 DEF Ended
<1>. QED  BY <1>2, <1>4, <1>9 DEF a, b, part

\* Two parts of a sequence, one behind the other.
LEMMA PartsJoin ==
  ASSUME NEW s \in Seq(Int), NEW a \in Nat, NEW b \in Nat, a <= b, b <= Len(s)
  PROVE  SubSeq(s, 1, a) \o SubSeq(s, a + 1, b) = SubSeq(s, 1, b)
<1>1. 1 \in 1 .. Len(s) + 1 /\ a \in (1 - 1) .. Len(s) /\ b \in a .. Len(s)
  OBVIOUS
<1>. QED  BY <1>1, ConcatAdjacentSubSeq

\* The lines with their ends, one behind the other, are the file up to Cut.
LEMMA LinesMakeUpFront ==
  ASSUME IInv
  PROVE  FlattenSeq(Ended) = SubSeq(file, 1, Cut)
<1>. DEFINE L == Len(lines)
<1>1. PICK stop : LinesEndAt(stop)
  BY DEF IInv, LinesAreCut
<1>2. /\ stop \in [0 .. L -> 0 .. Len(file)]
      /\ stop[0] = 0 /\ stop[L] = Cut
  BY <1>1 DEF LinesEndAt
<1>3. /\ file \in Seq(Int) /\ Len(file) \in Nat
      /\ lines \in Seq(Seq(Int)) /\ L \in Nat
      /\ Typed
  BY DEF IInv, Typed
<1>4. Len(Ended) = L
  BY <1>3 DEF Ended
<1>5. CASE L = 0
  <2>1. Cut = 0
    BY <1>2, <1>5
  <2>2. SubSeq(file, 1, Cut) = << >>
    BY <1>3, <2>1, SubSeqEmpty
  <2>3. Ended = << >>
    BY <1>3, <1>5 DEF Ended
  <2>4. FlattenSeq(Ended) = Ended
    BY <1>4, <1>5 DEF FlattenSeq
  <2>. QED  BY <2>2, <2>3, <2>4
<1>6. CASE L # 0
  <2>. DEFINE Turn(g, n) == IF n = 1 THEN Ended[n] ELSE g[n - 1] \o Ended[n]
              flatten == CHOOSE g : g = [n \in 1 .. L |-> Turn(g, n)]
              f   == [n \in 1 .. L |-> SubSeq(file, 1, stop[n])]
              bad == {n \in 1 .. L : flatten[n] # f[n]}
  <2>1. FlattenSeq(Ended) = flatten[L]
    BY <1>4, <1>6 DEF FlattenSeq
  <2>2. ASSUME NEW n \in 1 .. L
        PROVE  f[n] = Turn(f, n)
    <3>1. /\ stop[n - 1] \in Nat /\ stop[n] \in 1 .. Len(file)
          /\ stop[n - 1] < stop[n]
          /\ Ended[n] = SubSeq(file, stop[n - 1] + 1, stop[n])
      BY <1>1, <1>3, EndedIsPart
    <3>2. CASE n = 1
      <4>1. Ended[n] = SubSeq(file, 1, stop[n])
        <5>1. stop[n - 1] + 1 = 1
          BY <1>2, <3>2
        <5>. QED  BY <3>1, <5>1
      <4>. QED  BY <3>2, <4>1
    <3>3. CASE n # 1
      <4>1. n - 1 \in 1 .. L
        BY <1>3, <3>3
      <4>2. f[n - 1] = SubSeq(file, 1, stop[n - 1]) /\ f[n] = SubSeq(file, 1, stop[n])
        BY <4>1
      <4>. DEFINE a == stop[n - 1]
                  b == stop[n]
      <4>3. a \in Nat /\ b \in Nat /\ a <= b /\ b <= Len(file)
        BY <1>3, <3>1
      <4>4. SubSeq(file, 1, a) \o SubSeq(file, a + 1, b) = SubSeq(file, 1, b)
        <5>. HIDE DEF a, b
        <5>. QED  BY <1>3, <4>3, PartsJoin
      <4>. HIDE DEF f
      <4>. QED  BY <3>1, <3>3, <4>2, <4>4
    <3>. QED  BY <3>2, <3>3
  <2>3. f = [n \in 1 .. L |-> Turn(f, n)]
    BY <2>2
  <2>4. flatten = [n \in 1 .. L |-> Turn(flatten, n)]
    <3>. HIDE DEF Turn, L, f
    <3>. QED  BY <2>3, Zenon
  <2>. HIDE DEF flatten
  <2>5. ASSUME bad # {} PROVE FALSE
    <3>1. PICK m \in bad : \A k \in bad : m <= k
      <4>1. bad \in SUBSET Nat
        OBVIOUS
      <4>. HIDE DEF bad
      <4>. QED  BY <2>5, <4>1, LeastNatural
    <3>2. m \in 1 .. L /\ flatten[m] # f[m]
      OBVIOUS
    <3>. HIDE DEF f
    <3>3. m # 1
      BY <2>2, <2>4, <3>2
    <3>4. m - 1 \in 1 .. L /\ ~(m <= m - 1)
      BY <3>2, <3>3
    <3>5. flatten[m - 1] = f[m - 1]
      BY <3>1, <3>4
    <3>6. flatten[m] = flatten[m - 1] \o Ended[m] /\ f[m] = f[m - 1] \o Ended[m]
      BY <2>2, <2>4, <3>2, <3>3
    <3>. QED  BY <3>2, <3>5, <3>6
  <2>6. L \in 1 .. L
    BY <1>3, <1>6
  <2>7. flatten[L] = f[L]
    <3>. HIDE DEF f
    <3>. QED  BY <2>5, <2>6
  <2>. QED  BY <1>2, <2>1, <2>6, <2>7
<1>. QED  BY <1>5, <1>6

\* Max finds the greatest element.
LEMMA MaxIsGreatest ==
  ASSUME NEW T \in SUBSET Int, NEW m \in T, \A k \in T : k <= m
  PROVE  Max(T) = m
<1>1. m >= m /\ \A k \in T : m >= k
  OBVIOUS
<1>2. \A k \in T : (\A other \in T : k >= other) => k = m
  OBVIOUS
<1>. QED  BY <1>1, <1>2 DEF Max

LEMMA IInvImpliesType == IInv => TypeOK
<1>. SUFFICES ASSUME IInv PROVE TypeOK
  OBVIOUS
<1>1. buffer \in Buffers /\ good \in BOOLEAN /\ at \in {"fill", "cut", "end"}
  BY DEF IInv, Typed
<1>. QED  BY <1>1, BufferIsRecord DEF TypeOK

LEMMA IInvImpliesNothingLost == IInv => NothingLostOrRepeated
<1>. SUFFICES ASSUME IInv PROVE NothingLostOrRepeated
  OBVIOUS
<1>. DEFINE front  == FlattenSeq(Ended)
            window == data(buffer)
<1>1. /\ file \in Seq(Int) /\ buffer \in Buffers /\ unread \in Seq(Int)
  BY DEF IInv, Typed
<1>2. /\ Cut \in 0 .. Len(file)
      /\ Rest = SubSeq(file, Cut + 1, Len(file))
      /\ front = SubSeq(file, 1, Cut)
  BY RestIsEndOfFile, LinesMakeUpFront
<1>3. front \in Seq(Int) /\ front \o Rest = file
  BY <1>1, <1>2, CutInTwo
<1>4. window \in Seq(Int) /\ Rest = window \o unread
  BY <1>1, DataIsWindow DEF Rest
<1>. HIDE DEF front, window
<1>5. (front \o window) \o unread = front \o (window \o unread)
  <2>1. front \in Seq(Int) /\ window \in Seq(Int) /\ unread \in Seq(Int)
    BY <1>1, <1>3, <1>4
  <2>. QED  BY <2>1, JoinsThree
<1>. QED  BY <1>3, <1>4, <1>5 DEF front, window, NothingLostOrRepeated, Ended

LEMMA IInvImpliesAllCut == IInv => OnlyUnendedLineLeft
<1>. SUFFICES ASSUME IInv, at = "end" PROVE OnlyUnendedLineLeft
  BY DEF OnlyUnendedLineLeft
<1>. DEFINE ends   == {k \in DOMAIN file : file[k] = EndOfLine}
            window == data(buffer)
<1>1. /\ file \in Seq(Int) /\ buffer \in Buffers /\ Len(file) \in Nat
  BY DEF IInv, Typed
<1>2. /\ unread = << >>
      /\ \A k \in 1 .. Len(window) : window[k] # EndOfLine
  BY DEF IInv, EndsWhenDone
<1>3. window \in Seq(Int) /\ Rest = window
  BY <1>1, <1>2, DataIsWindow, ConcatEmptySeq DEF Rest
<1>. HIDE DEF window
<1>4. /\ Cut \in 0 .. Len(file)
      /\ window = SubSeq(file, Cut + 1, Len(file))
  BY <1>3, RestIsEndOfFile
<1>5. /\ Len(window) = Len(file) - Cut
      /\ \A k \in 1 .. Len(file) - Cut : window[k] = file[Cut + k]
  <2>. DEFINE c == Cut
  <2>1. c \in 0 .. Len(file) /\ window = SubSeq(file, c + 1, Len(file))
    BY <1>4
  <2>. HIDE DEF c
  <2>2. /\ Len(SubSeq(file, c + 1, Len(file))) = Len(file) - c
        /\ \A k \in 1 .. Len(file) - c : SubSeq(file, c + 1, Len(file))[k] = file[c + k]
    BY <1>1, <2>1, CutInTwo
  <2>. QED  BY <2>1, <2>2 DEF c
<1>6. ASSUME NEW k \in ends
      PROVE  k \in 1 .. Len(file) /\ k <= Cut
  <2>1. k \in 1 .. Len(file) /\ file[k] = EndOfLine
    BY <1>1
  <2>2. ASSUME ~(k <= Cut) PROVE FALSE
    <3>1. k - Cut \in 1 .. Len(file) - Cut /\ Cut + (k - Cut) = k
      BY <1>1, <1>4, <2>1, <2>2
    <3>. QED  BY <1>2, <1>5, <2>1, <3>1
  <2>. QED  BY <2>1, <2>2
<1>7. ends = EndsUpTo(Cut)
  BY <1>6 DEF EndsUpTo
<1>8. Len(lines) = Cardinality(ends)
  BY <1>7 DEF IInv, EndsAreCounted
<1>9. Max(ends \cup {0}) = Cut
  <2>1. Cut \in ends \cup {0}
    <3>1. Cut = 0 \/ file[Cut] = EndOfLine
      BY DEF IInv, EndsAreCounted
    <3>2. Cut # 0 => Cut \in DOMAIN file
      BY <1>1, <1>4
    <3>. QED  BY <3>1, <3>2
  <2>2. ends \cup {0} \in SUBSET Int /\ \A k \in ends \cup {0} : k <= Cut
    BY <1>4, <1>6
  <2>. HIDE DEF ends
  <2>. QED  BY <2>1, <2>2, MaxIsGreatest
<1>. QED  BY <1>2, <1>4, <1>8, <1>9 DEF OnlyUnendedLineLeft, window

-----------------------------------------------------------------------------
(* The theorems.                                                            *)

\* Whatever the file, the capacity and the way it is read, the window stays
\* within the buffer: SimpleBuffer, which checks nothing, is never given more
\* than it has room for (SimpleBuffer.h:36-52, main.cpp:90-96).
THEOREM TypeIsOK == Spec => []TypeOK
BY IInvAlways, IInvImpliesType, PTL

\* Lines, window and what is unread make up the file at any time, wherever a
\* line lies across two chunks and however often the window was moved left.
THEOREM NothingIsLostOrRepeated == Spec => []NothingLostOrRepeated
BY IInvAlways, IInvImpliesNothingLost, PTL

\* When reading ends every line with an end was processed, and what is left in
\* the buffer is the last line if it has none (main.cpp:93).
THEOREM AllEndedLinesAreCut == Spec => []OnlyUnendedLineLeft
BY IInvAlways, IInvImpliesAllCut, PTL
=============================================================================
