------------------------------ MODULE MCParser ------------------------------
(***************************************************************************)
(* The fields of a line by splitting it at its commas, to compare Parser   *)
(* with.                                                                   *)
(***************************************************************************)
EXTENDS Parser

\* The index of the nth comma, 0 for n = 0, and just past the line if there
\* are fewer.
CommaAt(n) ==
  LET commas == {k \in DOMAIN line : line[k] = Comma}
      nth    == {k \in commas : Cardinality({m \in commas : m <= k}) = n}
  IN  IF n = 0 THEN 0 ELSE Min(nth \cup {Len(line) + 1})

\* The nth field of the line, without the blanks around it.
Field(n) ==
  LET text == SubSeq(line, CommaAt(n - 1) + 1, CommaAt(n) - 1)
      ink  == {k \in DOMAIN text : text[k] # Blank}
  IN  IF ink = {} THEN << >> ELSE SubSeq(text, Min(ink), Max(ink))

\* Where a field stands: in a trade, orderId and side are not there.
Place(f) ==
  LET n == CHOOSE k \in DOMAIN Fields : Fields[k] = f
  IN  IF message.action = "T" /\ f \in {"qty", "price"} THEN n - 2 ELSE n

Text(f) == Field(Place(f))

\* The number at the front of a text, up to the first other character.
FrontNumber(text) ==
  LET others == {k \in DOMAIN text : text[k] \notin Digits}
  IN  SubSeq(text, 1, Min(others \cup {Len(text) + 1}) - 1)

\* The value of a sequence of digits.
Decimal(digits) ==
  FoldLeft(LAMBDA value, d : 10 * value + DigitValue[d], 0, digits)

IsNumber(text) == text # << >> /\ Range(text) \subseteq Digits

\* The price field without the blanks and slashes in front.
PriceText ==
  LET ink == {k \in DOMAIN Text("price") : Text("price")[k] \notin {Blank, "/"}}
  IN  SubSeq(Text("price"), Min(ink \cup {Len(Text("price")) + 1}),
             Len(Text("price")))

\* A price in units of the last decimal that is kept.
PriceOf(integer, decimals) ==
  LET kept == SubSeq(decimals, 1, Min({Len(decimals), PricePrecision}))
  IN  Decimal(integer) * PowerOfTen[PricePrecision]
      + Decimal(kept) * PowerOfTen[PricePrecision - Len(kept)]

\* Decimals, if a point follows the integer part.
PriceDecimals ==
  LET integer == FrontNumber(PriceText)
      rest    == SubSeq(PriceText, Len(integer) + 1, Len(PriceText))
  IN  IF rest # << >> /\ rest[1] = "." THEN FrontNumber(Tail(rest)) ELSE << >>

-----------------------------------------------------------------------------

TypeOK ==
  /\ line \in Seq(Char) /\ Len(line) <= MaxLen
  /\ ended \in BOOLEAN
  /\ i \in 1 .. (Len(line) + 1)
  /\ at \in {"firstField", "nextField", "extract"}
  /\ field \in Range(Fields)
  /\ start \in 0 .. Len(line)
  /\ dot \in 0 .. Len(line)
  /\ message \in [action : Actions \cup {"0"}, orderId : Nat,
                  side : Sides \cup {"0"}, qty : Nat, price : Nat]
  /\ result \in {"parsing", "accepted"} \cup Errors

\* An accepted line has, between its commas, the values that parse returns:
\* the index that goes back and forth over the comma of a trade, or that is
\* left on a blank, never makes it read one field for another.
AcceptedFieldsAreTheLines ==
  result = "accepted" =>
    /\ Text("action") = <<message.action>>
    /\ message.action # "T" =>
         /\ IsNumber(Text("orderId"))
         /\ message.orderId = Decimal(Text("orderId"))
         /\ Text("side") = <<message.side>>
    /\ IsNumber(Text("qty")) /\ message.qty = Decimal(Text("qty"))
    /\ message.price = PriceOf(FrontNumber(PriceText), PriceDecimals)

\* What is accepted is within the bounds, and no value is 0: FeedHandler
\* relies on it.
AcceptedWithinBounds ==
  result = "accepted" =>
    /\ message.qty \in 1 .. (PowerOfTen[QtyDigits] - 1)
    /\ message.action # "T" => message.orderId \in 1 .. (PowerOfTen[OrderIdDigits] - 1)
    /\ message.price \in 1 .. (PowerOfTen[PriceDigits + PricePrecision] - 1)

\* What the counters of the summary say of a field.
Negative(f) == Text(f) # << >> /\ Text(f)[1] = "-"
Missing(f)  == Text(f) = << >>
TooLong(f, max)  == Len(FrontNumber(Text(f))) > max
Zero(f)     == LET n == FrontNumber(Text(f)) IN n # << >> /\ Decimal(n) = 0

Tells(counter) ==
  /\ counter = "missingActions"        => Missing("action")
  /\ counter = "negativeOrderIds"      => Negative("orderId")
  /\ counter = "missingOrderIds"       => Missing("orderId")
  /\ counter = "outOfBoundsOrderIds"   => TooLong("orderId", OrderIdDigits)
  /\ counter = "zeroOrderIds"          => Zero("orderId")
  /\ counter = "missingSides"          => Missing("side")
  /\ counter = "negativeQuantities"    => Negative("qty")
  /\ counter = "missingQuantities"     => Missing("qty")
  /\ counter = "outOfBoundsQuantities" => TooLong("qty", QtyDigits)
  /\ counter = "zeroQuantities"        => Zero("qty")
  /\ counter = "negativePrices"        => PriceText # << >> /\ PriceText[1] = "-"
  /\ counter = "missingPrices"         => PriceText = << >>
  /\ counter = "outOfBoundsPrices"     => Len(FrontNumber(PriceText)) > PriceDigits
  /\ counter = "zeroPrices"            => PriceOf(FrontNumber(PriceText),
                                                 PriceDecimals) = 0

\* The summary counts negative, missing, zero and out-of-bounds values: each
\* of these counters speaks of the field that the line really has there.
CounterTellsTheField == Tells(result)

\* Where a comment, or a line without anything, is.
Commented == IsPrefix(<<"/", "/">>, Text("action"))
AllBlank  == ended /\ Range(line) \subseteq {Blank}

\* The comma in front of the price is not there.
Incomplete == ended /\ CommaAt(Place("price") - 1) > Len(line)

\* A text that is another letter, or a letter with something behind it.
Wrong(text, letters)           == text # << >> /\ text[1] \notin letters
CorruptedLetter(text, letters) == Len(text) > 1 /\ text[1] \in letters

\* In front of the line, a slash that starts no comment.
CorruptedComment(text) == text # << >> /\ text[1] = "/" /\ ~Commented

\* A number with another character in or behind it, but no sign in front.
CorruptedNumber(text) == text # << >> /\ text[1] # "-" /\ ~IsNumber(text)

\* What follows a number at the front of a text.
Behind(text) == SubSeq(text, Len(FrontNumber(text)) + 1, Len(text))

\* What follows a price: from a second point on, if there are two.
BehindPrice(rest) ==
  IF rest # << >> /\ rest[1] = "." THEN Behind(Tail(rest)) ELSE rest

\* Another character in front of the price or next to it.
CorruptedPrice(text) ==
  LET rest == BehindPrice(Behind(text))
  IN  /\ text # << >>
      /\ IF text[1] \notin Digits
         THEN text[1] # "-"
         ELSE rest # << >> /\ rest[1] \notin {Blank, "/"}

\* One of the fields that the message has is corrupted.
Corrupted ==
  \/ CorruptedComment(Text("action"))
  \/ CorruptedLetter(Text("action"), Actions)
  \/ message.action # "T" /\ CorruptedNumber(Text("orderId"))
  \/ message.action # "T" /\ CorruptedLetter(Text("side"), Sides)
  \/ CorruptedNumber(Text("qty"))
  \/ CorruptedPrice(PriceText)

\* The six other counters of a rejected line: it is blank, commented or
\* incomplete as a whole, or one of its fields, split at the commas, has a
\* wrong letter or a character that does not belong there.
CounterTellsTheLine ==
  /\ result = "commentedLines"     => Commented
  /\ result = "blankLines"         => AllBlank
  /\ result = "IncompleteMessages" => Incomplete
  /\ result = "corruptedMessages"  => Corrupted
  /\ result = "wrongActions"       => Wrong(Text("action"), Actions)
  /\ result = "wrongSides"         => Wrong(Text("side"), Sides)

\* README (5)(f) has missing prices noted; "950 // cancel" shows that what
\* follows two slashes is a comment.  So a line whose price could only be in
\* its comment has none.
PriceNotInComment ==
  result = "accepted" => ~IsPrefix(<<"/", "/">>, Text("price"))
=============================================================================
