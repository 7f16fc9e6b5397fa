------------------------------- MODULE Parser -------------------------------
(***************************************************************************)
(* Parser::parse on one line: a scanner that goes over the characters once *)
(* and ends either with the fields of a message or with one error counter. *)
(*                                                                         *)
(* A step is one turn of a loop of the code.  The line is any line: its    *)
(* characters, and its end, are chosen when the parser first looks at      *)
(* them.  Characters that the code treats alike need not all be in Char,   *)
(* and two digits, one of them 0, are enough to tell numbers apart.        *)
(***************************************************************************)
EXTENDS Decoder, FiniteSets

CONSTANTS
  Char,             \* the characters of lines
  MaxLen,           \* bound on the length of a line
  OrderIdDigits,    \* nbCharOfOrderId: 9 in the code
  QtyDigits,        \* nbCharOfOrderQty: 6
  PriceDigits,      \* nbCharOfOrderPrice: 9
  PricePrecision    \* nbCharOfPricePrecision: 6

ASSUME ParserAssumption ==
  /\ Char \subseteq STRING
  /\ {MaxLen, OrderIdDigits, QtyDigits, PriceDigits, PricePrecision} \subseteq Nat

VARIABLES
  line,      \* str, as far as the parser has looked
  ended,     \* has it seen that Len(line) = len?
  i,         \* the index, from 1
  at,        \* the lambda that runs: firstField, nextField or an extraction
  field,     \* the extraction that runs, or that comes after nextField
  start,     \* first digit of the number that is scanned, 0 for none yet
  dot,       \* its decimal point, 0 for none yet
  message,   \* action_, orderId_, side_, qty_, price_
  result     \* what parse returned: accepted, or the counter it increased

vars == <<line, ended, i, at, field, start, dot, message, result>>

\* The characters around values and between them.
Blank == " "
Comma == ","

Actions == {"A", "X", "M", "T"}
Sides   == {"B", "S"}

Fields == <<"action", "orderId", "side", "qty", "price">>

\* The counters of lines that are no message.
Errors ==
  {"commentedLines", "blankLines", "corruptedMessages", "IncompleteMessages",
   "wrongActions", "wrongSides",
   "negativeOrderIds", "negativeQuantities", "negativePrices",
   "missingActions", "missingOrderIds", "missingSides", "missingQuantities",
   "missingPrices",
   "zeroOrderIds", "zeroQuantities", "zeroPrices",
   "outOfBoundsOrderIds", "outOfBoundsQuantities", "outOfBoundsPrices"}

Following(f) == Fields[CHOOSE n \in DOMAIN Fields : n > 1 /\ Fields[n - 1] = f]

Init ==
  /\ line = << >> /\ ended = FALSE
  /\ i = 1
  /\ at = "firstField" /\ field = "action"
  /\ start = 0 /\ dot = 0
  /\ message = [action |-> "0", orderId |-> 0, side |-> "0", qty |-> 0, price |-> 0]
  /\ result = "parsing"

-----------------------------------------------------------------------------
(* Looking at the line.                                                     *)

AtEnd == ended /\ i > Len(line)
Sees(chars) == i <= Len(line) /\ line[i] \in chars

\* The first look beyond what is known of the line.
Look ==
  /\ result = "parsing"
  /\ ~ended
  /\ i > Len(line) \/ (at = "firstField" /\ Sees({"/"}) /\ i = Len(line))
  /\ \/ /\ Len(line) < MaxLen
        /\ \E c \in Char : line' = Append(line, c)
        /\ UNCHANGED ended
     \/ /\ ended' = TRUE
        /\ UNCHANGED line
  /\ UNCHANGED <<i, at, field, start, dot, message, result>>

\* Mutant: blanks are skipped in pairs.
Skip_Two ==
  /\ i' = i + 2
  /\ UNCHANGED <<line, ended, at, field, start, dot, message, result>>

Skip ==
  /\ i' = i + 1
  /\ UNCHANGED <<line, ended, at, field, start, dot, message, result>>

\* ++errors.<counter>; return false.
Reject(counter) ==
  /\ result' = counter
  /\ UNCHANGED <<line, ended, i, at, field, start, dot, message>>

\* The extraction stores its value and returns true at index next.
Extracted(value, next) ==
  /\ message' = [message EXCEPT ![field] = value]
  /\ i' = next
  /\ at' = "nextField"
  /\ field' = Following(field)
  /\ start' = 0
  /\ UNCHANGED <<line, ended, dot, result>>

-----------------------------------------------------------------------------
(* The lambdas.                                                             *)

firstField ==
  /\ at = "firstField"
  /\ \/ AtEnd /\ Reject("blankLines")
     \/ Sees({Blank}) /\ Skip
     \/ /\ Sees({"/"})
        /\ \/ /\ i < Len(line)
              /\ Reject(IF line[i + 1] = "/" THEN "commentedLines"
                                             ELSE "corruptedMessages")
           \/ ended /\ i = Len(line) /\ Reject("corruptedMessages")
     \/ /\ Sees(Char \ {Blank, "/"})
        /\ at' = "extract"
        /\ UNCHANGED <<line, ended, i, field, start, dot, message, result>>

nextField ==
  /\ at = "nextField"
  /\ \/ AtEnd /\ Reject("IncompleteMessages")
     \/ /\ Sees({Comma})
        /\ i' = i + 1
        /\ at' = "extract"
        /\ UNCHANGED <<line, ended, field, start, dot, message, result>>
     \/ Sees({Blank}) /\ Skip
     \/ Sees(Char \ {Comma, Blank}) /\ Reject("corruptedMessages")

\* extractAction and extractSide.
extractLetter(f, letters, wrong, missing, atEnd) ==
  /\ at = "extract" /\ field = f
  /\ \/ AtEnd /\ Reject(atEnd)
     \/ Sees({Blank}) /\ Skip
     \/ Sees({Comma}) /\ Reject(missing)
     \/ Sees(letters) /\ Extracted(line[i], i + 1)
     \/ Sees(Char \ (letters \cup {Blank, Comma})) /\ Reject(wrong)

extractAction ==
  extractLetter("action", Actions, "wrongActions", "missingActions",
                "missingActions")

extractSide ==
  /\ message.action # "T"
  /\ extractLetter("side", Sides, "wrongSides", "missingSides",
                   "IncompleteMessages")

\* Mutant: the index stays behind the comma.
stepBack_Stays ==
  /\ at = "extract" /\ field \in {"orderId", "side"}
  /\ message.action = "T"
  /\ at' = "nextField"
  /\ field' = Following(field)
  /\ UNCHANGED <<line, ended, i, start, dot, message, result>>

\* A trade has neither: the index goes back to the comma, for the next
\* nextField to find it again.
stepBack ==
  /\ at = "extract" /\ field \in {"orderId", "side"}
  /\ message.action = "T"
  /\ i' = i - 1
  /\ at' = "nextField"
  /\ field' = Following(field)
  /\ UNCHANGED <<line, ended, start, dot, message, result>>

\* A digit of a number, first or not.
Digit ==
  /\ Sees(Digits)
  /\ start' = IF start = 0 THEN i ELSE start
  /\ i' = i + 1
  /\ UNCHANGED <<line, ended, at, field, dot, message, result>>

\* Mutant: one digit more than there may be.
FinishInteger_OffByOne(maxDigits, outOfBounds, zero) ==
  LET digits == SubSeq(line, start, i - 1)
      value  == retreive_unsigned_integer(digits)
  IN  \/ Len(digits) > maxDigits + 1 /\ Reject(outOfBounds)
      \/ /\ Len(digits) <= maxDigits + 1
         /\ \/ value = 0 /\ Reject(zero)
            \/ value # 0 /\ Extracted(value, i)

\* The number from start to i - 1 is complete.
FinishInteger(maxDigits, outOfBounds, zero) ==
  LET digits == SubSeq(line, start, i - 1)
      value  == retreive_unsigned_integer(digits)
  IN  \/ Len(digits) > maxDigits /\ Reject(outOfBounds)
      \/ /\ Len(digits) <= maxDigits
         /\ \/ value = 0 /\ Reject(zero)
            \/ value # 0 /\ Extracted(value, i)

\* Mutant: a sign is negative wherever it stands.
extractInteger_AnySign(maxDigits, negative, missing, outOfBounds, zero) ==
  \/ AtEnd /\ Reject("IncompleteMessages")
  \/ Digit
  \/ /\ Sees({Blank, Comma}) /\ start # 0
     /\ FinishInteger(maxDigits, outOfBounds, zero)
  \/ Sees({Blank}) /\ start = 0 /\ Skip
  \/ Sees({Comma}) /\ start = 0 /\ Reject(missing)
  \/ Sees(Char \ (Digits \cup {Blank, Comma}))
     /\ Reject(IF Sees({"-"}) THEN negative ELSE "corruptedMessages")

\* extractOrderId and extractQty.
extractInteger(maxDigits, negative, missing, outOfBounds, zero) ==
  \/ AtEnd /\ Reject("IncompleteMessages")
  \/ Digit
  \/ /\ Sees({Blank, Comma}) /\ start # 0
     /\ FinishInteger(maxDigits, outOfBounds, zero)
  \/ Sees({Blank}) /\ start = 0 /\ Skip
  \/ Sees({Comma}) /\ start = 0 /\ Reject(missing)
  \/ Sees(Char \ (Digits \cup {Blank, Comma}))
     /\ Reject(IF Sees({"-"}) /\ start = 0 THEN negative
                                           ELSE "corruptedMessages")

extractOrderId ==
  /\ at = "extract" /\ field = "orderId"
  /\ message.action # "T"
  /\ extractInteger(OrderIdDigits, "negativeOrderIds", "missingOrderIds",
                    "outOfBoundsOrderIds", "zeroOrderIds")

extractQty ==
  /\ at = "extract" /\ field = "qty"
  /\ extractInteger(QtyDigits, "negativeQuantities", "missingQuantities",
                    "outOfBoundsQuantities", "zeroQuantities")

\* The price goes from start to i - 1, which may be the end of the line.  In
\* units of the last decimal that is kept: further ones are cut.
FinishPrice ==
  LET integer == SubSeq(line, start, (IF dot = 0 THEN i ELSE dot) - 1)
      kept    == IF dot = 0 THEN i - 1 ELSE Min({i - 1, dot + PricePrecision})
      price   == retreive_unsigned_float(SubSeq(line, start, kept),
                                         PricePrecision)
  IN  \/ Len(integer) > PriceDigits /\ Reject("outOfBoundsPrices")
      \/ /\ Len(integer) <= PriceDigits
         /\ \/ price = 0 /\ Reject("zeroPrices")
            \/ /\ price # 0
               /\ message' = [message EXCEPT !.price = price]
               /\ result' = "accepted"
               /\ UNCHANGED <<line, ended, i, at, field, start, dot>>

extractPrice ==
  /\ at = "extract" /\ field = "price"
  /\ \/ (AtEnd \/ Sees({Blank, Comma, "/"})) /\ start # 0 /\ FinishPrice
     \/ (AtEnd \/ Sees({Comma})) /\ start = 0 /\ Reject("missingPrices")
     \/ Sees({Blank, "/"}) /\ start = 0 /\ Skip
     \/ Digit
     \/ /\ Sees({"."})
        /\ \/ (dot # 0 \/ start = 0) /\ Reject("corruptedMessages")
           \/ /\ dot = 0 /\ start # 0
              /\ dot' = i
              /\ i' = i + 1
              /\ UNCHANGED <<line, ended, at, field, start, message, result>>
     \/ Sees(Char \ (Digits \cup {".", Blank, Comma, "/"}))
        /\ Reject(IF Sees({"-"}) /\ start = 0 THEN "negativePrices"
                                              ELSE "corruptedMessages")

parse ==
  /\ result = "parsing"
  /\ \/ firstField \/ nextField
     \/ extractAction \/ extractOrderId \/ extractSide \/ stepBack
     \/ extractQty \/ extractPrice

Done == result # "parsing" /\ UNCHANGED vars

Next == Look \/ parse \/ Done

Spec == Init /\ [][Next]_vars
=============================================================================
