------------------------------ MODULE Decoder ------------------------------
(***************************************************************************)
(* The conversions between numbers and text.  A text is a sequence of      *)
(* characters.  A number with decimals is kept in units of its last        *)
(* decimal: the doubles of the code are taken as exact.                    *)
(***************************************************************************)
EXTENDS Naturals, Sequences, SequencesExt

DigitChar == <<"0", "1", "2", "3", "4", "5", "6", "7", "8", "9">>

Digits == {DigitChar[n] : n \in DOMAIN DigitChar}

\* *str - '0'
DigitValue == [d \in Digits |-> (CHOOSE n \in 1 .. 10 : DigitChar[n] = d) - 1]

\* Multiplied up, and divided out, by tens.
PowerOfTen[n \in Nat] == IF n = 0 THEN 1 ELSE 10 * PowerOfTen[n - 1]

\* The pairs of digits, the lower one first.
digit_lookup_table ==
  [n \in 0 .. 99 |-> <<DigitChar[(n % 10) + 1], DigitChar[(n \div 10) + 1]>>]

\* "Number is reversed": pairs from the low end, then one or two digits.
Reversed[val \in Nat] ==
  IF val > 99 THEN digit_lookup_table[val % 100] \o Reversed[val \div 100]
  ELSE IF val > 9 THEN digit_lookup_table[val]
  ELSE <<digit_lookup_table[val][1]>>

convert_unsigned_integer(val) == Reverse(Reversed[val])

retreive_unsigned_integer(str) ==
  FoldLeft(LAMBDA val, d : 10 * val + DigitValue[d], 0, str)

\* Mutant: the decimals are not filled up.
DecimalPart_NotFilled(decimal, precision) ==
  IF decimal = 0 THEN [k \in 1 .. precision |-> "0"] ELSE Reversed[decimal]

\* The decimals that are not 0 at their high end are written first (the text
\* is reversed), and are then filled up to the precision.
DecimalPart(decimal, precision) ==
  LET written == IF decimal = 0 THEN << >> ELSE Reversed[decimal]
  IN  written \o [k \in 1 .. (precision - Len(written)) |-> "0"]

\* val is in units of one decimal more than are written: it is rounded half
\* up, and the integer part takes the carry ("overflow?").
convert_unsigned_float(val, precision) ==
  LET decimalMax == PowerOfTen[precision]
      rounded    == ((val % (10 * decimalMax)) + 5) \div 10
      carry      == rounded \div decimalMax
  IN  Reverse(DecimalPart(rounded - carry * decimalMax, precision)
              \o <<".">>
              \o Reversed[(val \div (10 * decimalMax)) + carry])

\* In units of the last of the given number of places, which the text does
\* not exceed.
retreive_unsigned_float(str, places) ==
  LET dot      == SelectInSeq(str, LAMBDA c : c = ".")
      integer  == IF dot = 0 THEN str ELSE SubSeq(str, 1, dot - 1)
      decimals == IF dot = 0 THEN << >> ELSE SubSeq(str, dot + 1, Len(str))
  IN  retreive_unsigned_integer(integer) * PowerOfTen[places]
      + retreive_unsigned_integer(decimals) * PowerOfTen[places - Len(decimals)]
=============================================================================
