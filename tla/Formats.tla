-------------------------------- MODULE Formats --------------------------------
(* Texts and numbers as a review shows them: the pages of a text, numbers in *)
(* decimal, amounts with their nine decimals, and ids that are numbers of    *)
(* many bytes (parser_impl.c, zxformat.h and bignum.c).                      *)
(*                                                                           *)
(* The text of a number is the sequence of its digits, and the point of an   *)
(* amount is between its two parts.                                          *)
EXTENDS Integers, Sequences, FiniteSetsExt

CONSTANT BcdLen \* sizeof(bcdOut), 20 in the code

ASSUME FormatsAssumption == BcdLen \in Nat \ {0}

-------------------------------------------------------------------------------
(* Pages *)

\* A count that has no page for the rest of a text (a mutant of PagesOf)
PagesOfFull(len, outLen) == IF len < outLen THEN 1 ELSE len \div (outLen - 1)

\* parser_arrayToString's pageCount.  A text whose length is a
\* multiple of the line's gets an empty page at its end.
PagesOf(len, outLen) == 1 + len \div (outLen - 1)

\* How much of the text it copies, and where that begins
ChunkSize(len, outLen, page) ==
  LET rest == len - (outLen - 1) * page
  IN  IF outLen - 1 > rest THEN rest ELSE outLen - 1

\* The positions of the text that it copies
Chunk(len, outLen, page) ==
  LET offset == (outLen - 1) * page
  IN  offset..(offset + ChunkSize(len, outLen, page) - 1)

MAX_CHARS_PER_VALUE_LINE == 18
MAX_CHARS_PER_VALUE1_LINE == 2 * MAX_CHARS_PER_VALUE_LINE + 1
MAX_CHARS_PER_VALUE2_LINE == MAX_CHARS_PER_VALUE_LINE + 1

\* The positions of viewdata.value that a Nano S shows on its two lines
\* (splitValueField), if vlen of them are in use
Lines(vlen) ==
  IF vlen > MAX_CHARS_PER_VALUE2_LINE - 1
    THEN [value  |-> 0..(MAX_CHARS_PER_VALUE_LINE - 1),
          value2 |-> MAX_CHARS_PER_VALUE_LINE..(vlen - 1)]
    ELSE [value  |-> 0..(vlen - 1), value2 |-> {}]

-------------------------------------------------------------------------------
(* Numbers: NUM_TO_STR, which is an error if the digits do not leave room for *)
(* the zero that ends a string.                                              *)

NumberText(number) ==
  LET digits[n \in 0..number] ==
        IF n < 10 THEN <<n>> ELSE Append(digits[n \div 10], n % 10)
  IN  digits[number]

NumberFits(number, dataLen) == Len(NumberText(number)) < dataLen

-------------------------------------------------------------------------------
(* Amounts: parser_formatAmountFriendly *)

IOV_WHOLE_DIGITS == 15
IOV_FRAC_DIGITS == 9

\* What is too long for its line is an error, not cut off.
AmountFits(coin, outLen) ==
  /\ outLen >= IOV_WHOLE_DIGITS + IOV_FRAC_DIGITS + 2
  /\ NumberFits(coin.whole, outLen)
  /\ coin.fractional > 0 => NumberFits(coin.fractional, IOV_FRAC_DIGITS + 1)

\* The decimals from the left, as they come (a mutant of Fraction)
FractionFromTheLeft(fractional) ==
  LET f == NumberText(fractional)
  IN  [k \in 1..IOV_FRAC_DIGITS |-> IF k <= Len(f) THEN f[k] ELSE 0]

\* "concatenate and fill with zeros"
Fraction(fractional) ==
  LET f == NumberText(fractional)
      fill == IOV_FRAC_DIGITS - Len(f)
  IN  [k \in 1..IOV_FRAC_DIGITS |-> IF k <= fill THEN 0 ELSE f[k - fill]]

AmountText(coin) ==
  [whole |-> NumberText(coin.whole), fraction |-> Fraction(coin.fractional)]

-------------------------------------------------------------------------------
(* Ids: bignumBigEndian_to_bcd and bignumBigEndian_bcdprint.  bcdOut is the  *)
(* sequence of its decimal digits, the lowest first.                         *)

Places == 1..(2 * BcdLen)

Masks == <<128, 64, 32, 16, 8, 4, 2, 1>>

\* A big-endian number, the highest bit first
Bits(bytes) ==
  [n \in 1..(8 * Len(bytes)) |->
     (bytes[1 + ((n - 1) \div 8)] \div Masks[1 + ((n - 1) % 8)]) % 2]

\* "Fix bcd" of the digits above five only (a mutant of Fix)
FixAboveFive(d) == IF d > 5 THEN d + 3 ELSE d

\* "Fix bcd": three are added, so that the digit is ten times two or more
Fix(d) == IF d > 4 THEN d + 3 ELSE d

\* The carry into the place k when "Shift bcd" shifts in the bit
Carry(bcd, bit, k) == IF k = 1 THEN bit ELSE Fix(bcd[k - 1]) \div 8

\* "Shift bcd".  The carry of the highest place is lost.
Shifted(bcd, bit) == [k \in Places |-> (2 * Fix(bcd[k]) + Carry(bcd, bit, k)) % 16]

ToBcd(bytes) ==
  LET bits == Bits(bytes)
      after[n \in 0..Len(bits)] ==
        IF n = 0 THEN [k \in Places |-> 0] ELSE Shifted(after[n - 1], bits[n])
  IN  after[Len(bits)]

BcdFits(outLen) == outLen >= 4 /\ 2 * BcdLen <= outLen

\* The digits from the first one that is not zero, the highest first
BcdText(bcd) ==
  LET top == Max({1} \cup {k \in Places : bcd[k] # 0})
  IN  [n \in 1..top |-> bcd[top + 1 - n]]

IdText(bytes) == BcdText(ToBcd(bytes))

-------------------------------------------------------------------------------
(* What a text says: for the properties of Review *)

\* The number that a sequence of digits stands for
Number(base, digits) ==
  LET value[n \in 0..Len(digits)] == IF n = 0 THEN 0 ELSE base * value[n - 1] + digits[n]
  IN  value[Len(digits)]

\* How many numbers there are of so many decimal digits
Decimals(places) == LET power[n \in 0..places] == IF n = 0 THEN 1 ELSE 10 * power[n - 1]
                    IN  power[places]
===============================================================================
