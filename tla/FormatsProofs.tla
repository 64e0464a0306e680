----------------------------- MODULE FormatsProofs -----------------------------
(* Pages and decimal doubling, for texts, ids and buffers of every length.   *)
EXTENDS Formats, Induction

\* A text is shown as a whole, and no character of it on two pages: the page of
\* its position is the only one that shows it.  The lines are those of a Nano S
\* and of a Nano X (parser_impl.c:726-756).
THEOREM PagesTile ==
  ASSUME NEW len \in Nat, NEW outLen \in {37, 4096}, NEW k \in 0..(len - 1)
  PROVE  /\ k \div (outLen - 1) \in 0..(PagesOf(len, outLen) - 1)
         /\ \A page \in 0..(PagesOf(len, outLen) - 1) :
              k \in Chunk(len, outLen, page) <=> page = k \div (outLen - 1)
<1>1. CASE outLen = 37
  <2>1. k \div 36 \in 0..(PagesOf(len, 37) - 1)
    BY SMT DEF PagesOf
  <2>2. ASSUME NEW page \in 0..(PagesOf(len, 37) - 1)
        PROVE  k \in Chunk(len, 37, page) <=> page = k \div 36
    BY SMT DEF Chunk, ChunkSize, PagesOf
  <2> QED BY <1>1, <2>1, <2>2
<1>2. CASE outLen = 4096
  <2>1. k \div 4095 \in 0..(PagesOf(len, 4096) - 1)
    BY SMT DEF PagesOf
  <2>2. ASSUME NEW page \in 0..(PagesOf(len, 4096) - 1)
        PROVE  k \in Chunk(len, 4096, page) <=> page = k \div 4095
    BY SMT DEF Chunk, ChunkSize, PagesOf
  <2> QED BY <1>2, <2>1, <2>2
<1> QED BY <1>1, <1>2

\* No page shows more than the text or than the line has room for.
THEOREM PagesFit ==
  ASSUME NEW len \in Nat, NEW outLen \in {37, 4096}, NEW page \in 0..(PagesOf(len, outLen) - 1)
  PROVE  Chunk(len, outLen, page) \subseteq
           {k \in 0..(len - 1) : (outLen - 1) * page <= k /\ k < (outLen - 1) * (page + 1)}
<1>1. CASE outLen = 37
  BY <1>1, SMT DEF Chunk, ChunkSize, PagesOf
<1>2. CASE outLen = 4096
  BY <1>2, SMT DEF Chunk, ChunkSize, PagesOf
<1> QED BY <1>1, <1>2

\* The two lines of a Nano S show what is in viewdata.value, each character
\* once, and neither has more than it has room for (view_s.c:177-184).
THEOREM LinesTile ==
  ASSUME NEW vlen \in 0..(MAX_CHARS_PER_VALUE1_LINE - 1)
  PROVE  /\ Lines(vlen).value \cup Lines(vlen).value2 = 0..(vlen - 1)
         /\ Lines(vlen).value \cap Lines(vlen).value2 = {}
         /\ \A j, k \in Lines(vlen).value : k - j < MAX_CHARS_PER_VALUE_LINE
         /\ \A j, k \in Lines(vlen).value2 : k - j < MAX_CHARS_PER_VALUE2_LINE - 1
BY SMT DEF Lines, MAX_CHARS_PER_VALUE_LINE, MAX_CHARS_PER_VALUE1_LINE, MAX_CHARS_PER_VALUE2_LINE

\* "Fix bcd" and "Shift bcd" double a decimal number and add the bit, place by
\* place: with D the digits, twice a digit and the carry into its place are the
\* new digit and ten times the carry out of it (bignum.c:119-148).
THEOREM ShiftingDoubles ==
  ASSUME NEW bcd \in [Places -> 0..9], NEW bit \in {0, 1}, NEW k \in Places
  PROVE  /\ Shifted(bcd, bit)[k] \in 0..9
         /\ Carry(bcd, bit, k + 1) \in {0, 1}
         /\ 2 * bcd[k] + Carry(bcd, bit, k) =
              Shifted(bcd, bit)[k] + 10 * Carry(bcd, bit, k + 1)
<1> DEFINE low == [j \in Places |-> (2 * Fix(bcd[j]) + Carry(bcd, bit, j)) % 16]
<1>1. ASSUME NEW d \in 0..9, NEW c \in {0, 1}
      PROVE  /\ (2 * Fix(d) + c) % 16 \in 0..9 /\ Fix(d) \div 8 \in {0, 1}
             /\ 2 * d + c = ((2 * Fix(d) + c) % 16) + 10 * (Fix(d) \div 8)
  BY SMT DEF Fix
<1>2. BcdLen \in Nat /\ k \in Nat /\ k >= 1 /\ k <= 2 * BcdLen
  BY FormatsAssumption DEF Places
<1>3. ASSUME NEW j \in Places
      PROVE  Carry(bcd, bit, j) \in {0, 1}
  <2>1. CASE j = 1
    BY <2>1 DEF Carry
  <2>2. CASE j # 1
    <3>1. j - 1 \in Places /\ bcd[j - 1] \in 0..9
      BY <1>2, <2>2 DEF Places
    <3>2. Fix(bcd[j - 1]) \div 8 \in {0, 1}
      BY <1>1, <3>1
    <3> QED BY <2>2, <3>2 DEF Carry
  <2> QED BY <2>1, <2>2
<1>4. Carry(bcd, bit, k + 1) = Fix(bcd[k]) \div 8
  BY <1>2 DEF Carry
<1>5. low[k] = (2 * Fix(bcd[k]) + Carry(bcd, bit, k)) % 16
  OBVIOUS
<1>6. Shifted(bcd, bit)[k] = low[k]
  BY DEF Shifted
<1>7. bcd[k] \in 0..9
  OBVIOUS
<1> QED BY <1>1, <1>3, <1>4, <1>5, <1>6, <1>7
-------------------------------------------------------------------------------
(* Numbers and their digits *)

\* The values that Number takes on the way through the digits
Values(base, digits, u) ==
  /\ u \in [0..Len(digits) -> Nat] /\ u[0] = 0
  /\ \A n \in 1..Len(digits) : u[n] = base * u[n - 1] + digits[n]

\* Only one sequence of values belongs to a sequence of digits.
LEMMA SameValues ==
  ASSUME NEW base \in {2, 10, 256}, NEW digits \in Seq(Nat), NEW u, NEW w,
         Values(base, digits, u), Values(base, digits, w)
  PROVE  u = w
<1>1. Len(digits) \in Nat /\ SameTurns(u, w, Len(digits))
  BY DEF Values, SameTurns
<1>2. \A n \in 0..Len(digits) : u[n] = w[n]
  BY <1>1, SameLoop
<1> QED BY <1>2 DEF Values

\* Number is the last of them.
LEMMA NumberIsLast ==
  ASSUME NEW base \in {2, 10, 256}, NEW digits \in Seq(Nat)
  PROVE  /\ \E u : Values(base, digits, u)
         /\ \A u : Values(base, digits, u) => Number(base, digits) = u[Len(digits)]
<1> DEFINE len == Len(digits)
           turn == [n \in 1..len |-> [v \in Nat |-> base * v + digits[n]]]
           IsValue(q) == q = [n \in 0..len |-> IF n = 0 THEN 0 ELSE base * q[n - 1] + digits[n]]
<1>1. \E u : Values(base, digits, u)
  <2>1. turn \in [1..len -> [Nat -> Nat]] /\ len \in Nat /\ 0 \in Nat
    OBVIOUS
  <2>2. PICK q : LoopValues(q, len, Nat, 0, turn)
    <3> DEFINE V == Nat
    <3>1. turn \in [1..len -> [V -> V]] /\ len \in Nat /\ 0 \in V
      BY <2>1
    <3>2. \E q : LoopValues(q, len, V, 0, turn)
      <4> HIDE DEF turn, len, V
      <4> QED BY <3>1, LoopDefined
    <3> QED BY <3>2
  <2>3. ASSUME NEW n \in 1..len PROVE q[n] = base * q[n - 1] + digits[n]
    <3>1. n - 1 \in 0..len /\ q \in [0..len -> Nat]
      BY <2>2 DEF LoopValues
    <3>2. q[n - 1] \in Nat
      BY <3>1
    <3> QED BY <2>2, <3>2 DEF LoopValues
  <2> QED BY <2>2, <2>3 DEF Values, LoopValues
<1>2. \A u : Values(base, digits, u) => IsValue(u)
  BY DEF Values
<1>3. ASSUME NEW q, IsValue(q) PROVE Values(base, digits, q)
  <2>1. PICK u : Values(base, digits, u)
    BY <1>1
  <2>2. len \in Nat /\ q[0] = u[0]
    BY <1>3, <2>1 DEF Values
  <2>3. ASSUME NEW n \in 1..len, q[n - 1] = u[n - 1] PROVE q[n] = u[n]
    <3>1. q[n] = base * q[n - 1] + digits[n]
      BY <1>3
    <3> QED BY <2>1, <2>3, <3>1 DEF Values
  <2>4. SameTurns(q, u, len)
    BY <2>2, <2>3 DEF SameTurns
  <2>5. \A n \in 0..len : q[n] = u[n]
    BY <2>2, <2>4, SameLoop
  <2>6. q = u
    BY <1>3, <2>1, <2>5 DEF Values
  <2> QED BY <2>1, <2>6
<1>4. Number(base, digits) = (CHOOSE q : IsValue(q))[len]
  BY DEF Number
<1>5. Values(base, digits, CHOOSE q : IsValue(q))
  <2>1. \E q : IsValue(q)
    BY <1>1, <1>2
  <2>2. IsValue(CHOOSE q : IsValue(q))
    <3> HIDE DEF IsValue
    <3> QED BY <2>1
  <2> HIDE DEF IsValue
  <2> QED BY <1>3, <2>2
<1> HIDE DEF IsValue
<1>6. ASSUME NEW u, Values(base, digits, u) PROVE Number(base, digits) = u[Len(digits)]
  <2>1. u = CHOOSE q : IsValue(q)
    BY <1>5, <1>6, SameValues
  <2> QED BY <1>4, <2>1
<1> QED BY <1>1, <1>6

\* Zeros in front do not change a number.
LEMMA LeadingZeros ==
  ASSUME NEW digits \in Seq(Nat), NEW zeros \in Nat, NEW padded \in Seq(Nat),
         Len(padded) = zeros + Len(digits),
         \A n \in 1..zeros : padded[n] = 0,
         \A n \in 1..Len(digits) : padded[zeros + n] = digits[n]
  PROVE  Number(10, padded) = Number(10, digits)
<1>1. PICK u : Values(10, digits, u)
  BY NumberIsLast
<1> DEFINE w == [n \in 0..(zeros + Len(digits)) |-> IF n <= zeros THEN 0 ELSE u[n - zeros]]
<1>2. Values(10, padded, w)
  <2>1. w \in [0..Len(padded) -> Nat] /\ w[0] = 0
    BY <1>1 DEF Values
  <2>2. ASSUME NEW n \in 1..Len(padded) PROVE w[n] = 10 * w[n - 1] + padded[n]
    <3>1. CASE n <= zeros
      <4>1. w[n] = 0 /\ w[n - 1] = 0 /\ padded[n] = 0
        BY <3>1
      <4> QED BY <4>1
    <3>2. CASE n > zeros
      <4> DEFINE k == n - zeros
      <4>1. k \in 1..Len(digits) /\ zeros + k = n
        BY <3>2
      <4>2. u[k] = 10 * u[k - 1] + digits[k] /\ padded[n] = digits[k] /\ u[0] = 0
        BY <1>1, <4>1 DEF Values
      <4>3. w[n] = u[k]
        BY <3>2
      <4>4. w[n - 1] = u[k - 1]
        <5>1. CASE n - 1 = zeros
          <6>1. w[n - 1] = 0 /\ k - 1 = 0
            BY <5>1
          <6> QED BY <4>2, <6>1
        <5>2. CASE n - 1 > zeros
          <6>1. w[n - 1] = u[(n - 1) - zeros] /\ (n - 1) - zeros = k - 1
            BY <5>2
          <6> QED BY <6>1
        <5> QED BY <3>2, <5>1, <5>2
      <4> QED BY <4>2, <4>3, <4>4
    <3> QED BY <3>1, <3>2
  <2> QED BY <2>1, <2>2 DEF Values
<1>3. w[Len(padded)] = u[Len(digits)]
  BY <1>1 DEF Values
<1> HIDE DEF w
<1>4. Number(10, padded) = w[Len(padded)]
  BY <1>2, NumberIsLast
<1>5. Number(10, digits) = u[Len(digits)]
  BY <1>1, NumberIsLast
<1> QED BY <1>3, <1>4, <1>5

\* One more digit at the end
LEMMA OneMoreDigit ==
  ASSUME NEW digits \in Seq(Nat), NEW d \in Nat
  PROVE  Number(10, Append(digits, d)) = 10 * Number(10, digits) + d
<1>1. PICK u : Values(10, digits, u)
  BY NumberIsLast
<1> DEFINE len == Len(digits)
           more == Append(digits, d)
           w == [n \in 0..(len + 1) |-> IF n <= len THEN u[n] ELSE 10 * u[len] + d]
<1>2. more \in Seq(Nat) /\ Len(more) = len + 1 /\ more[len + 1] = d
      /\ \A n \in 1..len : more[n] = digits[n]
  OBVIOUS
<1> HIDE DEF more
<1>3. Values(10, more, w)
  <2>1. u \in [0..len -> Nat] /\ u[0] = 0 /\ len \in Nat
    BY <1>1 DEF Values
  <2>2. w \in [0..Len(more) -> Nat] /\ w[0] = 0
    BY <1>2, <2>1
  <2>3. ASSUME NEW n \in 1..Len(more) PROVE w[n] = 10 * w[n - 1] + more[n]
    <3>1. CASE n = len + 1
      BY <1>2, <2>1, <3>1
    <3>2. CASE n \in 1..len
      <4>1. u[n] = 10 * u[n - 1] + digits[n]
        BY <1>1, <3>2 DEF Values
      <4> QED BY <1>2, <3>2, <4>1
    <3> QED BY <1>2, <2>1, <3>1, <3>2
  <2> QED BY <2>2, <2>3 DEF Values
<1>4. w[Len(more)] = 10 * u[len] + d
  BY <1>2
<1> HIDE DEF w
<1> QED BY <1>1, <1>2, <1>3, <1>4, NumberIsLast DEF more

\* Digits that stand for n, the first of which is not zero unless n is
Says(digits, n) ==
  /\ digits \in Seq(0..9) /\ digits # <<>> /\ Number(10, digits) = n
  /\ n > 0 => digits[1] # 0
  /\ n = 0 => digits = <<0>>

LEMMA OneDigit ==
  ASSUME NEW n \in 0..9
  PROVE  Says(<<n>>, n)
<1>1. <<n>> \in Seq(0..9) /\ <<n>> \in Seq(Nat) /\ <<n>> # <<>> /\ <<n>>[1] = n /\ Len(<<n>>) = 1
  OBVIOUS
<1> DEFINE w == [k \in 0..1 |-> IF k = 0 THEN 0 ELSE n]
<1>2. Values(10, <<n>>, w) /\ w[1] = n
  BY DEF Values
<1>3. Number(10, <<n>>) = n
  <2> HIDE DEF w
  <2> QED BY <1>1, <1>2, NumberIsLast
<1> QED BY <1>1, <1>3 DEF Says

LEMMA NextDigit ==
  ASSUME NEW n \in Nat, n >= 10, NEW digits, Says(digits, n \div 10)
  PROVE  Says(Append(digits, n % 10), n)
<1>1. n \div 10 \in Nat /\ n \div 10 > 0 /\ n % 10 \in 0..9 /\ n = 10 * (n \div 10) + (n % 10)
  OBVIOUS
<1> DEFINE q == n \div 10
           d == n % 10
<1> HIDE DEF q, d
<1>2. digits \in Seq(0..9) /\ digits # <<>> /\ Number(10, digits) = q /\ digits[1] # 0
  BY <1>1 DEF Says, q
<1>3. d \in 0..9 /\ d \in Nat /\ digits \in Seq(Nat) /\ n = 10 * q + d
  BY <1>1, <1>2 DEF q, d
<1>4. Number(10, Append(digits, d)) = n
  BY <1>2, <1>3, OneMoreDigit
<1>5. /\ Append(digits, d) \in Seq(0..9) /\ Append(digits, d) # <<>>
      /\ Append(digits, d)[1] = digits[1]
  BY <1>2, <1>3
<1> QED BY <1>2, <1>4, <1>5 DEF Says, d

\* NUM_TO_STR writes the number, and no zero in front (zxformat.h:22-46).
THEOREM NumbersAreExact ==
  ASSUME NEW number \in Nat
  PROVE  Says(NumberText(number), number)
<1> DEFINE IsText(q, m) == q = [n \in 0..m |-> IF n < 10 THEN <<n>> ELSE Append(q[n \div 10], n % 10)]
           S == {m \in 0..number : \E q : IsText(q, m)}
<1>0. ASSUME NEW n \in Nat, n >= 10 PROVE n \div 10 \in 0..(n - 1)
  BY <1>0
<1>1. 0 \in S
  <2>1. IsText([n \in 0..0 |-> <<n>>], 0)
    OBVIOUS
  <2> HIDE DEF IsText
  <2> QED BY <2>1
<1>2. ASSUME NEW m \in 1..number, m - 1 \in S PROVE m \in S
  <2>1. PICK q : IsText(q, m - 1)
    BY <1>2
  <2> DEFINE p == [n \in 0..m |-> IF n < m THEN q[n]
                                  ELSE IF n < 10 THEN <<n>> ELSE Append(q[n \div 10], n % 10)]
  <2>2. ASSUME NEW n \in 0..m
        PROVE  p[n] = IF n < 10 THEN <<n>> ELSE Append(p[n \div 10], n % 10)
    <3>1. n >= 10 => n \div 10 \in 0..m /\ n \div 10 < m
      BY <1>0
    <3>2. n >= 10 => p[n \div 10] = q[n \div 10]
      BY <3>1
    <3>3. CASE n = m
      <4>1. p[n] = IF n < 10 THEN <<n>> ELSE Append(q[n \div 10], n % 10)
        BY <3>3
      <4> HIDE DEF p
      <4> QED BY <3>2, <4>1
    <3>4. CASE n < m
      <4>1. p[n] = q[n] /\ n \in 0..(m - 1)
        BY <3>4
      <4>2. q[n] = IF n < 10 THEN <<n>> ELSE Append(q[n \div 10], n % 10)
        BY <2>1, <4>1
      <4> HIDE DEF p
      <4> QED BY <3>2, <4>1, <4>2
    <3> QED BY <3>3, <3>4
  <2>3. IsText(p, m)
    BY <2>2
  <2> HIDE DEF IsText, p
  <2> QED BY <2>3
<1>3. \E q : IsText(q, number)
  <2> HIDE DEF IsText
  <2>1. \A m \in 0..number : m \in S
    <3> HIDE DEF S
    <3> QED BY <1>1, <1>2, LoopInduction
  <2> QED BY <2>1
<1> DEFINE text == CHOOSE q : IsText(q, number)
<1>4. NumberText(number) = text[number]
  BY DEF NumberText
<1>5. IsText(text, number)
  <2> HIDE DEF IsText
  <2> QED BY <1>3
<1>6. ASSUME NEW n \in 0..number
      PROVE  text[n] = IF n < 10 THEN <<n>> ELSE Append(text[n \div 10], n % 10)
  <2> HIDE DEF text
  <2> QED BY <1>5
<1> HIDE DEF text, IsText, S
<1> DEFINE T == {m \in 0..number : \A n \in 0..m : Says(text[n], n)}
<1>7. 0 \in T
  BY <1>6, OneDigit
<1>8. ASSUME NEW m \in 1..number, m - 1 \in T PROVE m \in T
  <2>1. \A n \in 0..(m - 1) : Says(text[n], n)
    BY <1>8
  <2>2. Says(text[m], m)
    <3>1. CASE m < 10
      BY <1>6, <3>1, OneDigit
    <3>2. CASE m >= 10
      <4>1. Says(text[m \div 10], m \div 10)
        BY <1>0, <2>1, <3>2
      <4>2. text[m] = Append(text[m \div 10], m % 10)
        <5>1. m \in 0..number /\ ~(m < 10)
          BY <3>2
        <5> QED BY <1>6, <5>1
      <4> QED BY <3>2, <4>1, <4>2, NextDigit
    <3> QED BY <3>1, <3>2
  <2> QED BY <2>1, <2>2
<1>9. \A m \in 0..number : m \in T
  <2> HIDE DEF T
  <2> QED BY <1>7, <1>8, LoopInduction
<1> QED BY <1>4, <1>9

\* A short sequence of digits, filled with zeros
LEMMA Filled ==
  ASSUME NEW f \in Seq(Nat), NEW zeros \in Nat, zeros + Len(f) = 9, NEW padded,
         padded = [k \in 1..9 |-> IF k <= zeros THEN 0 ELSE f[k - zeros]]
  PROVE  Number(10, padded) = Number(10, f) /\ Len(padded) = 9
<1>1. ASSUME NEW k \in 1..9, ~(k <= zeros) PROVE k - zeros \in 1..Len(f) /\ f[k - zeros] \in Nat
  <2>1. k - zeros \in 1..Len(f)
    BY <1>1
  <2>2. \A j \in 1..Len(f) : f[j] \in Nat
    OBVIOUS
  <2> QED BY <2>1, <2>2
<1>2. \A k \in 1..9 : padded[k] \in Nat
  BY <1>1
<1>3. padded \in Seq(Nat) /\ Len(padded) = 9
  BY <1>2
<1>4. \A n \in 1..zeros : padded[n] = 0
  BY zeros <= 9
<1>5. ASSUME NEW n \in 1..Len(f) PROVE padded[zeros + n] = f[n]
  <2>1. zeros + n \in 1..9 /\ ~(zeros + n <= zeros) /\ (zeros + n) - zeros = n
    OBVIOUS
  <2> QED BY <2>1
<1> QED BY <1>3, <1>4, <1>5, LeadingZeros

\* The nine decimals of an amount stand for its fraction (parser_impl.c:758-781).
THEOREM FractionsAreExact ==
  ASSUME NEW fractional \in Nat,
         fractional > 0 => NumberFits(fractional, IOV_FRAC_DIGITS + 1)
  PROVE  /\ Number(10, Fraction(fractional)) = fractional
         /\ Len(Fraction(fractional)) = IOV_FRAC_DIGITS
<1>1. PICK f : f = NumberText(fractional)
  OBVIOUS
<1>2. Says(f, fractional)
  BY <1>1, NumbersAreExact
<1>3. f \in Seq(Nat) /\ Number(10, f) = fractional
  BY <1>2 DEF Says
<1>4. Len(f) < 10
  <2>1. CASE fractional > 0
    BY <2>1, <1>1 DEF NumberFits, IOV_FRAC_DIGITS
  <2>2. CASE fractional = 0
    <3>1. f = <<0>>
      BY <2>2, <1>2 DEF Says
    <3> QED BY <3>1
  <2> QED BY <2>1, <2>2
<1>5. 9 - Len(f) \in Nat /\ (9 - Len(f)) + Len(f) = 9
  BY <1>3, <1>4
<1>6. Fraction(fractional) = [k \in 1..9 |-> IF k <= 9 - Len(f) THEN 0 ELSE f[k - (9 - Len(f))]]
  BY <1>1 DEF Fraction, IOV_FRAC_DIGITS
<1>7. Number(10, Fraction(fractional)) = Number(10, f) /\ Len(Fraction(fractional)) = 9
  BY <1>3, <1>5, <1>6, Filled
<1> QED BY <1>3, <1>7 DEF IOV_FRAC_DIGITS
-------------------------------------------------------------------------------
(* Ids: the decimal number that bcdOut holds *)

\* The powers of ten, up to the number of places
Powers(p, places) ==
  p \in [0..places -> Nat] /\ p[0] = 1 /\ \A n \in 1..places : p[n] = 10 * p[n - 1]

LEMMA DecimalsIsPower ==
  ASSUME NEW places \in Nat
  PROVE  \E p : Powers(p, places) /\ Decimals(places) = p[places]
<1> DEFINE turn == [n \in 1..places |-> [v \in Nat |-> 10 * v]]
           IsValue(q) == q = [n \in 0..places |-> IF n = 0 THEN 1 ELSE 10 * q[n - 1]]
<1>1. PICK p : LoopValues(p, places, Nat, 1, turn)
  <2> DEFINE V == Nat
  <2>1. turn \in [1..places -> [V -> V]] /\ 1 \in V
    OBVIOUS
  <2>2. \E q : LoopValues(q, places, V, 1, turn)
    <3> HIDE DEF turn, V
    <3> QED BY <2>1, LoopDefined
  <2> QED BY <2>2
<1>2. Powers(p, places)
  <2>1. ASSUME NEW n \in 1..places PROVE p[n] = 10 * p[n - 1]
    <3>1. n - 1 \in 0..places /\ p \in [0..places -> Nat]
      BY <1>1 DEF LoopValues
    <3>2. p[n - 1] \in Nat
      BY <3>1
    <3> QED BY <1>1, <3>2 DEF LoopValues
  <2> QED BY <1>1, <2>1 DEF Powers, LoopValues
<1>3. IsValue(p)
  BY <1>2 DEF Powers
<1>4. ASSUME NEW q, IsValue(q) PROVE q = p
  <2>1. SameTurns(q, p, places)
    <3>1. q[0] = 1
      BY <1>4
    <3>2. \A n \in 1..places : q[n] = 10 * q[n - 1]
      BY <1>4
    <3> QED BY <1>2, <3>1, <3>2 DEF SameTurns, Powers
  <2>2. \A n \in 0..places : q[n] = p[n]
    BY <2>1, SameLoop
  <2> QED BY <1>2, <1>4, <2>2 DEF Powers
<1>5. Decimals(places) = (CHOOSE q : IsValue(q))[places]
  BY DEF Decimals
<1> HIDE DEF IsValue
<1>6. (CHOOSE q : IsValue(q)) = p
  BY <1>3, <1>4
<1> QED BY <1>2, <1>5, <1>6

Digits == [Places -> 0..9]

\* The digits as they are written, the highest first
Written(bcd) == [j \in 1..(2 * BcdLen) |-> bcd[2 * BcdLen + 1 - j]]

LEMMA WrittenType ==
  ASSUME NEW bcd \in Digits
  PROVE  /\ Written(bcd) \in Seq(0..9) /\ Written(bcd) \in Seq(Nat)
         /\ Len(Written(bcd)) = 2 * BcdLen /\ 2 * BcdLen \in Nat \ {0}
<1>1. 2 * BcdLen \in Nat \ {0}
  BY FormatsAssumption
<1>2. \A j \in 1..(2 * BcdLen) : bcd[2 * BcdLen + 1 - j] \in 0..9
  <2> TAKE j \in 1..(2 * BcdLen)
  <2>1. 2 * BcdLen + 1 - j \in Places
    BY <1>1 DEF Places
  <2> QED BY <2>1 DEF Digits
<1> QED BY <1>1, <1>2 DEF Written

\* What a carry out of the highest place stands for
Lost(c, power) == IF c = 1 THEN power ELSE 0

\* Shifting a bit in doubles the number and adds the bit, but for the carry out
\* of the highest place.
LEMMA Doubled ==
  ASSUME NEW bcd \in Digits, NEW bit \in {0, 1}
  PROVE  /\ Shifted(bcd, bit) \in Digits
         /\ \E c \in {0, 1} :
              2 * Number(10, Written(bcd)) + bit =
                Number(10, Written(Shifted(bcd, bit))) + Lost(c, Decimals(2 * BcdLen))
<1> DEFINE next == Shifted(bcd, bit)
<1>1. next \in Digits
  <2>1. \A k \in Places : next[k] \in 0..9
    BY ShiftingDoubles DEF Digits
  <2> QED BY <2>1 DEF Digits, Shifted
<1>2. \A k \in Places : /\ Carry(bcd, bit, k + 1) \in {0, 1}
                        /\ 2 * bcd[k] + Carry(bcd, bit, k) = next[k] + 10 * Carry(bcd, bit, k + 1)
  BY ShiftingDoubles DEF Digits
<1>3. Carry(bcd, bit, 1) = bit
  BY DEF Carry
<1> HIDE DEF next
<1>4. PICK places : places = 2 * BcdLen
  OBVIOUS
<1>5. places \in Nat /\ places >= 1 /\ Places = 1..places
  BY <1>4, FormatsAssumption DEF Places
<1>6. PICK c : c = Carry(bcd, bit, places + 1)
  OBVIOUS
<1>7. c \in {0, 1}
  BY <1>2, <1>5, <1>6
<1>8. PICK u : Values(10, Written(bcd), u) /\ Number(10, Written(bcd)) = u[places]
  BY <1>4, WrittenType, NumberIsLast
<1>9. PICK w : Values(10, Written(next), w) /\ Number(10, Written(next)) = w[places]
  BY <1>1, <1>4, WrittenType, NumberIsLast
<1>10. PICK p : Powers(p, places) /\ Decimals(places) = p[places]
  BY <1>5, DecimalsIsPower
<1>11. /\ u \in [0..places -> Nat] /\ w \in [0..places -> Nat] /\ p \in [0..places -> Nat]
       /\ u[0] = 0 /\ w[0] = 0 /\ p[0] = 1
  BY <1>1, <1>4, <1>8, <1>9, <1>10, WrittenType DEF Values, Powers
<1>12. ASSUME NEW j \in 1..places
       PROVE  /\ u[j] = 10 * u[j - 1] + bcd[places + 1 - j]
              /\ w[j] = 10 * w[j - 1] + next[places + 1 - j]
              /\ p[j] = 10 * p[j - 1]
  <2>1. Len(Written(bcd)) = places /\ Len(Written(next)) = places
    BY <1>1, <1>4, WrittenType
  <2>2. Written(bcd)[j] = bcd[places + 1 - j] /\ Written(next)[j] = next[places + 1 - j]
    BY <1>4 DEF Written
  <2> QED BY <1>8, <1>9, <1>10, <2>1, <2>2 DEF Values, Powers
<1> DEFINE S == {j \in 0..places :
                   2 * u[j] + Carry(bcd, bit, places + 1 - j) = w[j] + Lost(c, p[j])}
<1>13. 0 \in S
  <2>1. 2 * u[0] + Carry(bcd, bit, places + 1 - 0) = w[0] + Lost(c, p[0])
    BY <1>5, <1>6, <1>7, <1>11 DEF Lost
  <2> QED BY <1>5, <2>1
<1>14. ASSUME NEW j \in 1..places, j - 1 \in S PROVE j \in S
  <2>1. PICK k : k = places + 1 - j
    OBVIOUS
  <2>2. k \in Places /\ places + 1 - (j - 1) = k + 1
    BY <1>5, <2>1
  <2>3. PICK a, b : a = Carry(bcd, bit, k) /\ b = Carry(bcd, bit, k + 1)
    OBVIOUS
  <2>4. 2 * u[j - 1] + b = w[j - 1] + Lost(c, p[j - 1])
    BY <1>14, <2>2, <2>3
  <2>5. b \in {0, 1} /\ 2 * bcd[k] + a = next[k] + 10 * b /\ bcd[k] \in 0..9 /\ next[k] \in 0..9
    BY <1>1, <1>2, <2>2, <2>3 DEF Digits
  <2>6. a \in Int
    <3>1. CASE k = 1
      BY <1>3, <2>3, <3>1
    <3>2. CASE k # 1
      <4>1. k - 1 \in Places /\ (k - 1) + 1 = k
        BY <1>5, <2>2, <3>2
      <4> QED BY <1>2, <2>3, <4>1
    <3> QED BY <3>1, <3>2
  <2>7. u[j - 1] \in Nat /\ w[j - 1] \in Nat /\ p[j - 1] \in Nat
    <3>1. j - 1 \in 0..places
      BY <1>5
    <3> QED BY <1>11, <3>1
  <2>8. u[j] = 10 * u[j - 1] + bcd[k] /\ w[j] = 10 * w[j - 1] + next[k] /\ p[j] = 10 * p[j - 1]
    BY <1>12, <2>1
  <2>9. 2 * u[j] + a = w[j] + Lost(c, p[j])
    <3>1. PICK x, y, z, d, e : /\ x = u[j - 1] /\ y = w[j - 1] /\ z = p[j - 1]
                                /\ d = bcd[k] /\ e = next[k]
      OBVIOUS
    <3>2. x \in Nat /\ y \in Nat /\ z \in Nat /\ d \in 0..9 /\ e \in 0..9
      BY <2>5, <2>7, <3>1
    <3>3. 2 * x + b = y + Lost(c, z) /\ 2 * d + a = e + 10 * b
      BY <2>4, <2>5, <3>1
    <3>4. 2 * (10 * x + d) + a = (10 * y + e) + Lost(c, 10 * z)
      <4>1. CASE c = 0
        BY <2>5, <2>6, <3>2, <3>3, <4>1 DEF Lost
      <4>2. CASE c = 1
        BY <2>5, <2>6, <3>2, <3>3, <4>2 DEF Lost
      <4> QED BY <1>7, <4>1, <4>2
    <3> QED BY <2>8, <3>1, <3>4
  <2> QED BY <1>5, <2>1, <2>3, <2>9
<1>15. places \in S
  <2>1. \A j \in 0..places : j \in S
    <3> HIDE DEF S
    <3> QED BY <1>5, <1>13, <1>14, LoopInduction
  <2> QED BY <1>5, <2>1
<1>16. 2 * u[places] + bit = w[places] + Lost(c, p[places])
  BY <1>3, <1>5, <1>15
<1> QED BY <1>1, <1>4, <1>7, <1>8, <1>9, <1>10, <1>16 DEF next

\* The number that bcdOut holds is one of its digits.
LEMMA Bounded ==
  ASSUME NEW bcd \in Digits
  PROVE  /\ Number(10, Written(bcd)) \in 0..(Decimals(2 * BcdLen) - 1)
         /\ Decimals(2 * BcdLen) \in Nat
<1>1. PICK places : places = 2 * BcdLen
  OBVIOUS
<1>2. /\ places \in Nat /\ Places = 1..places
      /\ Written(bcd) \in Seq(0..9) /\ Len(Written(bcd)) = places
  BY <1>1, WrittenType, FormatsAssumption DEF Places
<1>3. PICK u : Values(10, Written(bcd), u) /\ Number(10, Written(bcd)) = u[places]
  BY <1>1, WrittenType, NumberIsLast
<1>4. PICK p : Powers(p, places) /\ Decimals(places) = p[places]
  BY <1>2, DecimalsIsPower
<1> DEFINE S == {j \in 0..places : u[j] < p[j]}
<1>5. u \in [0..places -> Nat] /\ p \in [0..places -> Nat]
  BY <1>2, <1>3, <1>4 DEF Values, Powers
<1>6. 0 \in S
  BY <1>2, <1>3, <1>4 DEF Values, Powers
<1>7. ASSUME NEW j \in 1..places, j - 1 \in S PROVE j \in S
  <2>1. Written(bcd)[j] \in 0..9
    BY <1>2
  <2>2. u[j] = 10 * u[j - 1] + Written(bcd)[j] /\ p[j] = 10 * p[j - 1]
    BY <1>2, <1>3, <1>4 DEF Values, Powers
  <2>3. u[j - 1] \in Nat /\ p[j - 1] \in Nat /\ u[j - 1] < p[j - 1]
    BY <1>5, <1>7
  <2>4. u[j] < p[j]
    BY <2>1, <2>2, <2>3
  <2> QED BY <2>4
<1>8. \A j \in 0..places : j \in S
  <2> HIDE DEF S
  <2> QED BY <1>2, <1>6, <1>7, LoopInduction
<1>9. u[places] < p[places] /\ u[places] \in Nat /\ p[places] \in Nat
  <2>1. places \in S /\ places \in 0..places
    BY <1>2, <1>8
  <2> QED BY <1>5, <2>1
<1> QED BY <1>1, <1>3, <1>4, <1>9

LEMMA ByteBits ==
  ASSUME NEW b \in 0..255
  PROVE  b = 128 * ((b \div 128) % 2) + 64 * ((b \div 64) % 2) + 32 * ((b \div 32) % 2)
             + 16 * ((b \div 16) % 2) + 8 * ((b \div 8) % 2) + 4 * ((b \div 4) % 2)
             + 2 * ((b \div 2) % 2) + (b % 2)
OBVIOUS

\* The values v before and after eight bits, those of the byte b, at k
ShiftsByte(v, bits, k, b) ==
  /\ v[k] \in Nat
  /\ v[k + 1] = 2 * v[k] + bits[k + 1] /\ bits[k + 1] = (b \div 128) % 2
  /\ v[k + 2] = 2 * v[k + 1] + bits[k + 2] /\ bits[k + 2] = (b \div 64) % 2
  /\ v[k + 3] = 2 * v[k + 2] + bits[k + 3] /\ bits[k + 3] = (b \div 32) % 2
  /\ v[k + 4] = 2 * v[k + 3] + bits[k + 4] /\ bits[k + 4] = (b \div 16) % 2
  /\ v[k + 5] = 2 * v[k + 4] + bits[k + 5] /\ bits[k + 5] = (b \div 8) % 2
  /\ v[k + 6] = 2 * v[k + 5] + bits[k + 6] /\ bits[k + 6] = (b \div 4) % 2
  /\ v[k + 7] = 2 * v[k + 6] + bits[k + 7] /\ bits[k + 7] = (b \div 2) % 2
  /\ v[k + 8] = 2 * v[k + 7] + bits[k + 8] /\ bits[k + 8] = b % 2

LEMMA EightBits ==
  ASSUME NEW v, NEW bits, NEW k, NEW b \in 0..255, ShiftsByte(v, bits, k, b)
  PROVE  v[k + 8] = 256 * v[k] + b
<1> DEFINE b1 == (b \div 128) % 2
           b2 == (b \div 64) % 2
           b3 == (b \div 32) % 2
           b4 == (b \div 16) % 2
           b5 == (b \div 8) % 2
           b6 == (b \div 4) % 2
           b7 == (b \div 2) % 2
           b8 == b % 2
<1>1. b = 128 * b1 + 64 * b2 + 32 * b3 + 16 * b4 + 8 * b5 + 4 * b6 + 2 * b7 + b8
  BY ByteBits
<1>2. /\ b1 \in Nat /\ b2 \in Nat /\ b3 \in Nat /\ b4 \in Nat
      /\ b5 \in Nat /\ b6 \in Nat /\ b7 \in Nat /\ b8 \in Nat
  OBVIOUS
<1>3. /\ v[k] \in Nat
      /\ v[k + 1] = 2 * v[k] + b1 /\ v[k + 2] = 2 * v[k + 1] + b2
      /\ v[k + 3] = 2 * v[k + 2] + b3 /\ v[k + 4] = 2 * v[k + 3] + b4
      /\ v[k + 5] = 2 * v[k + 4] + b5 /\ v[k + 6] = 2 * v[k + 5] + b6
      /\ v[k + 7] = 2 * v[k + 6] + b7 /\ v[k + 8] = 2 * v[k + 7] + b8
  BY DEF ShiftsByte
<1> HIDE DEF b1, b2, b3, b4, b5, b6, b7, b8
<1>4. v[k + 2] = 4 * v[k] + 2 * b1 + b2
  BY <1>2, <1>3
<1>5. v[k + 4] = 16 * v[k] + 8 * b1 + 4 * b2 + 2 * b3 + b4
  BY <1>2, <1>3, <1>4
<1>6. v[k + 6] = 64 * v[k] + 32 * b1 + 16 * b2 + 8 * b3 + 4 * b4 + 2 * b5 + b6
  BY <1>2, <1>3, <1>5
<1>7. v[k + 8] = 256 * v[k] + 128 * b1 + 64 * b2 + 32 * b3 + 16 * b4 + 8 * b5 + 4 * b6
                   + 2 * b7 + b8
  BY <1>2, <1>3, <1>6
<1> QED BY <1>1, <1>2, <1>3, <1>7

LEMMA Elements ==
  ASSUME NEW T, NEW s \in Seq(T)
  PROVE  Len(s) \in Nat /\ \A n \in 1..Len(s) : s[n] \in T
OBVIOUS

\* The bits of a number say the same as its bytes.
LEMMA BitsOfBytes ==
  ASSUME NEW bytes \in Seq(0..255)
  PROVE  /\ Bits(bytes) \in Seq(Nat) /\ Len(Bits(bytes)) = 8 * Len(bytes)
         /\ \A n \in 1..Len(Bits(bytes)) : Bits(bytes)[n] \in {0, 1}
         /\ Number(2, Bits(bytes)) = Number(256, bytes)
<1> DEFINE bits == Bits(bytes)
<1>1. PICK len : len = Len(bytes)
  OBVIOUS
<1>2. len \in Nat /\ bytes \in Seq(Nat) /\ \A n \in 1..len : bytes[n] \in 0..255
  <2>1. len \in Nat /\ \A n \in 1..len : bytes[n] \in 0..255
    BY <1>1, Elements, Zenon
  <2>2. bytes \in Seq(Nat)
    <3>1. \A n \in 1..Len(bytes) : bytes[n] \in Nat
      <4>1. \A x \in 0..255 : x \in Nat
        OBVIOUS
      <4> QED BY <1>1, <2>1, <4>1, Zenon
    <3>2. bytes = [n \in 1..Len(bytes) |-> bytes[n]]
      OBVIOUS
    <3> QED BY <3>1, <3>2
  <2> QED BY <2>1, <2>2
<1>3. bits = [n \in 1..(8 * len) |-> (bytes[1 + ((n - 1) \div 8)] \div Masks[1 + ((n - 1) % 8)]) % 2]
  BY <1>1 DEF Bits
<1>4. ASSUME NEW n \in 1..len, NEW i \in 1..8
      PROVE  /\ 8 * (n - 1) + i \in 1..(8 * len)
             /\ bits[8 * (n - 1) + i] = (bytes[n] \div Masks[i]) % 2
  <2>1. PICK m : m = 8 * (n - 1) + i
    OBVIOUS
  <2>2. m \in 1..(8 * len) /\ (m - 1) \div 8 = n - 1 /\ (m - 1) % 8 = i - 1
    BY <1>2, <2>1
  <2>3. 1 + ((m - 1) \div 8) = n /\ 1 + ((m - 1) % 8) = i
    BY <1>2, <2>2
  <2>4. bits[m] = (bytes[1 + ((m - 1) \div 8)] \div Masks[1 + ((m - 1) % 8)]) % 2
    BY <1>3, <2>2
  <2> HIDE DEF bits
  <2> QED BY <2>1, <2>2, <2>3, <2>4
<1>5. /\ Masks[1] = 128 /\ Masks[2] = 64 /\ Masks[3] = 32 /\ Masks[4] = 16
      /\ Masks[5] = 8 /\ Masks[6] = 4 /\ Masks[7] = 2 /\ Masks[8] = 1
  BY DEF Masks
<1>6. \A m \in 1..(8 * len) : bits[m] \in {0, 1}
  <2> TAKE m \in 1..(8 * len)
  <2>1. PICK n \in 1..len, i \in 1..8 : m = 8 * (n - 1) + i
    <3>1. 1 + ((m - 1) \div 8) \in 1..len /\ 1 + ((m - 1) % 8) \in 1..8
      BY <1>2
    <3>2. m = 8 * ((1 + ((m - 1) \div 8)) - 1) + (1 + ((m - 1) % 8))
      BY <1>2
    <3> QED BY <3>1, <3>2
  <2>2. bits[m] = (bytes[n] \div Masks[i]) % 2 /\ bytes[n] \in 0..255
    BY <1>2, <1>4, <2>1
  <2>3. Masks[i] \in {128, 64, 32, 16, 8, 4, 2, 1}
    BY <1>5
  <2>4. \A b \in 0..255 : \A d \in {128, 64, 32, 16, 8, 4, 2, 1} : (b \div d) % 2 \in {0, 1}
    OBVIOUS
  <2> QED BY <2>2, <2>3, <2>4
<1>7. bits \in Seq(Nat) /\ Len(bits) = 8 * len
  <2>1. PICK m : m = 8 * len
    OBVIOUS
  <2>2. m \in Nat
    BY <1>2, <2>1
  <2>3. \A n \in 1..m : bits[n] \in Nat
    BY <1>6, <2>1
  <2>4. bits = [n \in 1..m |-> bits[n]]
    BY <1>3, <2>1
  <2> HIDE DEF bits
  <2>5. bits \in Seq(Nat) /\ Len(bits) = m
    BY <2>2, <2>3, <2>4
  <2> QED BY <2>1, <2>5
<1> HIDE DEF bits
<1>8. PICK v : Values(2, bits, v) /\ Number(2, bits) = v[8 * len]
  BY <1>7, NumberIsLast
<1>9. PICK u : Values(256, bytes, u) /\ Number(256, bytes) = u[len]
  BY <1>1, <1>2, NumberIsLast
<1> DEFINE S == {n \in 0..len : v[8 * n] = u[n]}
<1>10. 0 \in S
  BY <1>2, <1>8, <1>9 DEF Values
<1>11. ASSUME NEW n \in 1..len, n - 1 \in S PROVE n \in S
  <2>1. PICK k : k = 8 * (n - 1)
    OBVIOUS
  <2>2. k \in Nat /\ k + 8 = 8 * n /\ k + 8 <= 8 * len
    BY <1>2, <2>1
  <2>3. PICK b : b = bytes[n]
    OBVIOUS
  <2>4. b \in 0..255
    BY <1>2, <2>3
  <2>5. v \in [0..(8 * len) -> Nat]
    BY <1>7, <1>8 DEF Values
  <2>6. ASSUME NEW i \in 1..8
        PROVE  v[k + i] = 2 * v[(k + i) - 1] + bits[k + i] /\ bits[k + i] = (b \div Masks[i]) % 2
    <3>1. k + i \in 1..Len(bits)
      BY <1>2, <1>7, <2>2
    <3>2. v[k + i] = 2 * v[(k + i) - 1] + bits[k + i]
      BY <1>8, <3>1 DEF Values
    <3>3. bits[k + i] = (b \div Masks[i]) % 2
      BY <1>4, <2>1, <2>3
    <3> QED BY <3>2, <3>3
  <2>7. /\ bits[k + 1] = (b \div 128) % 2
        /\ bits[k + 2] = (b \div 64) % 2
        /\ bits[k + 3] = (b \div 32) % 2
        /\ bits[k + 4] = (b \div 16) % 2
        /\ bits[k + 5] = (b \div 8) % 2
        /\ bits[k + 6] = (b \div 4) % 2
        /\ bits[k + 7] = (b \div 2) % 2
        /\ bits[k + 8] = b % 2
    <3>1. ASSUME NEW i \in 1..8, NEW d, d = Masks[i] PROVE bits[k + i] = (b \div d) % 2
      BY <2>6, <3>1
    <3>2. bits[k + 1] = (b \div 128) % 2
      BY <1>5, <3>1
    <3>3. bits[k + 2] = (b \div 64) % 2
      BY <1>5, <3>1
    <3>4. bits[k + 3] = (b \div 32) % 2
      BY <1>5, <3>1
    <3>5. bits[k + 4] = (b \div 16) % 2
      BY <1>5, <3>1
    <3>6. bits[k + 5] = (b \div 8) % 2
      BY <1>5, <3>1
    <3>7. bits[k + 6] = (b \div 4) % 2
      BY <1>5, <3>1
    <3>8. bits[k + 7] = (b \div 2) % 2
      BY <1>5, <3>1
    <3>9. bits[k + 8] = (b \div 1) % 2
      BY <1>5, <3>1
    <3>10. b \div 1 = b
      BY <2>4
    <3> QED BY <3>2, <3>3, <3>4, <3>5, <3>6, <3>7, <3>8, <3>9, <3>10
  <2>8. /\ v[k + 1] = 2 * v[k] + bits[k + 1]
        /\ v[k + 2] = 2 * v[k + 1] + bits[k + 2]
        /\ v[k + 3] = 2 * v[k + 2] + bits[k + 3]
        /\ v[k + 4] = 2 * v[k + 3] + bits[k + 4]
        /\ v[k + 5] = 2 * v[k + 4] + bits[k + 5]
        /\ v[k + 6] = 2 * v[k + 5] + bits[k + 6]
        /\ v[k + 7] = 2 * v[k + 6] + bits[k + 7]
        /\ v[k + 8] = 2 * v[k + 7] + bits[k + 8]
    BY <2>2, <2>6
  <2>9. v[k + 8] = 256 * v[k] + b
    <3>1. v[k] \in Nat
      BY <2>2, <2>5, <1>2
    <3>2. ShiftsByte(v, bits, k, b)
      BY <2>7, <2>8, <3>1 DEF ShiftsByte
    <3> QED BY <2>4, <3>2, EightBits
  <2>10. u[n] = 256 * u[n - 1] + b /\ u[n - 1] = v[k]
    BY <1>1, <1>9, <1>11, <2>1, <2>3 DEF Values
  <2> QED BY <2>2, <2>9, <2>10
<1>12. len \in S
  <2>1. \A n \in 0..len : n \in S
    <3> HIDE DEF S
    <3> QED BY <1>2, <1>10, <1>11, LoopInduction
  <2> QED BY <1>2, <2>1
<1>13. v[8 * len] = u[len]
  BY <1>12
<1> QED BY <1>1, <1>6, <1>7, <1>8, <1>9, <1>13 DEF bits

\* A multiple of the modulus and a rest below it
LEMMA Rest ==
  ASSUME NEW m \in Nat, NEW power \in Nat, NEW rest \in 0..(power - 1)
  PROVE  (m * power + rest) % power = rest
<1> DEFINE x == m * power + rest
<1>1. power > 0 /\ m * power \in Nat /\ x \in Nat
  OBVIOUS
<1>2. x = power * (x \div power) + (x % power) /\ x % power \in 0..(power - 1) /\ x \div power \in Int
  <2> HIDE DEF x
  <2> QED BY <1>1
<1>3. PICK d \in Int : d = (x \div power) - m
  <2>1. (x \div power) - m \in Int
    <3> HIDE DEF x
    <3> QED BY <1>2
  <2> QED BY <2>1
<1>4. power * d = rest - (x % power)
  <2>1. x \div power = m + d
    BY <1>2, <1>3
  <2>2. m * power + rest = power * (m + d) + (x % power)
    BY <1>2, <2>1
  <2> QED BY <1>2, <2>2
<1>5. d = 0
  <2>1. d >= 1 => power * d >= power
    BY <1>1
  <2>2. d <= -1 => power * d <= -power
    BY <1>1
  <2> QED BY <1>2, <1>4, <2>1, <2>2
<1> QED BY <1>2, <1>4, <1>5

\* bcdOut after each bit
LEMMA BcdIsDefined ==
  ASSUME NEW bytes \in Seq(0..255)
  PROVE  \E q : /\ q \in [0..Len(Bits(bytes)) -> Digits]
                /\ q[0] = [k \in Places |-> 0]
                /\ \A n \in 1..Len(Bits(bytes)) : q[n] = Shifted(q[n - 1], Bits(bytes)[n])
                /\ ToBcd(bytes) = q[Len(Bits(bytes))]
<1>1. PICK bits : bits = Bits(bytes)
  OBVIOUS
<1>2. PICK len : len = Len(bits)
  OBVIOUS
<1>3. len \in Nat /\ \A n \in 1..len : bits[n] \in {0, 1}
  <2>1. bits \in Seq(Nat) /\ \A n \in 1..len : bits[n] \in {0, 1}
    BY <1>1, <1>2, BitsOfBytes
  <2> QED BY <1>2, <2>1
<1> DEFINE zero == [k \in Places |-> 0]
           turn == [n \in 1..len |-> [bcd \in Digits |-> Shifted(bcd, bits[n])]]
           IsValue(q) == q = [n \in 0..len |-> IF n = 0 THEN zero ELSE Shifted(q[n - 1], bits[n])]
<1>4. zero \in Digits
  BY DEF Digits
<1>5. turn \in [1..len -> [Digits -> Digits]]
  <2>1. \A n \in 1..len : \A bcd \in Digits : Shifted(bcd, bits[n]) \in Digits
    BY <1>3, Doubled
  <2> QED BY <2>1
<1>6. PICK p : LoopValues(p, len, Digits, zero, turn)
  <2> HIDE DEF zero, turn
  <2> QED BY <1>3, <1>4, <1>5, LoopDefined
<1>7. /\ p \in [0..len -> Digits] /\ p[0] = zero
      /\ \A n \in 1..len : p[n] = Shifted(p[n - 1], bits[n])
  <2>1. ASSUME NEW n \in 1..len PROVE p[n] = Shifted(p[n - 1], bits[n])
    <3>1. n - 1 \in 0..len /\ p \in [0..len -> Digits]
      BY <1>3, <1>6 DEF LoopValues
    <3>2. p[n - 1] \in Digits
      BY <3>1
    <3>3. p[n] = turn[n][p[n - 1]]
      BY <1>6 DEF LoopValues
    <3> QED BY <3>2, <3>3
  <2> QED BY <1>6, <2>1 DEF LoopValues
<1> HIDE DEF zero
<1>8. IsValue(p)
  BY <1>3, <1>7
<1>9. ASSUME NEW q, IsValue(q) PROVE q = p
  <2>1. SameTurns(q, p, len)
    <3>1. q[0] = zero
      BY <1>3, <1>9
    <3>2. \A n \in 1..len : q[n] = Shifted(q[n - 1], bits[n])
      BY <1>3, <1>9
    <3> QED BY <1>7, <3>1, <3>2 DEF SameTurns
  <2>2. \A n \in 0..len : q[n] = p[n]
    BY <1>3, <2>1, SameLoop
  <2> QED BY <1>7, <1>9, <2>2
<1>10. ToBcd(bytes) = (CHOOSE q : IsValue(q))[len]
  BY <1>1, <1>2 DEF ToBcd, zero
<1> HIDE DEF IsValue
<1>11. (CHOOSE q : IsValue(q)) = p
  BY <1>8, <1>9
<1> QED BY <1>1, <1>2, <1>7, <1>10, <1>11 DEF zero

\* bcdOut holds the lowest digits of the number.
LEMMA BcdIsRest ==
  ASSUME NEW bytes \in Seq(0..255)
  PROVE  /\ ToBcd(bytes) \in Digits
         /\ Number(10, Written(ToBcd(bytes))) = Number(256, bytes) % Decimals(2 * BcdLen)
<1>1. PICK bits, power : bits = Bits(bytes) /\ power = Decimals(2 * BcdLen)
  OBVIOUS
<1>2. PICK len : len = Len(bits)
  OBVIOUS
<1>3. /\ len \in Nat /\ bits \in Seq(Nat) /\ \A n \in 1..len : bits[n] \in {0, 1}
      /\ Number(2, bits) = Number(256, bytes)
  <2>1. /\ bits \in Seq(Nat) /\ \A n \in 1..len : bits[n] \in {0, 1}
        /\ Number(2, bits) = Number(256, bytes)
    BY <1>1, <1>2, BitsOfBytes
  <2> QED BY <1>2, <2>1
<1>4. PICK q : /\ q \in [0..len -> Digits] /\ q[0] = [k \in Places |-> 0]
               /\ \A n \in 1..len : q[n] = Shifted(q[n - 1], bits[n])
               /\ ToBcd(bytes) = q[len]
  BY <1>1, <1>2, BcdIsDefined
<1>5. PICK v : Values(2, bits, v) /\ Number(2, bits) = v[len]
  BY <1>2, <1>3, NumberIsLast
<1>6. power \in Nat /\ \A bcd \in Digits : Number(10, Written(bcd)) \in 0..(power - 1)
  <2>1. [k \in Places |-> 0] \in Digits
    BY DEF Digits
  <2> QED BY <1>1, <2>1, Bounded
<1> DEFINE Holds(n) == \E m \in Nat : v[n] = m * power + Number(10, Written(q[n]))
           S == {n \in 0..len : Holds(n)}
<1>7. 0 \in S
  <2>1. PICK bcd : bcd = [k \in Places |-> 0]
    OBVIOUS
  <2>2. bcd \in Digits
    BY <2>1 DEF Digits
  <2>3. Number(10, Written(bcd)) = Number(10, <<>>)
    <3>1. \A n \in 1..(2 * BcdLen) : Written(bcd)[n] = 0
      <4> TAKE n \in 1..(2 * BcdLen)
      <4>1. 2 * BcdLen + 1 - n \in Places
        BY FormatsAssumption DEF Places
      <4> QED BY <2>1, <4>1 DEF Written
    <3>2. PICK none \in Seq(Nat) : none = <<>>
      <4>1. <<>> \in Seq(Nat)
        OBVIOUS
      <4> QED BY <4>1
    <3>3. Len(none) = 0 /\ \A n \in 1..Len(none) : Written(bcd)[2 * BcdLen + n] = none[n]
      BY <3>2
    <3>4. /\ Written(bcd) \in Seq(Nat) /\ 2 * BcdLen \in Nat
          /\ Len(Written(bcd)) = 2 * BcdLen + Len(none)
      BY <2>2, <3>3, WrittenType
    <3>5. Number(10, Written(bcd)) = Number(10, none)
      BY <3>1, <3>3, <3>4, LeadingZeros
    <3> QED BY <3>2, <3>5
  <2>4. Number(10, <<>>) = 0
    <3>1. PICK none \in Seq(Nat) : none = <<>>
      <4>1. <<>> \in Seq(Nat)
        OBVIOUS
      <4> QED BY <4>1
    <3>2. Len(none) = 0
      BY <3>1
    <3>3. PICK u : Values(10, none, u)
      BY NumberIsLast
    <3>4. Number(10, none) = u[Len(none)]
      BY <3>3, NumberIsLast
    <3> QED BY <3>1, <3>2, <3>3, <3>4 DEF Values
  <2>5. v[0] = 0 * power + Number(10, Written(q[0]))
    BY <1>4, <1>5, <1>6, <2>1, <2>3, <2>4 DEF Values
  <2> QED BY <1>3, <2>5
<1>8. ASSUME NEW n \in 1..len, n - 1 \in S PROVE n \in S
  <2>1. PICK m \in Nat : v[n - 1] = m * power + Number(10, Written(q[n - 1]))
    BY <1>8
  <2>2. n - 1 \in 0..len
    BY <1>3
  <2>3. q[n - 1] \in Digits /\ bits[n] \in {0, 1} /\ q[n] = Shifted(q[n - 1], bits[n])
    BY <1>3, <1>4, <2>2
  <2>4. PICK c \in {0, 1} :
          2 * Number(10, Written(q[n - 1])) + bits[n] = Number(10, Written(q[n])) + Lost(c, power)
    BY <1>1, <2>3, Doubled
  <2>5. v[n] = 2 * v[n - 1] + bits[n]
    BY <1>2, <1>5 DEF Values
  <2>6. PICK x, y, b : x = Number(10, Written(q[n - 1])) /\ y = Number(10, Written(q[n])) /\ b = bits[n]
    OBVIOUS
  <2>7. x \in Nat /\ y \in Nat /\ b \in Nat
    <3>1. q[n] \in Digits
      BY <1>4
    <3> QED BY <1>6, <2>3, <2>6, <3>1
  <2>8. PICK l \in Nat : l = m * power
    BY <1>6
  <2>9. v[n] = 2 * (l + x) + b /\ 2 * x + b = y + Lost(c, power)
    BY <2>1, <2>4, <2>5, <2>6, <2>8
  <2>10. v[n] = (2 * m + c) * power + y
    <3>1. CASE c = 0
      <4>1. v[n] = 2 * l + y
        BY <1>6, <2>7, <2>8, <2>9, <3>1 DEF Lost
      <4>2. (2 * m + 0) * power = 2 * l
        BY <1>6, <2>8
      <4> QED BY <3>1, <4>1, <4>2
    <3>2. CASE c = 1
      <4>1. v[n] = 2 * l + power + y
        BY <1>6, <2>7, <2>8, <2>9, <3>2 DEF Lost
      <4>2. (2 * m + 1) * power = 2 * l + power
        BY <1>6, <2>8
      <4> QED BY <3>2, <4>1, <4>2
    <3> QED BY <3>1, <3>2
  <2>11. 2 * m + c \in Nat
    OBVIOUS
  <2>12. Holds(n)
    BY <2>6, <2>10, <2>11
  <2> HIDE DEF Holds
  <2> QED BY <1>3, <2>12
<1>9. Holds(len)
  <2>1. \A n \in 0..len : n \in S
    <3> HIDE DEF S
    <3> QED BY <1>3, <1>7, <1>8, LoopInduction
  <2> HIDE DEF Holds
  <2> QED BY <1>3, <2>1
<1>10. q[len] \in Digits
  BY <1>3, <1>4
<1>11. PICK m \in Nat : v[len] = m * power + Number(10, Written(q[len]))
  BY <1>9
<1>12. v[len] % power = Number(10, Written(q[len]))
  BY <1>6, <1>10, <1>11, Rest
<1> QED BY <1>1, <1>3, <1>4, <1>5, <1>10, <1>12

\* Of the digits of bcdOut, those are written that are not leading zeros.
LEMMA WrittenText ==
  ASSUME NEW bcd \in Digits
  PROVE  /\ Number(10, BcdText(bcd)) = Number(10, Written(bcd))
         /\ Len(BcdText(bcd)) > 1 => BcdText(bcd)[1] # 0
<1>1. PICK places : places = 2 * BcdLen
  OBVIOUS
<1>2. places \in Nat /\ places >= 1 /\ Places = 1..places
  BY <1>1, FormatsAssumption DEF Places
<1> DEFINE T == {1} \cup {k \in Places : bcd[k] # 0}
<1>3. PICK top : top = Max(T)
  OBVIOUS
<1>4. top \in T /\ \A k \in T : top >= k
  <2> DEFINE R == {places - k : k \in T}
  <2>1. R \in SUBSET Nat /\ R # {}
    BY <1>2
  <2>2. PICK r \in R : \A n \in R : r <= n
    BY <2>1, LeastElement
  <2>3. PICK k \in T : r = places - k
    OBVIOUS
  <2>4. \A j \in T : k >= j
    <3> TAKE j \in T
    <3>1. r <= places - j
      BY <2>2
    <3> QED BY <1>2, <2>3, <3>1
  <2> HIDE DEF T
  <2> QED BY <1>3, <2>4 DEF Max
<1>5. top \in 1..places /\ (top > 1 => bcd[top] # 0) /\ \A k \in Places : k > top => bcd[k] = 0
  BY <1>2, <1>4
<1>6. BcdText(bcd) = [n \in 1..top |-> bcd[top + 1 - n]]
  BY <1>3 DEF BcdText
<1> HIDE DEF T
<1>7. PICK text : text = BcdText(bcd)
  OBVIOUS
<1>8. text \in Seq(Nat) /\ Len(text) = top
  <2>1. \A n \in 1..top : bcd[top + 1 - n] \in Nat
    <3> TAKE n \in 1..top
    <3>1. top + 1 - n \in Places
      BY <1>2, <1>5
    <3> QED BY <3>1 DEF Digits
  <2> QED BY <1>5, <1>6, <1>7, <2>1
<1>9. PICK zeros : zeros = places - top
  OBVIOUS
<1>10. zeros \in Nat /\ places = zeros + top
  BY <1>2, <1>5, <1>9
<1>11. ASSUME NEW n \in 1..zeros PROVE Written(bcd)[n] = 0
  <2>1. places + 1 - n \in Places /\ places + 1 - n > top
    BY <1>2, <1>5, <1>10
  <2>2. Written(bcd)[n] = bcd[places + 1 - n]
    BY <1>1, <1>2, <1>5, <1>10 DEF Written
  <2> QED BY <1>5, <2>1, <2>2
<1>12. ASSUME NEW n \in 1..top PROVE Written(bcd)[zeros + n] = text[n]
  <2>1. zeros + n \in 1..places /\ places + 1 - (zeros + n) = top + 1 - n
    BY <1>2, <1>5, <1>10
  <2>2. Written(bcd)[zeros + n] = bcd[places + 1 - (zeros + n)]
    BY <1>1, <2>1 DEF Written
  <2> QED BY <1>6, <1>7, <2>1, <2>2
<1>13. Number(10, Written(bcd)) = Number(10, text)
  BY <1>1, <1>8, <1>10, <1>11, <1>12, WrittenType, LeadingZeros
<1>14. text[1] = bcd[top]
  BY <1>5, <1>6, <1>7
<1> QED BY <1>5, <1>7, <1>8, <1>13, <1>14

\* The id that is shown is the number its bytes are, or the lowest digits of it,
\* with no zero in front (bignum.c:84-148).
THEOREM NumbersOfIdsAreExact ==
  ASSUME NEW bytes \in Seq(0..255)
  PROVE  /\ Number(10, IdText(bytes)) = Number(256, bytes) % Decimals(2 * BcdLen)
         /\ Len(IdText(bytes)) > 1 => IdText(bytes)[1] # 0
BY BcdIsRest, WrittenText DEF IdText
===============================================================================
