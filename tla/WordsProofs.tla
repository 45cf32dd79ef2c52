---------------------------- MODULE WordsProofs ----------------------------
(***************************************************************************)
(* What the multiplications, the divisions and the widening instructions   *)
(* leave in eax, edx and the operand, for every width and every content of *)
(* the registers.  The properties are about the one instruction that ran,  *)
(* so with the types of the registers they are inductive as they stand.    *)
(***************************************************************************)
EXTENDS Words, TLAPS

Word == 0..(Mod(4) - 1)

Instructions ==
  {"mul", "imul1", "imul2", "imul3", "imul6B", "imul69", "div", "idiv", "cbw", "cwde", "cwd",
   "cdq", "movsx", "movzx", "xchg", "bound"}

\* The registers hold words and the history what one instruction found.
WordsTypeOK ==
  /\ eax \in Word /\ edx \in Word /\ rm \in Word /\ size \in Sizes
  /\ last = Unexecuted => status = "ok"
  /\ last # Unexecuted => last.op \in Instructions

WordsInv == WordsTypeOK /\ ProductsExact /\ QuotientsExact /\ WideningExact

---------------------------------------------------------------------------
(* Integers *)

\* The remainder and the quotient of an integer.
LEMMA Division ==
  ASSUME NEW v \in Int, NEW m \in Nat, m > 0
  PROVE  /\ v % m \in Int /\ 0 <= v % m /\ v % m < m
         /\ v \div m \in Int /\ v = m * (v \div m) + (v % m)
OBVIOUS

\* A quotient and a remainder are determined by the equation they solve.
LEMMA DivisionUnique ==
  ASSUME NEW v \in Int, NEW m \in Nat, m > 0, NEW q \in Int, NEW r \in Int,
         v = m * q + r, 0 <= r, r < m
  PROVE  v \div m = q /\ v % m = r
OBVIOUS

\* Quotient() rounds to zero: the remainder is smaller than the divisor and
\* has the sign of the dividend.
LEMMA QuotientRounds ==
  ASSUME NEW a \in Int, NEW b \in Int, b # 0
  PROVE  /\ Quotient(a, b) \in Int /\ Remainder(a, b) \in Int
         /\ a = b * Quotient(a, b) + Remainder(a, b)
         /\ b > 0 => -b < Remainder(a, b) /\ Remainder(a, b) < b
         /\ b < 0 => b < Remainder(a, b) /\ Remainder(a, b) < -b
         /\ Remainder(a, b) # 0 => ((Remainder(a, b) < 0) <=> (a < 0))
<1> DEFINE x == IF a < 0 THEN -a ELSE a
           y == IF b < 0 THEN -b ELSE b
           q == x \div y  r == x % y
<1>1. x \in Int /\ x >= 0 /\ y \in Nat /\ y > 0
  OBVIOUS
<1>2. q \in Int /\ r \in Int /\ x = y * q + r /\ 0 <= r /\ r < y
  <2> HIDE DEF x, y
  <2> QED
    BY <1>1, Division
<1>3. Quotient(a, b) = IF (a < 0) = (b < 0) THEN q ELSE -q
  <2>1. CASE a < 0 /\ b < 0
    BY <2>1 DEF Quotient
  <2>2. CASE a < 0 /\ ~(b < 0)
    BY <2>2 DEF Quotient
  <2>3. CASE ~(a < 0) /\ b < 0
    BY <2>3 DEF Quotient
  <2>4. CASE ~(a < 0) /\ ~(b < 0)
    BY <2>4 DEF Quotient
  <2> QED
    BY <2>1, <2>2, <2>3, <2>4
<1> HIDE DEF q, r
<1>4. Remainder(a, b) = IF a < 0 THEN -r ELSE r
  <2>1. CASE a < 0 /\ b < 0
    BY <1>2, <1>3, <2>1 DEF Remainder
  <2>2. CASE a < 0 /\ ~(b < 0)
    BY <1>2, <1>3, <2>2 DEF Remainder
  <2>3. CASE ~(a < 0) /\ b < 0
    BY <1>2, <1>3, <2>3 DEF Remainder
  <2>4. CASE ~(a < 0) /\ ~(b < 0)
    BY <1>2, <1>3, <2>4 DEF Remainder
  <2> QED
    BY <2>1, <2>2, <2>3, <2>4
<1>5. Quotient(a, b) \in Int
  BY <1>2, <1>3
<1>6. a = b * Quotient(a, b) + Remainder(a, b)
  <2> DEFINE z == Quotient(a, b)  p == b * z
  <2>1. z \in Int /\ p \in Int /\ Remainder(a, b) = a - p
    BY <1>5 DEF Remainder
  <2> HIDE DEF z, p
  <2>2. a = p + Remainder(a, b)
    BY <2>1
  <2> QED
    BY <2>2 DEF p, z
<1> QED
  BY <1>1, <1>2, <1>4, <1>5, <1>6

---------------------------------------------------------------------------
(* Words *)

\* The power of a width splits at every bit.
LEMMA PowerSplit ==
  ASSUME NEW w \in 0..Width[4], NEW m \in 0..w
  PROVE  /\ 2 ^ m \in Nat /\ 2 ^ m > 0 /\ 2 ^ (w - m) \in Nat /\ 2 ^ (w - m) > 0
         /\ 2 ^ w = 2 ^ m * 2 ^ (w - m)
<1> DEFINE W == Width[4]
<1>1. W \in Nat
  BY WordsAssumption DEF Sizes
<1>2. \A i, j \in 0..W :
        2 ^ i \in Nat \ {0} /\ (i + j <= W => 2 ^ (i + j) = 2 ^ i * 2 ^ j)
  BY PowersAssumption
<1> HIDE DEF W
<1>3. m \in 0..W /\ w - m \in 0..W /\ m + (w - m) = w /\ w <= W
  BY <1>1 DEF W
<1>4. 2 ^ (m + (w - m)) = 2 ^ m * 2 ^ (w - m)
  BY <1>1, <1>2, <1>3
<1> QED
  BY <1>2, <1>3, <1>4

\* The widths of the sizes.
LEMMA Widths ==
  ASSUME NEW s \in Sizes, NEW t \in Sizes, s <= t
  PROVE  Width[s] > 0 /\ Width[t] \in 0..Width[4] /\ Width[s] \in 0..Width[t]
<1>1. Width[1] \in Nat /\ Width[2] \in Nat /\ Width[4] \in Nat /\ Width[1] > 0
      /\ Width[2] = 2 * Width[1] /\ Width[2] < Width[4]
  BY WordsAssumption DEF Sizes
<1> QED
  BY <1>1 DEF Sizes

\* A narrow operand fits a whole number of times into a wider one.
LEMMA Fitting ==
  ASSUME NEW s \in Sizes, NEW t \in Sizes, s <= t
  PROVE  \E k \in Nat : k > 0 /\ Mod(t) = Mod(s) * k
  BY Widths, PowerSplit DEF Mod

\* The moduli are even; that of a word is the square of that of a byte.
LEMMA Moduli ==
  /\ \A s \in Sizes : /\ Mod(s) \in Nat /\ Mod(s) > 1 /\ Mod(s) <= Mod(4)
                      /\ 2 ^ (Width[s] - 1) \in Nat /\ Mod(s) = 2 * 2 ^ (Width[s] - 1)
                      /\ 2 ^ (Width[s] - 1) > 0
  /\ Mod(2) = Mod(1) * Mod(1)
<1>1. ASSUME NEW s \in Sizes
      PROVE  /\ 2 ^ (Width[s] - 1) \in Nat /\ Mod(s) = 2 * 2 ^ (Width[s] - 1)
             /\ 2 ^ (Width[s] - 1) > 0
  <2>1. Width[s] \in 0..Width[4] /\ 1 \in 0..Width[s]
    <3>1. Width[s] > 0 /\ Width[s] \in 0..Width[4] /\ Width[4] \in Nat
      BY Widths, WordsAssumption DEF Sizes
    <3> QED
      BY <3>1
  <2>2. 2 ^ 1 = 2
    OBVIOUS
  <2> QED
    BY <2>1, <2>2, PowerSplit DEF Mod
<1>2. ASSUME NEW s \in Sizes
      PROVE  Mod(s) \in Nat /\ Mod(s) > 1 /\ Mod(s) <= Mod(4)
  <2>1. Mod(s) \in Nat /\ Mod(s) > 1
    BY <1>1
  <2>2. s <= 4 /\ 4 \in Sizes
    BY DEF Sizes
  <2>3. PICK k \in Nat : k > 0 /\ Mod(4) = Mod(s) * k
    BY <2>2, Fitting
  <2> DEFINE m == Mod(s)
  <2>4. m <= m * k
    <3> HIDE DEF m
    <3> QED
      BY <2>1, <2>3 DEF m
  <2> QED
    BY <2>1, <2>3, <2>4
<1>3. Mod(2) = Mod(1) * Mod(1)
  <2>1. /\ Width[2] \in 0..Width[4] /\ Width[1] \in 0..Width[2]
        /\ Width[2] - Width[1] = Width[1]
    BY Widths, WordsAssumption DEF Sizes
  <2> QED
    BY <2>1, PowerSplit DEF Mod
<1> QED
  BY <1>1, <1>2, <1>3

\* Integers that differ by a multiple of the modulus have the same low part,
\* and the low part is the only one that is a word of the size.
LEMMA Congruent ==
  ASSUME NEW s \in Sizes, NEW u \in Int, NEW v \in Int, NEW k \in Int, u = v + Mod(s) * k
  PROVE  Low(u, s) = Low(v, s)
<1> DEFINE m == Mod(s)  q == v \div m  l == v % m
<1>1. m \in Nat /\ m > 0 /\ u = v + m * k
  BY Moduli
<1> HIDE DEF m
<1>2. q \in Int /\ l \in Int /\ 0 <= l /\ l < m /\ v = m * q + l
  BY <1>1, Division
<1> HIDE DEF q, l
<1>3. u = m * (q + k) + l /\ q + k \in Int
  BY <1>1, <1>2
<1>4. u % m = l
  BY <1>1, <1>2, <1>3, DivisionUnique
<1> QED
  BY <1>4 DEF Low, m, l

\* The low part is a word of the size.
LEMMA LowRange ==
  ASSUME NEW s \in Sizes, NEW v \in Int
  PROVE  /\ Low(v, s) \in Int /\ 0 <= Low(v, s) /\ Low(v, s) < Mod(s)
         /\ v \div Mod(s) \in Int /\ v = Mod(s) * (v \div Mod(s)) + Low(v, s)
<1> DEFINE m == Mod(s)
<1>1. m \in Nat /\ m > 0
  BY Moduli
<1> HIDE DEF m
<1>2. /\ v % m \in Int /\ 0 <= v % m /\ v % m < m
      /\ v \div m \in Int /\ v = m * (v \div m) + (v % m)
  BY <1>1, Division
<1> QED
  BY <1>2 DEF Low, m

\* A word of the size is its own low part.
LEMMA LowOfWord ==
  ASSUME NEW s \in Sizes, NEW v \in Int, 0 <= v, v < Mod(s)
  PROVE  Low(v, s) = v /\ v \div Mod(s) = 0
<1> DEFINE m == Mod(s)
<1>1. m \in Nat /\ m > 0 /\ v = m * 0 + v /\ v < m
  BY Moduli
<1> HIDE DEF m
<1> QED
  BY <1>1, DivisionUnique DEF Low, m

\* A double word has two halves, which determine it.
LEMMA TwoHalves ==
  ASSUME NEW s \in Sizes, NEW l \in Int, 0 <= l, l < Mod(s), NEW h \in Int
  PROVE  /\ Low(l + Mod(s) * h, s) = l
         /\ (l + Mod(s) * h) \div Mod(s) = h
         /\ Mod(s) * h \in Int
<1> DEFINE m == Mod(s)
<1>1. m \in Nat /\ m > 0 /\ l < m
  BY Moduli
<1> HIDE DEF m
<1>2. m * h \in Int /\ l + m * h = m * h + l /\ l + m * h \in Int
  BY <1>1
<1>3. (l + m * h) \div m = h /\ (l + m * h) % m = l
  BY <1>1, <1>2, DivisionUnique
<1> QED
  BY <1>2, <1>3 DEF Low, m

\* The low part of a low part.
LEMMA LowOfLow ==
  ASSUME NEW s \in Sizes, NEW t \in Sizes, s <= t, NEW v \in Int
  PROVE  Low(Low(v, t), s) = Low(v, s)
<1>1. PICK k \in Nat : Mod(t) = Mod(s) * k
  BY Fitting
<1> DEFINE m == Mod(s)  q == v \div Mod(t)  l == Low(v, t)
<1>2. m \in Nat /\ q \in Int /\ l \in Int /\ v = (m * k) * q + l
  BY <1>1, LowRange, Moduli
<1> HIDE DEF m, q, l
<1>3. v = l + m * (k * q) /\ k * q \in Int
  BY <1>1, <1>2
<1>4. Low(v, s) = Low(l, s)
  BY <1>2, <1>3, Congruent DEF m
<1> QED
  BY <1>4 DEF l

\* What is read back from a store is what was stored, the bytes above it
\* keep their value, and the register holds a word.
LEMMA PutReads ==
  ASSUME NEW r \in Word, NEW s \in Sizes, NEW v \in Int
  PROVE  /\ Put(r, s, v) \in Word
         /\ Low(Put(r, s, v), s) = Low(v, s)
         /\ Put(r, s, v) - Low(v, s) = r - Low(r, s)
         /\ Put(r, s, v) \div Mod(s) = r \div Mod(s)
         /\ Put(r, s, v) = Mod(s) * (r \div Mod(s)) + Low(v, s)
<1> DEFINE m == Mod(s)  q == r \div m  l == Low(r, s)  x == Low(v, s)  t == Put(r, s, v)
<1>1. PICK k \in Nat : k > 0 /\ Mod(4) = m * k
  <2>1. s <= 4 /\ 4 \in Sizes
    BY DEF Sizes
  <2> QED
    BY <2>1, Fitting
<1>2. m \in Nat /\ m > 0 /\ Mod(4) \in Nat
  BY Moduli DEF Sizes
<1>3. r \in Int /\ 0 <= r /\ r < m * k
  BY <1>1, <1>2 DEF Word
<1>4. /\ q \in Int /\ l \in Int /\ r = m * q + l /\ 0 <= l /\ l < m
      /\ x \in Int /\ 0 <= x /\ x < m
  BY <1>3, LowRange
<1>5. t = (r - l) + x
  BY DEF Put
<1> HIDE DEF m, q, l, x, t
<1>6. t \in Int /\ t = m * q + x /\ t - x = r - l
  BY <1>2, <1>3, <1>4, <1>5
<1>7. t \div m = q /\ t % m = x
  BY <1>2, <1>4, <1>6, DivisionUnique
<1>8. 0 <= q /\ q <= k - 1
  BY <1>1, <1>2, <1>3, <1>4
<1>9. 0 <= t /\ t < m * k
  <2>1. 0 <= m * q /\ m * q <= m * (k - 1) /\ m * (k - 1) = m * k - m
    BY <1>1, <1>2, <1>4, <1>8
  <2> QED
    BY <1>1, <1>2, <1>4, <1>6, <2>1
<1>10. t \in Word
  BY <1>1, <1>2, <1>6, <1>9 DEF Word
<1>11. Low(t, s) = x
  BY <1>7 DEF Low, m
<1> QED
  BY <1>6, <1>7, <1>10, <1>11 DEF m, q, l, x, t

---------------------------------------------------------------------------
(* Signed values *)

\* Signed(v, s) is the integer between -2^(w-1) and 2^(w-1) - 1 with the low
\* part of v.
LEMMA SignedRange ==
  ASSUME NEW s \in Sizes, NEW v \in Int
  PROVE  /\ Signed(v, s) \in Int /\ Low(Signed(v, s), s) = Low(v, s)
         /\ -Mod(s) <= 2 * Signed(v, s) /\ 2 * Signed(v, s) < Mod(s)
         /\ Top(v, s) <=> Signed(v, s) < 0
         /\ Top(v, s) <=> Mod(s) <= 2 * Low(v, s)
         /\ Signed(v, s) = IF Mod(s) <= 2 * Low(v, s) THEN Low(v, s) - Mod(s) ELSE Low(v, s)
<1> DEFINE m == Mod(s)  l == Low(v, s)  h == 2 ^ (Width[s] - 1)
<1>1. m \in Nat /\ h \in Nat /\ h > 0 /\ m = 2 * h
  BY Moduli
<1>2. l \in Int /\ 0 <= l /\ l < m
  BY LowRange
<1>3. Top(v, s) <=> l \div h # 0
  BY DEF Top, sign
<1>4. Signed(v, s) = IF Top(v, s) THEN l - m ELSE l
  BY DEF Signed
<1> HIDE DEF m, l, h
<1>5. l \div h # 0 <=> h <= l
  <2>1. CASE h <= l
    <3>1. l = h * 1 + (l - h) /\ 0 <= l - h /\ l - h < h
      BY <1>1, <1>2, <2>1
    <3>2. l \div h = 1
      BY <1>1, <1>2, <3>1, DivisionUnique
    <3> QED
      BY <2>1, <3>2
  <2>2. CASE l < h
    <3>1. l = h * 0 + l
      BY <1>1, <1>2
    <3>2. l \div h = 0
      BY <1>1, <1>2, <2>2, <3>1, DivisionUnique
    <3> QED
      BY <1>1, <1>2, <2>2, <3>2
  <2> QED
    BY <1>1, <1>2, <2>1, <2>2
<1>6. /\ Top(v, s) <=> m <= 2 * l
      /\ Signed(v, s) = IF m <= 2 * l THEN l - m ELSE l
  BY <1>1, <1>2, <1>3, <1>4, <1>5
<1>7. Signed(v, s) \in Int /\ -m <= 2 * Signed(v, s) /\ 2 * Signed(v, s) < m
      /\ (Top(v, s) <=> Signed(v, s) < 0)
  BY <1>1, <1>2, <1>6
<1>8. Low(l, s) = l
  BY <1>2, LowOfWord DEF m
<1>9. Low(Signed(v, s), s) = l
  <2>1. CASE m <= 2 * l
    <3>1. Signed(v, s) = l + m * (-1)
      BY <1>1, <1>2, <1>6, <2>1
    <3> QED
      BY <1>2, <1>7, <1>8, <3>1, Congruent DEF m
  <2>2. CASE ~(m <= 2 * l)
    BY <1>6, <1>8, <2>2
  <2> QED
    BY <2>1, <2>2
<1> QED
  BY <1>6, <1>7, <1>9 DEF m, l

\* Equal low parts are equal signed values.
LEMMA SignedOfLow ==
  ASSUME NEW s \in Sizes, NEW u, NEW v, Low(u, s) = Low(v, s)
  PROVE  Signed(u, s) = Signed(v, s) /\ (Top(u, s) <=> Top(v, s))
  BY DEF Signed, Top

\* An integer in the range of the size is its own signed value.
LEMMA SignedOfSmall ==
  ASSUME NEW s \in Sizes, NEW v \in Int, -Mod(s) <= 2 * v, 2 * v < Mod(s)
  PROVE  Signed(v, s) = v
<1> DEFINE m == Mod(s)
<1>1. m \in Nat /\ m > 1
  BY Moduli
<1>2. CASE v >= 0
  <2>1. Low(v, s) = v
    BY <1>1, <1>2, LowOfWord
  <2> QED
    BY <1>1, <1>2, <2>1, SignedRange
<1>3. CASE v < 0
  <2>1. v + m \in Int /\ 0 <= v + m /\ v + m < m /\ v + m = v + m * 1
    BY <1>1, <1>3
  <2>2. Low(v, s) = v + m
    BY <1>1, <2>1, LowOfWord, Congruent
  <2> QED
    BY <1>1, <1>3, <2>2, SignedRange
<1> QED
  BY <1>2, <1>3

\* Extend() gives a word of the wider size with the same signed value.
LEMMA ExtendKeepsValue ==
  ASSUME NEW from \in Sizes, NEW to \in Sizes, from <= to, NEW v \in Int
  PROVE  /\ Extend(v, from, to) \in 0..(Mod(to) - 1)
         /\ Signed(Extend(v, from, to), to) = Signed(v, from)
<1> DEFINE n == Mod(from)  m == Mod(to)  l == Low(v, from)  x == Signed(v, from)
           e == Extend(v, from, to)
<1>1. PICK k \in Nat : k > 0 /\ m = n * k
  BY Fitting
<1>2. n \in Nat /\ n > 1 /\ m \in Nat
  BY Moduli
<1>3. n <= m
  <2> HIDE DEF n, m
  <2> QED
    BY <1>1, <1>2
<1>4. /\ l \in Int /\ 0 <= l /\ l < n /\ x \in Int /\ -n <= 2 * x /\ 2 * x < n
      /\ x = IF n <= 2 * l THEN l - n ELSE l
      /\ Top(v, from) <=> n <= 2 * l
  BY LowRange, SignedRange
<1>5. e = IF n <= 2 * l THEN l + m - n ELSE l
  BY <1>4 DEF Extend
<1> HIDE DEF n, m, l, x, e
<1>6. e \in 0..(m - 1) /\ e \in Int
  BY <1>2, <1>3, <1>4, <1>5
<1>7. \E j \in Int : e = x + m * j
  <2>1. CASE n <= 2 * l
    <3>1. e = x + m * 1
      BY <1>2, <1>4, <1>5, <2>1
    <3> QED
      BY <3>1
  <2>2. CASE ~(n <= 2 * l)
    <3>1. e = x + m * 0
      BY <1>2, <1>4, <1>5, <2>2
    <3> QED
      BY <3>1
  <2> QED
    BY <2>1, <2>2
<1>8. Low(e, to) = Low(x, to)
  BY <1>4, <1>6, <1>7, Congruent DEF m
<1>9. Signed(e, to) = Signed(x, to)
  BY <1>8, SignedOfLow
<1>10. -m <= 2 * x /\ 2 * x < m
  BY <1>2, <1>3, <1>4
<1>11. Signed(x, to) = x
  BY <1>4, <1>10, SignedOfSmall DEF m
<1> QED
  BY <1>6, <1>9, <1>11 DEF m, x, e

---------------------------------------------------------------------------
(* The steps *)

Multiplications == {"mul", "imul1", "imul2", "imul3", "imul6B"}
Widenings       == {"cbw", "cwde", "cwd", "cdq", "movsx", "movzx", "xchg"}

\* A property is about the instructions it names.
LEMMA About ==
  /\ last'.op \notin Multiplications => ProductsExact'
  /\ last'.op \notin {"div", "idiv"} => QuotientsExact'
  /\ last'.op \notin Widenings => WideningExact'
<1>1. last'.op \notin Multiplications => ProductsExact'
  BY DEF Multiplications, ProductsExact, Ran
<1>2. last'.op \notin {"div", "idiv"} => QuotientsExact'
  BY DEF QuotientsExact, DivExact, IdivExact, Ran
<1>3. last'.op \notin Widenings => WideningExact'
  BY DEF Widenings, WideningExact, Ran
<1> QED
  BY <1>1, <1>2, <1>3

\* What a handler that ends normally leaves.
LEMMA ResultStep ==
  ASSUME WordsTypeOK, NEW op \in Instructions, NEW imm, NEW a \in Word, NEW d \in Word, NEW r \in Word,
         NEW on, Result(op, imm, a, d, r, on)
  PROVE  /\ WordsTypeOK' /\ status' = "ok" /\ size' = size
         /\ eax' = a /\ edx' = d /\ rm' = r /\ eflags' = Update(eflags, on)
         /\ last'.op = op /\ last'.imm = imm
         /\ last'.eax = eax /\ last'.edx = edx /\ last'.rm = rm
<1>1. last = Unexecuted /\ status = "ok" /\ status' = status /\ size' = size
  BY DEF Result, Record, WordsTypeOK
<1>2. last' = [op |-> op, imm |-> imm, eax |-> eax, edx |-> edx, rm |-> rm]
  BY DEF Result, Record
<1>3. eax' = a /\ edx' = d /\ rm' = r /\ eflags' = Update(eflags, on)
  BY DEF Result
<1> QED
  BY <1>1, <1>2, <1>3 DEF WordsTypeOK

\* A handler that returns early leaves the registers.
LEMMA FailsStep ==
  ASSUME WordsTypeOK, NEW op \in Instructions, NEW code, code # "ok", Fails(op, code)
  PROVE  /\ WordsTypeOK' /\ status' # "ok" /\ size' = size
         /\ eax' = eax /\ edx' = edx /\ rm' = rm
         /\ last'.op = op /\ last'.eax = eax /\ last'.edx = edx /\ last'.rm = rm
<1>1. last' = [op |-> op, imm |-> 0, eax |-> eax, edx |-> edx, rm |-> rm]
  BY DEF Fails, Record
<1>2. eax' = eax /\ edx' = edx /\ rm' = rm /\ size' = size /\ status' = code
  BY DEF Fails, Record
<1>3. last' # Unexecuted
  BY <1>1 DEF Unexecuted, Instructions
<1> QED
  BY <1>1, <1>2, <1>3 DEF WordsTypeOK

\* The registers are integers; their low halves go where they are put.
LEMMA Registers ==
  ASSUME WordsTypeOK
  PROVE  eax \in Int /\ edx \in Int /\ rm \in Int /\ size \in Sizes /\ 1 \in Sizes /\ 2 \in Sizes
         /\ 4 \in Sizes /\ size <= 4 /\ 1 <= size
<1>1. Mod(4) \in Nat
  BY Moduli DEF Sizes
<1> QED
  BY <1>1 DEF WordsTypeOK, Word, Sizes

\* Widening inside the accumulator, and into edx.
LEMMA WideningStep ==
  ASSUME WordsTypeOK, cbw_i \/ cwde_i \/ cwd_i \/ cdq_i \/ xchg_i
  PROVE  WordsTypeOK' /\ WideningExact' /\ last'.op \in Widenings
<1>1. eax \in Word /\ edx \in Word /\ rm \in Word
  BY DEF WordsTypeOK
<1>2. \A s \in Sizes : Mod(s) \in Nat /\ Mod(s) > 1
  BY Moduli
<1>3. CASE cbw_i
  <2> DEFINE e == Extend(eax, 1, 2)  a == Put(eax, 2, e)
  <2>1. e \in Int /\ Signed(e, 2) = Signed(eax, 1)
    BY <1>2, Registers, ExtendKeepsValue
  <2> HIDE DEF e
  <2>2. a \in Word /\ Low(a, 2) = Low(e, 2) /\ a \div Mod(2) = eax \div Mod(2)
    BY <1>1, <2>1, Registers, PutReads
  <2>3. Signed(a, 2) = Signed(eax, 1)
    BY <2>1, <2>2, Registers, SignedOfLow
  <2>4. WordsTypeOK' /\ eax' = a /\ last'.op = "cbw" /\ last'.eax = eax
    BY <1>1, <1>3, <2>2, ResultStep DEF cbw_i, Instructions, e
  <2> HIDE DEF a
  <2> QED
    BY <2>2, <2>3, <2>4 DEF WideningExact, Ran, Widenings
<1>4. CASE cwde_i
  <2> DEFINE e == Extend(eax, 2, 4)
  <2>1. e \in Word /\ Signed(e, 4) = Signed(eax, 2)
    BY <1>2, Registers, ExtendKeepsValue DEF Word
  <2>2. WordsTypeOK' /\ eax' = e /\ last'.op = "cwde" /\ last'.eax = eax
    BY <1>1, <1>4, <2>1, ResultStep DEF cwde_i, Instructions
  <2> QED
    BY <2>1, <2>2 DEF WideningExact, Ran, Widenings
<1>5. CASE cwd_i
  <2> DEFINE v == IF Top(eax, 2) THEN Mod(2) - 1 ELSE 0  d == Put(edx, 2, v)
  <2>1. v \in Int /\ Low(v, 2) = v
    BY <1>2, Registers, LowOfWord
  <2>2. v = IF Signed(eax, 2) < 0 THEN Mod(2) - 1 ELSE 0
    BY Registers, SignedRange
  <2> HIDE DEF v
  <2>3. d \in Word /\ Low(d, 2) = v /\ d \div Mod(2) = edx \div Mod(2)
    BY <1>1, <2>1, Registers, PutReads
  <2>4. WordsTypeOK' /\ edx' = d /\ last'.op = "cwd" /\ last'.eax = eax /\ last'.edx = edx
    BY <1>1, <1>5, <2>3, ResultStep DEF cwd_i, Instructions, v
  <2> HIDE DEF d
  <2> QED
    BY <2>2, <2>3, <2>4 DEF WideningExact, Ran, Widenings
<1>6. CASE cdq_i
  <2> DEFINE d == IF Top(eax, 4) THEN Mod(4) - 1 ELSE 0
  <2>1. d \in Word /\ d \in Int /\ Low(d, 4) = d
    BY <1>2, Registers, LowOfWord DEF Word
  <2>2. d = IF Signed(eax, 4) < 0 THEN Mod(4) - 1 ELSE 0
    BY Registers, SignedRange
  <2>3. WordsTypeOK' /\ edx' = d /\ last'.op = "cdq" /\ last'.eax = eax
    BY <1>1, <1>6, <2>1, ResultStep DEF cdq_i, Instructions
  <2> HIDE DEF d
  <2>4. Signed(d, 4) = IF Mod(4) <= 2 * d THEN d - Mod(4) ELSE d
    BY <2>1, Registers, SignedRange
  <2>5. Signed(d, 4) = IF Signed(eax, 4) < 0 THEN -1 ELSE 0
    BY <1>2, <2>2, <2>4, Registers
  <2> QED
    BY <2>3, <2>5 DEF WideningExact, Ran, Widenings
<1>7. CASE xchg_i
  <2> DEFINE a == Put(eax, size, rm)  r == Put(rm, size, eax)
  <2>1. a \in Word /\ Low(a, size) = Low(rm, size) /\ a - Low(rm, size) = eax - Low(eax, size)
    BY <1>1, Registers, PutReads
  <2>2. r \in Word /\ Low(r, size) = Low(eax, size) /\ r - Low(eax, size) = rm - Low(rm, size)
    BY <1>1, Registers, PutReads
  <2>3. Low(eax, size) \in Int /\ Low(rm, size) \in Int
    BY Registers, LowRange
  <2>4. /\ WordsTypeOK' /\ size' = size /\ eax' = a /\ rm' = r
        /\ last'.op = "xchg" /\ last'.eax = eax /\ last'.rm = rm
    BY <1>1, <1>7, <2>1, <2>2, ResultStep DEF xchg_i, Instructions
  <2> HIDE DEF a, r
  <2>5. Put(a, size, r) = eax /\ Put(r, size, a) = rm
    BY <2>1, <2>2, <2>3, Registers DEF Put
  <2> QED
    BY <2>4, <2>5 DEF WideningExact, Ran, Widenings
<1> QED
  BY <1>3, <1>4, <1>5, <1>6, <1>7

\* Widening from the operand.
LEMMA MovxStep ==
  ASSUME WordsTypeOK, NEW from \in {1, 2}, movsx_i(from) \/ movzx_i(from)
  PROVE  WordsTypeOK' /\ WideningExact' /\ last'.op \in Widenings
<1>1. eax \in Word /\ edx \in Word /\ rm \in Word /\ from \in Sizes
  BY Registers DEF WordsTypeOK
<1>2. Mod(size) \in Nat
  BY Moduli, Registers
<1>3. from < size
  BY DEF movsx_i, movzx_i
<1>4. from <= size
  BY <1>3, Registers DEF Sizes
<1>5. CASE movsx_i(from)
  <2> DEFINE e == Extend(rm, from, size)  a == Put(eax, size, e)
  <2>1. e \in Int /\ Signed(e, size) = Signed(rm, from)
    <3>1. rm \in Int /\ size \in Sizes
      BY Registers
    <3>2. e \in 0..(Mod(size) - 1) /\ Signed(e, size) = Signed(rm, from)
      BY <1>1, <1>4, <3>1, ExtendKeepsValue
    <3> HIDE DEF e
    <3> QED
      BY <1>2, <3>2
  <2> HIDE DEF e
  <2>2. a \in Word /\ Low(a, size) = Low(e, size)
    BY <1>1, <2>1, Registers, PutReads
  <2>3. Signed(a, size) = Signed(rm, from)
    BY <2>1, <2>2, Registers, SignedOfLow
  <2>4. /\ WordsTypeOK' /\ size' = size /\ eax' = a
        /\ last'.op = "movsx" /\ last'.imm = from /\ last'.rm = rm
    BY <1>1, <1>5, <2>2, ResultStep DEF movsx_i, Instructions, e
  <2> HIDE DEF a
  <2> QED
    BY <2>3, <2>4 DEF WideningExact, Ran, Widenings
<1>6. CASE movzx_i(from)
  <2> DEFINE l == Low(rm, from)  a == Put(eax, size, l)
  <2>1. l \in Int /\ 0 <= l /\ l < Mod(from)
    BY <1>1, Registers, LowRange
  <2>2. PICK k \in Nat : k > 0 /\ Mod(size) = Mod(from) * k
    BY <1>1, <1>4, Registers, Fitting
  <2>3. Mod(from) \in Nat
    BY <1>1, Moduli
  <2>4. l < Mod(size)
    <3> DEFINE m == Mod(from)  n == Mod(size)
    <3>1. m \in Nat /\ n = m * k /\ l < m /\ n \in Nat
      BY <1>2, <2>1, <2>2, <2>3
    <3> HIDE DEF m, n, l
    <3>2. m <= n
      BY <2>2, <3>1
    <3>3. l < n
      BY <2>1, <3>1, <3>2
    <3> QED
      BY <3>3 DEF n
  <2>5. a \in Word /\ Low(a, size) = Low(l, size)
    BY <1>1, <2>1, Registers, PutReads
  <2>6. Low(l, size) = l
    BY <2>1, <2>4, Registers, LowOfWord
  <2>7. /\ WordsTypeOK' /\ size' = size /\ eax' = a
        /\ last'.op = "movzx" /\ last'.imm = from /\ last'.rm = rm
    BY <1>1, <1>6, <2>5, ResultStep DEF movzx_i, Instructions
  <2> HIDE DEF a
  <2> QED
    BY <2>5, <2>6, <2>7 DEF WideningExact, Ran, Widenings
<1> QED
  BY <1>5, <1>6

\* BOUND leaves the registers.
LEMMA BoundStep ==
  ASSUME WordsTypeOK, bound_i
  PROVE  WordsTypeOK' /\ last'.op = "bound"
<1>1. eax \in Word /\ edx \in Word /\ rm \in Word
  BY DEF WordsTypeOK
<1>2. CASE Result("bound", 0, eax, edx, rm, <<>>)
  BY <1>1, <1>2, ResultStep DEF Instructions
<1>3. CASE Fails("bound", "-5")
  BY <1>3, FailsStep DEF Instructions
<1> QED
  BY <1>2, <1>3 DEF bound_i

---------------------------------------------------------------------------
(* Multiplication *)

\* Two bytes in AX.
LEMMA TwoBytes ==
  ASSUME NEW r \in Word, NEW l \in Int, 0 <= l, l < Mod(1), NEW h \in Int, 0 <= h, h < Mod(1)
  PROVE  LET a == Put(r, 2, l + Mod(1) * h) IN
           /\ a \in Word /\ Low(a, 2) = l + Mod(1) * h
           /\ Low(a, 1) = l /\ Low(a \div Mod(1), 1) = h
<1> DEFINE m == Mod(1)  x == l + m * h  a == Put(r, 2, x)
<1>1. m \in Nat /\ m > 1 /\ Mod(2) = m * m /\ l < m /\ h < m /\ 1 \in Sizes /\ 2 \in Sizes
  BY Moduli DEF Sizes
<1>2. x \in Int /\ Low(x, 1) = l /\ x \div m = h
  BY <1>1, TwoHalves
<1>3. 0 <= x /\ x < m * m
  <2> HIDE DEF m
  <2>1. 0 <= m * h /\ m * h <= m * (m - 1) /\ m * (m - 1) = m * m - m /\ m * h \in Int
    BY <1>1
  <2> QED
    BY <1>1, <2>1
<1>4. Low(x, 2) = x
  BY <1>1, <1>2, <1>3, LowOfWord
<1> HIDE DEF x
<1>5. /\ a \in Word /\ Low(a, 2) = x /\ a = Mod(2) * (r \div Mod(2)) + x
  BY <1>1, <1>2, <1>4, PutReads
<1> DEFINE q == r \div Mod(2)
<1>6. r \in Int /\ q \in Int /\ a \in Int
  <2>1. r \in Int /\ a \in Int
    BY <1>1, <1>5, Moduli DEF Word, Sizes
  <2> QED
    BY <1>1, <2>1, LowRange
<1>7. Low(a, 1) = l
  <2>1. Low(Low(a, 2), 1) = Low(a, 1)
    BY <1>1, <1>6, LowOfLow
  <2> QED
    BY <1>2, <1>5, <2>1
<1>8. Low(a \div m, 1) = h
  <2>1. a = (m * m) * q + x
    BY <1>1, <1>5
  <2> HIDE DEF m, q, a
  <2>2. x = l + m * h
    BY DEF x
  <2>3. m * q + h \in Int /\ a = m * (m * q + h) + l
    BY <1>1, <1>6, <2>1, <2>2
  <2>4. a \div m = m * q + h
    BY <1>1, <1>6, <2>3, DivisionUnique
  <2>5. (m * q + h) % m = h
    BY <1>1, <1>6, <2>3, DivisionUnique
  <2> QED
    BY <2>4, <2>5 DEF Low, m
<1> QED
  BY <1>5, <1>7, <1>8 DEF x

\* Double() leaves the low half in the accumulator and the product in the
\* pair.
LEMMA DoubleStep ==
  ASSUME WordsTypeOK, NEW op \in Instructions, NEW on,
         NEW low \in Int, 0 <= low, low < Mod(size), NEW hi \in Int, Double(op, low, hi, on)
  PROVE  /\ WordsTypeOK' /\ size' = size /\ last'.op = op /\ eflags' = Update(eflags, on)
         /\ last'.eax = eax /\ last'.rm = rm
         /\ Low(eax', size) = low /\ Wide' = low + Mod(size) * Low(hi, size)
<1>1. eax \in Word /\ edx \in Word /\ rm \in Word
  BY DEF WordsTypeOK
<1>2. Mod(size) \in Nat /\ Low(hi, size) \in Int /\ 0 <= Low(hi, size) /\ Low(hi, size) < Mod(size)
  BY Moduli, LowRange, Registers
<1>3. CASE size = 1
  <2> DEFINE h == Low(hi, 1)  a == Put(eax, 2, low + Mod(1) * h)
  <2>1. a \in Word /\ Low(a, 2) = low + Mod(1) * h /\ Low(a, 1) = low
    <3>1. h \in Int /\ 0 <= h /\ h < Mod(1) /\ low < Mod(1)
      BY <1>2, <1>3
    <3> HIDE DEF h
    <3> QED
      BY <1>1, <3>1, TwoBytes
  <2>2. Result(op, 0, a, edx, rm, on)
    BY <1>3 DEF Double
  <2> HIDE DEF a
  <2>3. /\ WordsTypeOK' /\ size' = size /\ last'.op = op /\ eflags' = Update(eflags, on)
        /\ last'.eax = eax /\ last'.rm = rm /\ eax' = a
    BY <1>1, <2>1, <2>2, ResultStep
  <2> QED
    BY <1>3, <2>1, <2>3 DEF Wide
<1>4. CASE size # 1
  <2> DEFINE a == Put(eax, size, low)  d == Put(edx, size, hi)
  <2>1. a \in Word /\ Low(a, size) = low /\ d \in Word /\ Low(d, size) = Low(hi, size)
    BY <1>1, Registers, PutReads, LowOfWord
  <2>2. Result(op, 0, a, d, rm, on)
    BY <1>4 DEF Double
  <2> HIDE DEF a, d
  <2>3. /\ WordsTypeOK' /\ size' = size /\ last'.op = op /\ eflags' = Update(eflags, on)
        /\ last'.eax = eax /\ last'.rm = rm /\ eax' = a /\ edx' = d
    BY <1>1, <2>1, <2>2, ResultStep
  <2>4. Wide' = Low(hi, size) * Mod(size) + low
    BY <1>4, <2>1, <2>3 DEF Wide, Pair, Mod
  <2> DEFINE m == Mod(size)  h == Low(hi, size)
  <2>5. h * m + low = low + m * h
    <3>1. m \in Int /\ h \in Int
      BY <1>2
    <3> HIDE DEF m, h
    <3> QED
      BY <3>1
  <2> QED
    BY <2>1, <2>3, <2>4, <2>5
<1> QED
  BY <1>3, <1>4

\* The low part of a product depends on the low parts of its factors only.
LEMMA ProductLow ==
  ASSUME NEW s \in Sizes, NEW a \in Int, NEW b \in Int
  PROVE  Low(Signed(a, s) * Signed(b, s), s) = Low(Low(a, s) * Low(b, s), s)
<1> DEFINE m == Mod(s)  la == Low(a, s)  lb == Low(b, s)  x == Signed(a, s)  y == Signed(b, s)
<1>1. m \in Nat /\ la \in Int /\ lb \in Int /\ x \in Int /\ y \in Int
  BY Moduli, LowRange, SignedRange
<1>2. (x = la \/ x = la - m) /\ (y = lb \/ y = lb - m)
  BY SignedRange
<1> HIDE DEF m, la, lb, x, y
<1>3. x * y \in Int /\ la * lb \in Int
  BY <1>1
<1>4. \E k \in Int : x * y = la * lb + m * k
  <2>1. CASE x = la /\ y = lb
    <3>1. x * y = la * lb + m * 0
      BY <1>1, <2>1
    <3> QED
      BY <3>1
  <2>2. CASE x = la - m /\ y = lb
    <3>1. x * y = la * lb + m * (-lb) /\ -lb \in Int
      BY <1>1, <2>2
    <3> QED
      BY <3>1
  <2>3. CASE x = la /\ y = lb - m
    <3>1. x * y = la * lb + m * (-la) /\ -la \in Int
      BY <1>1, <2>3
    <3> QED
      BY <3>1
  <2>4. CASE x = la - m /\ y = lb - m
    <3>1. x * y = la * lb + m * (m - la - lb) /\ m - la - lb \in Int
      BY <1>1, <2>4
    <3> QED
      BY <3>1
  <2> QED
    BY <1>2, <2>1, <2>2, <2>3, <2>4
<1>5. PICK k \in Int : x * y = la * lb + m * k
  BY <1>4
<1>6. Low(x * y, s) = Low(la * lb, s)
  BY <1>3, <1>5, Congruent DEF m
<1> QED
  BY <1>6 DEF la, lb, x, y

\* The product of two words fits in two words.
LEMMA UnsignedProduct ==
  ASSUME NEW m \in Nat, NEW u \in Int, 0 <= u, u < m, NEW v \in Int, 0 <= v, v < m
  PROVE  0 <= u * v /\ u * v < m * m /\ u * v \in Int
<1>1. 0 <= u * v
  OBVIOUS
<1>2. u * v <= u * m
  OBVIOUS
<1>3. u * m < m * m
  OBVIOUS
<1> QED
  BY <1>1, <1>2, <1>3

\* The product of two signed words is at most a quarter of the square of the
\* modulus away from zero.
LEMMA SignedProduct ==
  ASSUME NEW m \in Nat, NEW u \in Int, -m <= 2 * u, 2 * u <= m, NEW v \in Int, -m <= 2 * v, 2 * v <= m
  PROVE  -(m * m) <= 4 * (u * v) /\ 4 * (u * v) <= m * m /\ u * v \in Int
<1> DEFINE x == 2 * u  y == 2 * v
<1>1. x \in Int /\ y \in Int /\ -m <= x /\ x <= m /\ -m <= y /\ y <= m /\ x * y = 4 * (u * v)
  OBVIOUS
<1>2. u * v \in Int
  OBVIOUS
<1> HIDE DEF x, y
<1>3. -(m * m) <= x * y /\ x * y <= m * m
  <2>1. (m - x) * (m + y) >= 0 /\ (m + x) * (m - y) >= 0
    BY <1>1
  <2>2. (m - x) * (m - y) >= 0 /\ (m + x) * (m + y) >= 0
    BY <1>1
  <2>3. /\ (m - x) * (m + y) = m * m + m * y - m * x - x * y
        /\ (m + x) * (m - y) = m * m - m * y + m * x - x * y
        /\ (m - x) * (m - y) = m * m - m * y - m * x + x * y
        /\ (m + x) * (m + y) = m * m + m * y + m * x + x * y
    BY <1>1
  <2> DEFINE mm == m * m  mx == m * x  my == m * y  xy == x * y
  <2>4. mm \in Int /\ mx \in Int /\ my \in Int /\ xy \in Int
    BY <1>1
  <2>5. /\ mm + my - mx - xy >= 0 /\ mm - my + mx - xy >= 0
        /\ mm - my - mx + xy >= 0 /\ mm + my + mx + xy >= 0
    BY <2>1, <2>2, <2>3
  <2> HIDE DEF mm, mx, my, xy
  <2>6. -mm <= xy /\ xy <= mm
    BY <2>4, <2>5
  <2> QED
    BY <2>6 DEF mm, xy
<1> QED
  BY <1>1, <1>2, <1>3

\* CF and OF after a multiplication.
LEMMA OverflowFlags ==
  ASSUME NEW fl, NEW b \in BOOLEAN
  PROVE  /\ ("CF" \in Update(fl, Overflows(b))) <=> b
         /\ ("OF" \in Update(fl, Overflows(b))) <=> b
  BY DEF Update, Overflows

\* MUL leaves the product of the operands.
LEMMA MulStep ==
  ASSUME WordsTypeOK, mul_i
  PROVE  WordsTypeOK' /\ ProductsExact' /\ last'.op = "mul"
<1> DEFINE m == Mod(size)  u == Low(eax, size)  v == Low(rm, size)  p == u * v
           hi == IF size = 4 THEN 0 ELSE p \div m
<1>1. m \in Nat /\ m > 1 /\ u \in Int /\ 0 <= u /\ u < m /\ v \in Int /\ 0 <= v /\ v < m
  BY Moduli, LowRange, Registers
<1>2. 0 <= p /\ p < m * m /\ p \in Int
  <2> HIDE DEF m, u, v
  <2> QED
    BY <1>1, UnsignedProduct
<1> HIDE DEF u, v
<1>3. /\ Low(p, size) \in Int /\ 0 <= Low(p, size) /\ Low(p, size) < m
      /\ p \div m \in Int /\ p = m * (p \div m) + Low(p, size)
  BY <1>2, Registers, LowRange
<1>4. hi \in Int
  BY <1>3
<1>5. Double("mul", Low(p, size), hi, Overflows(hi # 0))
  BY DEF mul_i, zero, u, v
<1> HIDE DEF m, p
<1>6. 0 <= p \div m /\ p \div m < m /\ (p \div m # 0 <=> p >= m)
  <2> DEFINE q == p \div m  l == Low(p, size)
  <2>1. q \in Int /\ l \in Int /\ 0 <= l /\ l < m /\ p = m * q + l
    BY <1>3
  <2> HIDE DEF q, l
  <2>2. 0 <= q
    BY <1>1, <1>2, <2>1
  <2>3. q < m
    BY <1>1, <1>2, <2>1
  <2>4. q # 0 <=> p >= m
    BY <1>1, <1>2, <2>1, <2>2
  <2> QED
    BY <2>2, <2>3, <2>4 DEF q
<1> HIDE DEF hi
<1>7. /\ WordsTypeOK' /\ size' = size /\ last'.op = "mul" /\ last'.eax = eax /\ last'.rm = rm
      /\ eflags' = Update(eflags, Overflows(hi # 0))
      /\ Low(eax', size) = Low(p, size) /\ Wide' = Low(p, size) + m * Low(hi, size)
  <2>1. "mul" \in Instructions /\ Low(p, size) < Mod(size)
    BY <1>3 DEF Instructions, m
  <2> QED
    BY <1>3, <1>4, <1>5, <2>1, DoubleStep DEF m
<1>8. (("CF" \in eflags') <=> hi # 0) /\ (("OF" \in eflags') <=> hi # 0)
  <2>1. (hi # 0) \in BOOLEAN
    OBVIOUS
  <2> QED
    BY <1>7, <2>1, OverflowFlags
<1>9. Low(Signed(eax, size) * Signed(rm, size), size) = Low(p, size)
  BY Registers, ProductLow DEF p, u, v
<1>10. size # 4 => Wide' = p /\ (hi # 0 <=> p >= m)
  <2> SUFFICES ASSUME size # 4 PROVE Wide' = p /\ (hi # 0 <=> p >= m)
    OBVIOUS
  <2>1. hi = p \div m
    BY DEF hi
  <2>2. Low(hi, size) = hi
    BY <1>4, <1>6, <2>1, Registers, LowOfWord DEF m
  <2>3. m * hi \in Int
    BY <1>1, <1>4
  <2>4. p = m * hi + Low(p, size) /\ Wide' = Low(p, size) + m * hi
    BY <1>3, <1>7, <2>1, <2>2
  <2> DEFINE y == m * hi  l == Low(p, size)
  <2>5. y + l = l + y
    <3>1. y \in Int /\ l \in Int
      BY <1>3, <2>3
    <3> HIDE DEF y, l
    <3> QED
      BY <3>1
  <2> QED
    BY <1>6, <2>1, <2>4, <2>5
<1>11. size # 4 =>
        /\ Wide' = Low(last'.eax, size') * Low(last'.rm, size')
        /\ ("CF" \in eflags') = (Wide' >= Mod(size')) /\ ("OF" \in eflags') = (Wide' >= Mod(size'))
  BY <1>7, <1>8, <1>10 DEF p, u, v, m
<1>12. Low(eax', size') = Low(Signed(last'.eax, size') * Signed(last'.rm, size'), size')
  BY <1>7, <1>9
<1> QED
  BY <1>7, <1>11, <1>12 DEF ProductsExact, Ran

\* The pair that holds a signed product.
LEMMA SignedPair ==
  ASSUME NEW s \in Sizes, NEW p \in Int, -(Mod(s) * Mod(s)) <= 4 * p, 4 * p <= Mod(s) * Mod(s)
  PROVE  LET w == Low(p, s) + Mod(s) * Low(p \div Mod(s), s)
             n == Mod(s) * Mod(s)
         IN (IF 2 * w >= n THEN w - n ELSE w) = p
<1> DEFINE m == Mod(s)  q == p \div m  l == Low(p, s)  h == Low(q, s)
<1>1. /\ m \in Nat /\ m > 1 /\ q \in Int /\ l \in Int /\ 0 <= l /\ l < m /\ p = m * q + l
      /\ -(m * m) <= 4 * p /\ 4 * p <= m * m
  BY Moduli, LowRange
<1>2. h = IF p >= 0 THEN q ELSE q + m
  <2>1. CASE p >= 0
    <3>1. 0 <= q /\ q < m
      <4> HIDE DEF m, q, l
      <4> QED
        BY <1>1, <2>1
    <3> HIDE DEF q
    <3> QED
      BY <1>1, <2>1, <3>1, LowOfWord
  <2>2. CASE p < 0
    <3>1. 0 <= q + m /\ q + m < m
      <4> HIDE DEF m, q, l
      <4>1. q < 0
        BY <1>1, <2>2
      <4>2. q >= -m
        BY <1>1, <2>2
      <4> QED
        BY <1>1, <4>1, <4>2
    <3> HIDE DEF q
    <3>2. q + m \in Int /\ q + m = q + Mod(s) * 1
      BY <1>1
    <3>3. Low(q + m, s) = Low(q, s)
      BY <1>1, <3>2, Congruent
    <3>4. Low(q + m, s) = q + m
      BY <3>1, <3>2, LowOfWord
    <3> QED
      BY <1>1, <2>2, <3>3, <3>4
  <2> QED
    BY <2>1, <2>2
<1> DEFINE w == l + m * h  n == m * m
<1> HIDE DEF m, q, l, h
<1>3. n \in Nat /\ n > 0 /\ w \in Int /\ w = IF p >= 0 THEN p ELSE p + n
  <2>1. CASE p >= 0
    BY <1>1, <1>2, <2>1
  <2>2. CASE p < 0
    <3>1. m * (q + m) = m * q + m * m
      BY <1>1
    <3> QED
      BY <1>1, <1>2, <2>2, <3>1
  <2> QED
    BY <2>1, <2>2
<1>4. -n <= 4 * p /\ 4 * p <= n
  BY <1>1
<1> HIDE DEF w, n
<1>5. (IF 2 * w >= n THEN w - n ELSE w) = p
  BY <1>3, <1>4
<1> QED
  BY <1>5 DEF w, n, m, q, l, h

\* One-operand IMUL leaves the signed product.
LEMMA ImulOneStep ==
  ASSUME WordsTypeOK, imul_one
  PROVE  WordsTypeOK' /\ ProductsExact' /\ last'.op = "imul1"
<1> DEFINE m == Mod(size)  x == Signed(eax, size)  y == Signed(rm, size)  p == x * y
           res == IF size = 4 THEN Low(p, 4) ELSE p
           b == res # Signed(res, size)
<1>1. /\ m \in Nat /\ m > 1 /\ x \in Int /\ y \in Int
      /\ -m <= 2 * x /\ 2 * x <= m /\ -m <= 2 * y /\ 2 * y <= m
  <2>1. m \in Nat /\ m > 1
    BY Moduli, Registers
  <2>2. x \in Int /\ -m <= 2 * x /\ 2 * x < m /\ y \in Int /\ -m <= 2 * y /\ 2 * y < m
    BY SignedRange, Registers
  <2> HIDE DEF m, x, y
  <2> QED
    BY <2>1, <2>2
<1>2. -(m * m) <= 4 * p /\ 4 * p <= m * m /\ p \in Int
  <2> HIDE DEF m, x, y
  <2> QED
    BY <1>1, SignedProduct
<1> HIDE DEF x, y
<1>3. res \in Int /\ Low(res, size) = Low(p, size)
  <2>1. CASE size = 4
    BY <1>2, <2>1, Registers, LowRange, LowOfLow
  <2>2. CASE size # 4
    BY <1>2, <2>2
  <2> QED
    BY <2>1, <2>2
<1>4. Double("imul1", Low(res, size), res \div m, Overflows(b))
  BY DEF imul_one, x, y
<1> HIDE DEF res
<1>5. /\ Low(res, size) \in Int /\ 0 <= Low(res, size) /\ Low(res, size) < Mod(size)
      /\ res \div m \in Int
  BY <1>3, Registers, LowRange
<1>6. /\ WordsTypeOK' /\ size' = size /\ last'.op = "imul1" /\ last'.eax = eax /\ last'.rm = rm
      /\ eflags' = Update(eflags, Overflows(b))
      /\ Low(eax', size) = Low(res, size) /\ Wide' = Low(res, size) + m * Low(res \div m, size)
  <2>1. "imul1" \in Instructions
    BY DEF Instructions
  <2> HIDE DEF b
  <2> QED
    BY <1>4, <1>5, <2>1, DoubleStep
<1>7. ("CF" \in eflags') <=> b
  <2>1. b \in BOOLEAN
    OBVIOUS
  <2> QED
    BY <1>6, <2>1, OverflowFlags
<1>8. size # 4 => res = p
  BY DEF res
<1>9. size # 4 => SignedWide(Wide)' = p
  <2> SUFFICES ASSUME size # 4 PROVE SignedWide(Wide)' = p
    OBVIOUS
  <2>1. Wide' = Low(p, size) + m * Low(p \div m, size)
    BY <1>6, <1>8
  <2> HIDE DEF p
  <2>2. (IF 2 * Wide' >= m * m THEN Wide' - m * m ELSE Wide') = p
    BY <1>2, <2>1, Registers, SignedPair
  <2> QED
    BY <1>6, <2>2 DEF SignedWide
<1>10. size # 4 => (("CF" \in eflags') = (p # Signed(p, size)))
  BY <1>7, <1>8
<1>11. Signed(last'.eax, size') * Signed(last'.rm, size') = p
  BY <1>6 DEF x, y
<1>12. /\ Ran({"imul1"})' /\ size' # 4 =>
            SignedWide(Wide)' = p /\ ("CF" \in eflags') = (p # Signed(p, size'))
       /\ Low(eax', size') = Low(p, size')
  <2> HIDE DEF p
  <2> QED
    BY <1>3, <1>6, <1>9, <1>10
<1> HIDE DEF p
<1> QED
  BY <1>6, <1>11, <1>12 DEF ProductsExact, Ran

\* The forms of IMUL with a destination leave the low half of the product.
LEMMA ImulStep ==
  ASSUME WordsTypeOK, imul_i
  PROVE  WordsTypeOK' /\ ProductsExact' /\ last'.op \in Multiplications \cup {"imul69"}
<1>1. eax \in Word /\ edx \in Word /\ rm \in Word
  BY DEF WordsTypeOK
<1>2. Signed(eax, size) \in Int /\ Signed(rm, size) \in Int
  BY Registers, SignedRange
<1>3. \A i \in Immediates : i \in Int
  <2>1. Mod(4) \in Nat /\ Immediates \subseteq 0..(2 ^ Width[4] - 1)
    BY Moduli, WordsAssumption DEF Sizes
  <2> QED
    BY <2>1 DEF Mod
<1>4. CASE imul_one
  BY <1>4, ImulOneStep DEF Multiplications
<1>5. CASE imul_two
  <2> DEFINE p == Signed(eax, size) * Signed(rm, size)  a == Put(eax, size, p)
  <2>1. p \in Int
    BY <1>2
  <2>2. a \in Word /\ Low(a, size) = Low(p, size)
    BY <1>1, <2>1, Registers, PutReads
  <2>3. Result("imul2", 0, a, edx, rm, Overflows(~Fits(p)))
    BY <1>5 DEF imul_two
  <2>4. /\ WordsTypeOK' /\ size' = size /\ eax' = a /\ last'.op = "imul2"
        /\ last'.eax = eax /\ last'.rm = rm /\ eflags' = Update(eflags, Overflows(~Fits(p)))
    <3> HIDE DEF p, a
    <3> QED
      BY <1>1, <2>2, <2>3, ResultStep DEF Instructions
  <2>5. ("OF" \in eflags') <=> ~Fits(p)
    <3>1. (~Fits(p)) \in BOOLEAN
      BY DEF Fits
    <3> HIDE DEF p
    <3> QED
      BY <2>4, <3>1, OverflowFlags
  <2>6. size = 2 => (("OF" \in eflags') = (p # Signed(p, 2)))
    <3> HIDE DEF p
    <3> QED
      BY <2>5 DEF Fits
  <2>7. Signed(last'.eax, size') * Signed(last'.rm, size') = p
    BY <2>4
  <2> HIDE DEF p, a
  <2> QED
    BY <2>2, <2>4, <2>6, <2>7 DEF ProductsExact, Ran, Multiplications
<1>6. ASSUME NEW v \in Int, imul_three(v)
      PROVE  WordsTypeOK' /\ ProductsExact' /\ last'.op \in Multiplications \cup {"imul69"}
  <2> DEFINE p == Signed(rm, size) * v  a == Put(eax, size, p)
  <2>1. p \in Int
    BY <1>2
  <2>2. a \in Word /\ Low(a, size) = Low(p, size)
    BY <1>1, <2>1, Registers, PutReads
  <2>3. Result("imul3", v, a, edx, rm, Overflows(~Fits(p)))
    BY <1>6 DEF imul_three
  <2>4. /\ WordsTypeOK' /\ size' = size /\ eax' = a /\ last'.op = "imul3"
        /\ last'.imm = v /\ last'.rm = rm
    <3> HIDE DEF p, a
    <3> QED
      BY <1>1, <2>2, <2>3, ResultStep DEF Instructions
  <2>5. Low(eax', size') = Low(Signed(last'.rm, size') * last'.imm, size')
    BY <2>2, <2>4
  <2> QED
    BY <2>4, <2>5 DEF ProductsExact, Ran, Multiplications
<1>7. ASSUME NEW v \in Int, imul_6B(v)
      PROVE  WordsTypeOK' /\ ProductsExact' /\ last'.op \in Multiplications \cup {"imul69"}
  <2> DEFINE p == Signed(eax, size) * v  a == Put(eax, size, p)
             on == Overflows(~Fits(Signed(p, size) * v))
  <2>1. p \in Int
    BY <1>2
  <2>2. a \in Word /\ Low(a, size) = Low(p, size)
    BY <1>1, <2>1, Registers, PutReads
  <2>3. Result("imul6B", v, a, edx, rm, on)
    BY <1>7 DEF imul_6B
  <2>4. /\ WordsTypeOK' /\ size' = size /\ eax' = a /\ last'.op = "imul6B"
        /\ last'.imm = v /\ last'.eax = eax
    <3> HIDE DEF p, a, on
    <3> QED
      BY <1>1, <2>2, <2>3, ResultStep DEF Instructions
  <2>5. Low(eax', size') = Low(Signed(last'.eax, size') * last'.imm, size')
    BY <2>2, <2>4
  <2> QED
    BY <2>4, <2>5 DEF ProductsExact, Ran, Multiplications
<1>8. ASSUME NEW v \in Int, imul_69(v)
      PROVE  WordsTypeOK' /\ ProductsExact' /\ last'.op \in Multiplications \cup {"imul69"}
  <2>1. Put(eax, size, v) \in Word
    BY <1>1, Registers, PutReads
  <2>2. WordsTypeOK' /\ last'.op = "imul69"
    BY <1>1, <1>8, <2>1, ResultStep DEF imul_69, Instructions
  <2> QED
    BY <2>2, About DEF Multiplications
<1>9. ASSUME NEW i \in Immediates, NEW s \in Sizes PROVE Signed(i, s) \in Int
  BY <1>3, SignedRange
<1>10. CASE \E i \in Immediates : \/ \E s \in {1, size} : imul_three(Signed(i, s))
                                  \/ imul_6B(Signed(i, 1))
                                  \/ imul_69(Signed(i, size))
  <2>1. PICK i \in Immediates : \/ \E s \in {1, size} : imul_three(Signed(i, s))
                                \/ imul_6B(Signed(i, 1))
                                \/ imul_69(Signed(i, size))
    BY <1>10
  <2>2. CASE \E s \in {1, size} : imul_three(Signed(i, s))
    <3>1. PICK s \in {1, size} : imul_three(Signed(i, s))
      BY <2>2
    <3>2. Signed(i, s) \in Int
      BY <1>9, Registers
    <3> QED
      BY <1>6, <3>1, <3>2
  <2>3. CASE imul_6B(Signed(i, 1))
    <3>1. Signed(i, 1) \in Int
      BY <1>9, Registers
    <3> QED
      BY <1>7, <2>3, <3>1
  <2>4. CASE imul_69(Signed(i, size))
    <3>1. Signed(i, size) \in Int
      BY <1>9, Registers
    <3> QED
      BY <1>8, <2>4, <3>1
  <2> QED
    BY <2>1, <2>2, <2>3, <2>4
<1> QED
  BY <1>4, <1>5, <1>10 DEF imul_i

---------------------------------------------------------------------------
(* Division *)

\* What Divided() leaves of the quotient and of the remainder.
LEMMA DividedStep ==
  ASSUME WordsTypeOK, NEW op \in Instructions, NEW q \in Int, NEW r \in Int, Divided(op, q, r)
  PROVE  /\ WordsTypeOK' /\ status' = "ok" /\ size' = size /\ last'.op = op
         /\ last'.eax = eax /\ last'.edx = edx /\ last'.rm = rm
         /\ Low(eax', size) = Low(q, size)
         /\ Low(IF size = 1 THEN eax' \div Mod(1) ELSE edx', size) = Low(r, size)
<1>1. eax \in Word /\ edx \in Word /\ rm \in Word
  BY DEF WordsTypeOK
<1>2. CASE size = 1
  <2> DEFINE l == Low(q, 1)  h == Low(r, 1)  a == Put(eax, 2, l + Mod(1) * h)
  <2>1. a \in Word /\ Low(a, 1) = l /\ Low(a \div Mod(1), 1) = h
    <3>1. h \in Int /\ 0 <= h /\ h < Mod(1) /\ l \in Int /\ 0 <= l /\ l < Mod(1)
      BY Registers, LowRange
    <3> HIDE DEF h, l
    <3> QED
      BY <1>1, <3>1, TwoBytes
  <2>2. Result(op, 0, a, edx, rm, <<>>)
    BY <1>2 DEF Divided
  <2> HIDE DEF a
  <2>3. /\ WordsTypeOK' /\ status' = "ok" /\ size' = size /\ last'.op = op
        /\ last'.eax = eax /\ last'.edx = edx /\ last'.rm = rm /\ eax' = a
    BY <1>1, <2>1, <2>2, ResultStep
  <2> QED
    BY <1>2, <2>1, <2>3
<1>3. CASE size # 1
  <2> DEFINE a == Put(eax, size, q)  d == Put(edx, size, r)
  <2>1. a \in Word /\ Low(a, size) = Low(q, size) /\ d \in Word /\ Low(d, size) = Low(r, size)
    BY <1>1, Registers, PutReads
  <2>2. Result(op, 0, a, d, rm, <<>>)
    BY <1>3 DEF Divided
  <2> HIDE DEF a, d
  <2>3. /\ WordsTypeOK' /\ status' = "ok" /\ size' = size /\ last'.op = op
        /\ last'.eax = eax /\ last'.edx = edx /\ last'.rm = rm /\ eax' = a /\ edx' = d
    BY <1>1, <2>1, <2>2, ResultStep
  <2> QED
    BY <1>3, <2>1, <2>3
<1> QED
  BY <1>2, <1>3

\* The dividend in AX, DX:AX or EDX:EAX.
LEMMA Dividend ==
  ASSUME WordsTypeOK
  PROVE  Wide \in Int /\ 0 <= Wide
<1>1. CASE size = 1
  BY <1>1, Registers, LowRange DEF Wide
<1>2. CASE size # 1
  <2> DEFINE m == Mod(size)  l == Low(eax, size)  h == Low(edx, size)
  <2>1. m \in Nat /\ l \in Int /\ 0 <= l /\ h \in Int /\ 0 <= h
    BY Moduli, Registers, LowRange
  <2>2. Wide = h * m + l
    BY <1>2 DEF Wide, Pair
  <2> HIDE DEF m, l, h
  <2>3. h * m \in Int /\ 0 <= h * m
    BY <2>1
  <2> QED
    BY <2>1, <2>2, <2>3
<1> QED
  BY <1>1, <1>2

\* DIV leaves the quotient and the remainder or nothing.
LEMMA DivStep ==
  ASSUME WordsTypeOK, div_i
  PROVE  WordsTypeOK' /\ QuotientsExact' /\ last'.op = "div"
<1> DEFINE n == Wide  d == Low(rm, size)  q == n \div d  r == n % d  m == Mod(size)
<1>1. /\ n \in Int /\ 0 <= n /\ d \in Int /\ 0 <= d /\ d < m /\ m \in Nat /\ m > 1
      /\ size \in Sizes
  BY Dividend, Registers, LowRange, Moduli
<1>2. "div" \in Instructions
  BY DEF Instructions
<1>3. \/ d = 0 /\ Fails("div", "SIGFPE")
      \/ d # 0 /\ q >= m /\ Fails("div", "-1000")
      \/ d # 0 /\ ~(q >= m) /\ Divided("div", q, r)
  BY DEF div_i, Wide
<1>4. last'.op = "div" => IdivExact'
  BY DEF IdivExact, Ran
<1>5. /\ last'.eax = eax /\ last'.edx = edx /\ last'.rm = rm /\ size' = size =>
           OldWide' = n /\ Low(last'.rm, size') = d
  BY DEF OldWide, Wide, Pair
<1> HIDE DEF n, d, m
<1>6. CASE (d = 0 /\ Fails("div", "SIGFPE")) \/ (d # 0 /\ q >= m /\ Fails("div", "-1000"))
  <2>1. /\ WordsTypeOK' /\ status' # "ok" /\ size' = size /\ eax' = eax /\ edx' = edx
        /\ last'.op = "div" /\ last'.eax = eax /\ last'.edx = edx /\ last'.rm = rm
    <3>1. CASE Fails("div", "SIGFPE")
      BY <1>2, <3>1, FailsStep
    <3>2. CASE Fails("div", "-1000")
      BY <1>2, <3>2, FailsStep
    <3> QED
      BY <1>6, <3>1, <3>2
  <2>2. d = 0 \/ q >= m
    BY <1>6
  <2>3. DivExact'
    BY <1>5, <2>1, <2>2 DEF DivExact, Ran, m
  <2> QED
    BY <1>4, <2>1, <2>3 DEF QuotientsExact
<1>7. CASE d # 0 /\ ~(q >= m) /\ Divided("div", q, r)
  <2>1. /\ q \in Int /\ r \in Int /\ 0 <= r /\ r < d /\ n = d * q + r
    BY <1>1, <1>7, Division
  <2> HIDE DEF q, r
  <2>2. 0 <= q /\ q < m /\ r < m
    BY <1>1, <1>7, <2>1
  <2>3. Low(q, size) = q /\ Low(r, size) = r
    BY <1>1, <2>1, <2>2, LowOfWord DEF m
  <2>4. /\ WordsTypeOK' /\ status' = "ok" /\ size' = size /\ last'.op = "div"
        /\ last'.eax = eax /\ last'.edx = edx /\ last'.rm = rm
        /\ Low(eax', size) = q
        /\ Low(IF size = 1 THEN eax' \div Mod(1) ELSE edx', size) = r
    BY <1>2, <1>7, <2>1, <2>3, DividedStep
  <2>5. (IF size = 1 THEN Low(eax' \div Mod(1), 1) ELSE Low(edx', size)) = r
    BY <2>4
  <2>6. q * d + r = n
    BY <1>1, <2>1
  <2>7. ~(d = 0 \/ n \div d >= m)
    BY <1>7 DEF q
  <2>8. DivExact'
    BY <1>5, <2>1, <2>4, <2>5, <2>6, <2>7 DEF DivExact, Ran, m
  <2> QED
    BY <1>4, <2>4, <2>8 DEF QuotientsExact
<1> QED
  BY <1>3, <1>6, <1>7

\* The dividend of IDIV is an integer; when the low word of DX:AX is not
\* negative, or is the whole dividend, it is the value of the pair.
LEMMA SignedDividendExact ==
  ASSUME WordsTypeOK
  PROVE  /\ SignedDividend \in Int
         /\ size # 2 \/ ~Top(eax, 2) \/ SignedWide(Wide) = Signed(eax, 2) =>
              SignedDividend = SignedWide(Wide)
<1>1. CASE size = 1
  <2>1. /\ Mod(2) = Mod(1) * Mod(1) /\ Mod(2) \in Nat
        /\ Low(eax, 2) \in Int /\ Signed(eax, 2) \in Int
        /\ Signed(eax, 2) = IF Mod(2) <= 2 * Low(eax, 2) THEN Low(eax, 2) - Mod(2) ELSE Low(eax, 2)
    BY Moduli, Registers, LowRange, SignedRange
  <2>2. SignedDividend = Signed(eax, 2) /\ Wide = Low(eax, 2)
    BY <1>1 DEF SignedDividend, Wide
  <2>3. SignedWide(Wide) = IF 2 * Low(eax, 2) >= Mod(2) THEN Low(eax, 2) - Mod(2) ELSE Low(eax, 2)
    BY <1>1, <2>1, <2>2 DEF SignedWide
  <2> DEFINE l == Low(eax, 2)  m == Mod(2)
  <2>4. m <= 2 * l <=> 2 * l >= m
    <3>1. l \in Int /\ m \in Int
      BY <2>1
    <3> HIDE DEF l, m
    <3> QED
      BY <3>1
  <2> QED
    BY <2>1, <2>2, <2>3, <2>4
<1>2. CASE size = 2 /\ Top(eax, 2)
  <2>1. SignedDividend = Signed(eax, 2)
    BY <1>2 DEF SignedDividend
  <2> QED
    BY <1>2, <2>1, Registers, SignedRange
<1>3. CASE size # 1 /\ ~(size = 2 /\ Top(eax, 2))
  <2> DEFINE m == Mod(size)  l == Low(eax, size)  h == Low(edx, size)  n == Wide
  <2>1. /\ m \in Nat /\ m > 1 /\ l \in Int /\ 0 <= l /\ l < m /\ h \in Int /\ 0 <= h /\ h < m
        /\ n \in Int
    BY Moduli, Registers, LowRange, Dividend
  <2>2. n = h * m + l
    BY <1>3 DEF Wide, Pair
  <2>3. SignedDividend = IF Top(edx, size) THEN n - m * m ELSE n
    BY <1>3 DEF SignedDividend, Wide
  <2>4. Top(edx, size) <=> m <= 2 * h
    BY Registers, SignedRange
  <2>5. SignedWide(Wide) = IF 2 * n >= m * m THEN n - m * m ELSE n
    BY DEF SignedWide
  <2>6. \E k \in Nat : m = 2 * k
    BY Moduli, Registers
  <2> HIDE DEF m, l, h, n
  <2>7. PICK k \in Nat : m = 2 * k
    BY <2>6
  <2>8. 2 * n >= m * m <=> k <= h
    <3>1. m * m = m * k + m * k /\ h * m = m * h
      BY <2>1, <2>7
    <3>2. CASE k <= h
      <4>1. m * k <= m * h
        BY <2>1, <3>2
      <4> QED
        BY <2>1, <2>2, <3>1, <3>2, <4>1
    <3>3. CASE h <= k - 1
      <4>1. m * h <= m * (k - 1) /\ m * (k - 1) = m * k - m
        BY <2>1, <3>3
      <4> QED
        BY <2>1, <2>2, <3>1, <3>3, <4>1
    <3> QED
      BY <2>1, <3>2, <3>3
  <2>9. m <= 2 * h <=> k <= h
    BY <2>1, <2>7
  <2>10. m * m \in Int
    BY <2>1
  <2> QED
    BY <2>1, <2>3, <2>4, <2>5, <2>8, <2>9, <2>10
<1> QED
  BY <1>1, <1>2, <1>3

\* IDIV rounds to zero and leaves the remainder, or nothing.
LEMMA IdivStep ==
  ASSUME WordsTypeOK, idiv_i
  PROVE  WordsTypeOK' /\ QuotientsExact' /\ last'.op = "idiv"
<1> DEFINE n == SignedDividend  d == Signed(rm, size)  q == Quotient(n, d)  r == Remainder(n, d)
           m == Mod(size)
<1>1. /\ n \in Int /\ d \in Int /\ -m <= 2 * d /\ 2 * d < m /\ m \in Nat /\ m > 1
      /\ size \in Sizes
  BY SignedDividendExact, Registers, SignedRange, Moduli
<1>2. "idiv" \in Instructions
  BY DEF Instructions
<1>3. \/ Fails("idiv", "SIGFPE")
      \/ Fails("idiv", "-1000")
      \/ d # 0 /\ q = Signed(q, size) /\ Divided("idiv", q, r)
  BY DEF idiv_i
<1>4. last'.op = "idiv" => DivExact'
  BY DEF DivExact, Ran
<1>5. /\ last'.eax = eax /\ last'.edx = edx /\ last'.rm = rm /\ size' = size =>
           /\ OldWide' = Wide /\ Signed(last'.rm, size') = d
           /\ Top(last'.eax, 2) = Top(eax, 2) /\ Signed(last'.eax, 2) = Signed(eax, 2)
           /\ SignedWide(OldWide)' = SignedWide(Wide)
  BY DEF OldWide, Wide, Pair, SignedWide
<1>6. CASE Fails("idiv", "SIGFPE") \/ Fails("idiv", "-1000")
  <2>1. /\ WordsTypeOK' /\ status' # "ok" /\ size' = size /\ eax' = eax /\ edx' = edx
        /\ last'.op = "idiv" /\ last'.eax = eax /\ last'.edx = edx /\ last'.rm = rm
    <3>1. CASE Fails("idiv", "SIGFPE")
      BY <1>2, <3>1, FailsStep
    <3>2. CASE Fails("idiv", "-1000")
      BY <1>2, <3>2, FailsStep
    <3> QED
      BY <1>6, <3>1, <3>2
  <2>2. IdivExact'
    BY <2>1 DEF IdivExact
  <2> QED
    BY <1>4, <2>1, <2>2 DEF QuotientsExact
<1>7. CASE d # 0 /\ q = Signed(q, size) /\ Divided("idiv", q, r)
  <2> HIDE DEF n, d
  <2>1. /\ q \in Int /\ r \in Int /\ n = d * q + r
        /\ d > 0 => -d < r /\ r < d
        /\ d < 0 => d < r /\ r < -d
        /\ r # 0 => ((r < 0) <=> (n < 0))
    BY <1>1, <1>7, QuotientRounds
  <2> HIDE DEF q, r
  <2>2. /\ WordsTypeOK' /\ status' = "ok" /\ size' = size /\ last'.op = "idiv"
        /\ last'.eax = eax /\ last'.edx = edx /\ last'.rm = rm
        /\ Low(eax', size) = Low(q, size)
        /\ Low(IF size = 1 THEN eax' \div Mod(1) ELSE edx', size) = Low(r, size)
    BY <1>2, <1>7, <2>1, DividedStep
  <2>3. Signed(eax', size) = q
    BY <1>1, <1>7, <2>2, SignedOfLow
  <2>4. Signed(r, size) = r
    <3>1. -m <= 2 * r /\ 2 * r < m
      <4> HIDE DEF m
      <4> QED
        BY <1>1, <1>7, <2>1
    <3> QED
      BY <1>1, <2>1, <3>1, SignedOfSmall
  <2>5. Signed(IF size = 1 THEN eax' \div Mod(1) ELSE edx', size) = r
    BY <1>1, <2>2, <2>4, SignedOfLow
  <2>6. (IF size = 1 THEN Signed(eax' \div Mod(1), 1) ELSE Signed(edx', size)) = r
    BY <2>5
  <2>7. q * d + r = n
    BY <1>1, <2>1
  <2>8. r * r < d * d
    <3> DEFINE y == IF d > 0 THEN d ELSE -d
    <3>1. y \in Int /\ -y < r /\ r < y /\ y * y = d * d
      BY <1>1, <1>7, <2>1
    <3> HIDE DEF y
    <3>2. (y - r) * (y + r) > 0
      BY <2>1, <3>1
    <3>3. (y - r) * (y + r) = y * y - r * r
      BY <2>1, <3>1
    <3> DEFINE rr == r * r  yy == y * y
    <3>4. rr \in Int /\ yy \in Int /\ yy - rr > 0
      BY <2>1, <3>1, <3>2, <3>3
    <3> HIDE DEF rr, yy
    <3>5. rr < yy
      BY <3>4
    <3> QED
      BY <3>1, <3>5 DEF rr, yy
  <2>9. r # 0 => ((r < 0) = (n < 0))
    BY <1>1, <2>1
  <2> DEFINE prepared == size # 2 \/ ~Top(eax, 2) \/ SignedWide(Wide) = Signed(eax, 2)
  <2>10. prepared => n = SignedWide(Wide)
    BY SignedDividendExact DEF n
  <2>11. IdivExact'
    <3> DEFINE rem == IF size' = 1 THEN Signed(eax' \div Mod(1), 1) ELSE Signed(edx', size')
               div == Signed(last'.rm, size')  num == SignedWide(OldWide)'
    <3>1. SUFFICES ASSUME size' # 2 \/ ~Top(last'.eax, 2) \/ num = Signed(last'.eax, 2)
                   PROVE  /\ Signed(eax', size') * div + rem = num
                          /\ rem * rem < div * div
                          /\ rem # 0 => (rem < 0) = (num < 0)
      BY <2>2 DEF IdivExact, Ran
    <3>2. prepared
      BY <1>5, <2>2, <3>1
    <3>3. num = n /\ div = d /\ Signed(eax', size') = q
      BY <1>5, <2>2, <2>3, <2>10, <3>2
    <3>4. rem = r
      BY <2>2, <2>6
    <3> QED
      BY <2>7, <2>8, <2>9, <3>3, <3>4
  <2> QED
    BY <1>4, <2>2, <2>11 DEF QuotientsExact
<1> QED
  BY <1>3, <1>6, <1>7

---------------------------------------------------------------------------
(* The theorems *)

\* The invariant holds initially and every instruction keeps it.
LEMMA WordsInvInductive ==
  /\ Init => WordsInv
  /\ WordsInv /\ [Next]_vars => WordsInv'
<1>1. ASSUME Init PROVE WordsInv
  <2>1. Accums \subseteq Word /\ Datas \subseteq Word /\ Operands \subseteq Word
    BY WordsAssumption DEF Word, Mod
  <2>2. last.op = "none"
    BY <1>1 DEF Init, Unexecuted
  <2>3. WordsTypeOK
    BY <1>1, <2>1 DEF Init, WordsTypeOK
  <2>4. ProductsExact /\ QuotientsExact /\ WideningExact
    BY <2>2 DEF ProductsExact, QuotientsExact, DivExact, IdivExact, WideningExact, Ran
  <2> QED
    BY <2>3, <2>4 DEF WordsInv
<1>2. ASSUME WordsInv, Next PROVE WordsInv'
  <2>1. WordsTypeOK
    BY <1>2 DEF WordsInv
  <2>2. CASE mul_i
    <3>1. WordsTypeOK' /\ ProductsExact' /\ last'.op = "mul"
      BY <2>1, <2>2, MulStep
    <3> QED
      BY <3>1, About DEF WordsInv, Widenings
  <2>3. CASE imul_i
    <3>1. WordsTypeOK' /\ ProductsExact' /\ last'.op \in Multiplications \cup {"imul69"}
      BY <2>1, <2>3, ImulStep
    <3> QED
      BY <3>1, About DEF WordsInv, Widenings, Multiplications
  <2>4. CASE div_i
    <3>1. WordsTypeOK' /\ QuotientsExact' /\ last'.op = "div"
      BY <2>1, <2>4, DivStep
    <3> QED
      BY <3>1, About DEF WordsInv, Widenings, Multiplications
  <2>5. CASE idiv_i
    <3>1. WordsTypeOK' /\ QuotientsExact' /\ last'.op = "idiv"
      BY <2>1, <2>5, IdivStep
    <3> QED
      BY <3>1, About DEF WordsInv, Widenings, Multiplications
  <2>6. CASE cbw_i \/ cwde_i \/ cwd_i \/ cdq_i \/ xchg_i
    <3>1. WordsTypeOK' /\ WideningExact' /\ last'.op \in Widenings
      BY <2>1, <2>6, WideningStep
    <3> QED
      BY <3>1, About DEF WordsInv, Widenings, Multiplications
  <2>7. ASSUME NEW from \in {1, 2}, movsx_i(from) \/ movzx_i(from) PROVE WordsInv'
    <3>1. WordsTypeOK' /\ WideningExact' /\ last'.op \in Widenings
      BY <2>1, <2>7, MovxStep
    <3> QED
      BY <3>1, About DEF WordsInv, Widenings, Multiplications
  <2>8. CASE bound_i
    <3>1. WordsTypeOK' /\ last'.op = "bound"
      BY <2>1, <2>8, BoundStep
    <3> QED
      BY <3>1, About DEF WordsInv, Widenings, Multiplications
  <2>9. CASE Finished
    BY <1>2, <2>9 DEF Finished, vars, WordsInv, WordsTypeOK, ProductsExact, QuotientsExact,
         DivExact, IdivExact, WideningExact, Ran, Wide, OldWide, Pair, SignedWide
  <2> QED
    BY <1>2, <2>2, <2>3, <2>4, <2>5, <2>6, <2>7, <2>8, <2>9 DEF Next
<1>3. ASSUME WordsInv, UNCHANGED vars PROVE WordsInv'
  BY <1>3 DEF vars, WordsInv, WordsTypeOK, ProductsExact, QuotientsExact,
       DivExact, IdivExact, WideningExact, Ran, Wide, OldWide, Pair, SignedWide
<1> QED
  BY <1>1, <1>2, <1>3

\* The invariant holds in every reachable state.
LEMMA WordsInvariant == Spec => []WordsInv
  BY WordsInvInductive, PTL DEF Spec

\* For every pair of operands: MUL and one-operand IMUL of bytes and words
\* leave the whole product, with CF (and OF after MUL) telling whether its
\* upper half matters; the low half is right for double words and in the forms
\* with a destination too.  The upper half of a 32 bit product, the two-operand
\* form of opcode 0x69 and the other flags are not in it: mul_i and imul_i of
\* instr.c get them wrong.
THEOREM Products == Spec => []ProductsExact
<1>1. WordsInv => ProductsExact
  BY DEF WordsInv
<1> QED
  BY <1>1, WordsInvariant, PTL

\* DIV leaves the exact quotient and remainder of every dividend and divisor,
\* or refuses and leaves every register (div_i of instr.c).  IDIV, rounded to
\* zero, does so for the dividends a compiler prepares: any of bytes and double
\* words, and of words those with AX not negative or its sign in DX; otherwise
\* idiv_i takes a negative AX for the whole dividend.
THEOREM Quotients == Spec => []QuotientsExact
<1>1. WordsInv => QuotientsExact
  BY DEF WordsInv
<1> QED
  BY <1>1, WordsInvariant, PTL

\* The widening instructions keep the signed value and the bytes above their
\* destination, and XCHG exchanges, for every width and content (cbw_i,
\* cwde_i, cwd_i, cdq_i, movsx_i, movzx_i and xchg_i of instr.c).
THEOREM Widening == Spec => []WideningExact
<1>1. WordsInv => WideningExact
  BY DEF WordsInv
<1> QED
  BY <1>1, WordsInvariant, PTL
=============================================================================
