---------------------------- MODULE ShiftsProofs ----------------------------
(***************************************************************************)
(* Where the bits of an operand go in the shift, rotate and bit            *)
(* instructions, for every width, operand and count, the counts for which  *)
(* the C shift is out of range included.  The handlers are followed bit by *)
(* bit: a lemma says what each operator does to a bit, and two words with  *)
(* the same bits are equal.                                                *)
(***************************************************************************)
EXTENDS Shifts, WellFoundedInduction, TLAPS

Word == 0..(Mod(4) - 1)

Instructions ==
  {"sal", "shl", "sar", "shr", "shrd", "rol", "ror", "rcl", "rcr", "shld", "bt", "btc", "btr",
   "bts", "bsf", "bsr"}

\* The operand is a word and the history what one instruction found.
ShiftsTypeOK ==
  /\ dst \in [kind : {"reg", "mem"}, size : Sizes, cell : Word]
  /\ src \in Word /\ count \in Nat
  /\ last # Unexecuted => last.op \in Instructions

ShiftsInv ==
  ShiftsTypeOK /\ ShiftsExact /\ RotatesExact /\ RclNarrowExact /\ ShrdExact /\ BitsExact

---------------------------------------------------------------------------
(* Integers *)

\* The remainder and the quotient of an integer.
LEMMA Division ==
  ASSUME NEW v \in Int, NEW m \in Nat, m > 0
  PROVE  /\ v % m \in Int /\ 0 <= v % m /\ v % m < m
         /\ v \div m \in Int /\ v = m * (v \div m) + (v % m)
OBVIOUS

\* A quotient and a remainder are determined by the equation they solve.
LEMMA DivisionUnique ==
  ASSUME NEW v \in Int, NEW m \in Nat, m > 0, NEW q \in Int, NEW r \in Int,
         v = m * q + r, 0 <= r, r < m
  PROVE  v \div m = q /\ v % m = r
OBVIOUS

\* Two divisions are one.
LEMMA DivisionTwice ==
  ASSUME NEW v \in Int, NEW a \in Nat, a > 0, NEW b \in Nat, b > 0
  PROVE  (v \div a) \div b = v \div (a * b)
<1> DEFINE q == v \div a  r == v % a  p == q \div b  t == q % b
<1>1. q \in Int /\ r \in Int /\ 0 <= r /\ r < a /\ v = a * q + r
  BY Division
<1> HIDE DEF q, r
<1>2. p \in Int /\ t \in Int /\ 0 <= t /\ t < b /\ q = b * p + t
  BY <1>1, Division
<1> HIDE DEF p, t
<1>3. v = (a * b) * p + (a * t + r) /\ a * t + r \in Int /\ a * b \in Nat /\ a * b > 0
  BY <1>1, <1>2
<1>4. 0 <= a * t + r /\ a * t + r < a * b
  <2>1. 0 <= a * t /\ a * t <= a * (b - 1) /\ a * (b - 1) = a * b - a
    BY <1>2
  <2> QED
    BY <1>1, <1>2, <2>1
<1> DEFINE ab == a * b  x == a * t + r
<1>5. v \div ab = p
  <2>1. v = ab * p + x /\ x \in Int /\ ab \in Nat /\ ab > 0 /\ 0 <= x /\ x < ab
    BY <1>3, <1>4
  <2> HIDE DEF ab, x
  <2> QED
    BY <1>2, <2>1, DivisionUnique
<1> QED
  BY <1>5 DEF q, p

\* A multiple of a divisor comes out of the division.
LEMMA DivisionOfSum ==
  ASSUME NEW v \in Int, NEW m \in Nat, m > 0, NEW k \in Int
  PROVE  /\ (v + m * k) \div m = (v \div m) + k
         /\ (v + m * k) % m = v % m
<1> DEFINE q == v \div m  r == v % m  x == v + m * k
<1>1. q \in Int /\ r \in Int /\ 0 <= r /\ r < m /\ v = m * q + r
  BY Division
<1> HIDE DEF q, r
<1>2. x \in Int /\ x = m * (q + k) + r /\ q + k \in Int
  BY <1>1
<1> HIDE DEF x
<1>3. x \div m = q + k /\ x % m = r
  BY <1>1, <1>2, DivisionUnique
<1> QED
  BY <1>3 DEF x, q, r

\* A number below the divisor is its own remainder.
LEMMA DivisionOfSmall ==
  ASSUME NEW v \in Int, NEW m \in Nat, 0 <= v, v < m
  PROVE  v \div m = 0 /\ v % m = v
<1>1. m > 0 /\ v = m * 0 + v
  OBVIOUS
<1> QED
  BY <1>1, DivisionUnique

\* Parity.
LEMMA Parity ==
  ASSUME NEW v \in Int
  PROVE  /\ v % 2 \in {0, 1}
         /\ \A k \in Int : (v + 2 * k) % 2 = v % 2 /\ (2 * k - 1 - v) % 2 = 1 - (v % 2)
         /\ (2 * v) % 2 = 0
OBVIOUS

---------------------------------------------------------------------------
(* Powers and widths *)

\* The power of a width splits at every bit.
LEMMA PowerSplit ==
  ASSUME NEW w \in 0..Width[4], NEW m \in 0..w
  PROVE  /\ 2 ^ m \in Nat /\ 2 ^ m > 0 /\ 2 ^ (w - m) \in Nat /\ 2 ^ (w - m) > 0
         /\ 2 ^ w \in Nat /\ 2 ^ w > 0 /\ 2 ^ w = 2 ^ m * 2 ^ (w - m)
<1> DEFINE z == Width[4]
<1>1. z \in Nat
  BY ShiftsAssumption DEF Sizes
<1>2. \A i, j \in 0..z :
        2 ^ i \in Nat \ {0} /\ (i + j <= z => 2 ^ (i + j) = 2 ^ i * 2 ^ j)
  BY PowersAssumption
<1> HIDE DEF z
<1>3. m \in 0..z /\ w - m \in 0..z /\ m + (w - m) = w /\ w <= z /\ w \in 0..z
  BY <1>1 DEF z
<1>4. 2 ^ (m + (w - m)) = 2 ^ m * 2 ^ (w - m)
  BY <1>1, <1>2, <1>3
<1> QED
  BY <1>2, <1>3, <1>4

\* A power of at least 2^1 is even.
LEMMA PowerEven ==
  ASSUME NEW w \in 0..Width[4], w > 0
  PROVE  2 ^ (w - 1) \in Nat /\ 2 ^ (w - 1) > 0 /\ 2 ^ w = 2 * 2 ^ (w - 1)
<1>1. Width[4] \in Nat
  BY ShiftsAssumption DEF Sizes
<1>2. 1 \in 0..w
  BY <1>1
<1>3. 2 ^ 1 = 2
  OBVIOUS
<1> QED
  BY <1>2, <1>3, PowerSplit

\* The widths of the sizes.
LEMMA Widths ==
  ASSUME NEW s \in Sizes
  PROVE  /\ Width[4] \in Nat /\ Width[s] \in Nat /\ Width[s] > 0 /\ Width[s] <= Width[4]
         /\ s # 4 => Width[s] < Width[4]
         /\ Mod(s) \in Nat /\ Mod(s) > 1 /\ Mod(4) \in Nat /\ Mod(s) <= Mod(4)
         /\ \E k \in Nat : k > 0 /\ Mod(4) = Mod(s) * k
<1> DEFINE w == Width[s]  z == Width[4]
<1>1. z \in Nat /\ w \in Nat /\ w > 0 /\ w <= z /\ (s # 4 => w < z)
  BY ShiftsAssumption DEF Sizes
<1>2. z \in 0..Width[4] /\ w \in 0..z
  BY <1>1
<1> DEFINE m == 2 ^ w  k == 2 ^ (z - w)
<1>3. m \in Nat /\ m > 0 /\ k \in Nat /\ k > 0 /\ 2 ^ z = m * k
  BY <1>2, PowerSplit
<1>4. m > 1
  BY <1>1, <1>2, PowerEven
<1>5. 2 ^ z \in Nat /\ m <= 2 ^ z
  <2> HIDE DEF m, k, z, w
  <2> QED
    BY <1>3
<1> QED
  BY <1>1, <1>3, <1>4, <1>5 DEF Mod

---------------------------------------------------------------------------
(* Bits *)

\* A bit is 0 or 1.
LEMMA BitValue ==
  ASSUME NEW v \in Int, NEW i \in 0..Width[4]
  PROVE  Bit(v, i) \in {0, 1} /\ v \div 2 ^ i \in Int
<1>1. 2 ^ i \in Nat /\ 2 ^ i > 0
  <2>1. i \in 0..i
    BY Widths DEF Sizes
  <2> QED
    BY <2>1, PowerSplit
<1> DEFINE m == 2 ^ i  q == v \div m
<1>2. q \in Int
  <2> HIDE DEF m
  <2> QED
    BY <1>1, Division DEF m
<1> HIDE DEF q
<1>3. q % 2 \in {0, 1}
  BY <1>2
<1> QED
  BY <1>2, <1>3 DEF Bit, q

\* Bit 0 is the parity.
LEMMA LowestBit ==
  ASSUME NEW v \in Int
  PROVE  Bit(v, 0) = v % 2
<1>1. 2 ^ 0 = 1
  OBVIOUS
<1>2. v \div 1 = v
  OBVIOUS
<1> QED
  BY <1>1, <1>2 DEF Bit

\* A right shift moves the bits down.
LEMMA BitOfShr ==
  ASSUME NEW v \in Int, NEW n \in Nat, NEW i \in Nat, n + i <= Width[4]
  PROVE  Bit(v \div 2 ^ n, i) = Bit(v, n + i)
<1>1. n + i \in 0..Width[4] /\ n \in 0..(n + i) /\ (n + i) - n = i
  BY Widths DEF Sizes
<1>2. /\ 2 ^ n \in Nat /\ 2 ^ n > 0 /\ 2 ^ ((n + i) - n) \in Nat /\ 2 ^ ((n + i) - n) > 0
      /\ 2 ^ (n + i) = 2 ^ n * 2 ^ ((n + i) - n)
  BY <1>1, PowerSplit
<1> DEFINE a == 2 ^ n  b == 2 ^ i
<1>3. a \in Nat /\ a > 0 /\ b \in Nat /\ b > 0 /\ 2 ^ (n + i) = a * b
  BY <1>1, <1>2
<1> HIDE DEF a, b
<1>4. (v \div a) \div b = v \div (a * b)
  BY <1>3, DivisionTwice
<1> QED
  BY <1>3, <1>4 DEF Bit, a, b

\* A left shift moves the bits up and zeros come in.
LEMMA BitOfShl ==
  ASSUME NEW v \in Int, NEW n \in 0..Width[4], NEW i \in 0..Width[4]
  PROVE  Bit(v * 2 ^ n, i) = IF i < n THEN 0 ELSE Bit(v, i - n)
<1>1. Width[4] \in Nat
  BY Widths DEF Sizes
<1>2. CASE i < n
  <2>1. i \in 0..n /\ n - i \in 0..Width[4] /\ n - i > 0
    BY <1>1, <1>2
  <2> DEFINE a == 2 ^ i  b == 2 ^ (n - i)  c == 2 ^ ((n - i) - 1)
  <2>2. a \in Nat /\ a > 0 /\ b \in Nat /\ 2 ^ n = a * b
    BY <2>1, PowerSplit
  <2>3. c \in Nat /\ b = 2 * c
    BY <2>1, PowerEven
  <2> HIDE DEF a, b, c
  <2>4. v * (a * b) = a * (v * b) + 0 /\ v * b \in Int /\ v * (a * b) \in Int
    BY <2>2
  <2> DEFINE x == v * (a * b)  y == v * b
  <2>5. x \div a = y
    <3>1. x \in Int /\ y \in Int /\ x = a * y + 0
      BY <2>4
    <3> HIDE DEF x, y
    <3> QED
      BY <2>2, <3>1, DivisionUnique
  <2>6. y = 2 * (v * c) /\ v * c \in Int
    BY <2>3
  <2> DEFINE u == v * c
  <2>7. y % 2 = 0
    <3>1. u \in Int /\ y = 2 * u
      BY <2>6
    <3> HIDE DEF u, y
    <3> QED
      BY <3>1
  <2> QED
    BY <1>2, <2>2, <2>5, <2>7 DEF Bit, a, x
<1>3. CASE ~(i < n)
  <2>1. n \in 0..i /\ i - n \in 0..Width[4]
    BY <1>1, <1>3
  <2> DEFINE a == 2 ^ n  b == 2 ^ (i - n)
  <2>2. a \in Nat /\ a > 0 /\ b \in Nat /\ b > 0 /\ 2 ^ i = a * b
    BY <2>1, PowerSplit
  <2> HIDE DEF a, b
  <2>3. v * a \in Int /\ v * a = a * v + 0
    BY <2>2
  <2> DEFINE x == v * a
  <2>4. x \div a = v
    <3>1. x \in Int /\ x = a * v + 0
      BY <2>3
    <3> HIDE DEF x
    <3> QED
      BY <2>2, <3>1, DivisionUnique
  <2>5. (x \div a) \div b = x \div (a * b)
    BY <2>2, <2>3, DivisionTwice
  <2>6. x \div (a * b) = v \div b
    BY <2>4, <2>5
  <2> QED
    BY <1>3, <2>2, <2>6 DEF Bit, a, b, x
<1> QED
  BY <1>2, <1>3

\* The bits below the width survive a cut, those above it are gone.
LEMMA BitOfCut ==
  ASSUME NEW v \in Int, NEW w \in 0..Width[4], NEW i \in 0..Width[4]
  PROVE  Bit(v % 2 ^ w, i) = IF i < w THEN Bit(v, i) ELSE 0
<1>1. Width[4] \in Nat
  BY Widths DEF Sizes
<1> DEFINE m == 2 ^ w  q == v \div m  r == v % m
<1>2. m \in Nat /\ m > 0
  <2>1. w \in 0..w
    BY <1>1
  <2> QED
    BY <2>1, PowerSplit
<1>3. q \in Int /\ r \in Int /\ 0 <= r /\ r < m /\ v = m * q + r
  <2> HIDE DEF m
  <2> QED
    BY <1>2, Division
<1>4. CASE i < w
  <2>1. i \in 0..w /\ w - i \in 0..Width[4] /\ w - i > 0
    BY <1>1, <1>4
  <2> DEFINE a == 2 ^ i  b == 2 ^ (w - i)  c == 2 ^ ((w - i) - 1)
  <2>2. a \in Nat /\ a > 0 /\ b \in Nat /\ m = a * b
    BY <2>1, PowerSplit
  <2>3. c \in Nat /\ b = 2 * c
    BY <2>1, PowerEven
  <2> HIDE DEF a, b, c, m, q, r
  <2>4. v = r + a * (2 * (c * q)) /\ c * q \in Int
    BY <1>3, <2>2, <2>3
  <2> DEFINE u == c * q  t == r \div a
  <2>5. v = r + a * (2 * u) /\ u \in Int /\ 2 * u \in Int
    BY <2>4
  <2> HIDE DEF u
  <2>6. v \div a = (r \div a) + 2 * u
    BY <1>3, <2>2, <2>5, DivisionOfSum
  <2>7. r \div a \in Int
    BY <1>3, <2>2, Division
  <2> HIDE DEF t
  <2>8. (v \div a) % 2 = t % 2
    <3>1. v \div a = t + 2 * u /\ t \in Int
      BY <2>6, <2>7 DEF t
    <3> QED
      BY <2>5, <3>1
  <2> QED
    BY <1>4, <2>8 DEF Bit, a, r, m, t
<1>5. CASE ~(i < w)
  <2>1. w \in 0..i /\ i \in 0..Width[4]
    BY <1>1, <1>5
  <2> DEFINE a == 2 ^ i  b == 2 ^ (i - w)
  <2>2. a \in Nat /\ b \in Nat /\ b > 0 /\ a = m * b
    BY <2>1, PowerSplit
  <2> HIDE DEF a, b, m, r
  <2>3. r < a
    <3>1. m <= a
      BY <1>2, <2>2
    <3> QED
      BY <1>2, <1>3, <2>2, <3>1
  <2>4. r \div a = 0
    BY <1>3, <2>2, <2>3, DivisionOfSmall
  <2>5. 0 % 2 = 0
    OBVIOUS
  <2>6. Bit(r, i) = 0
    BY <2>4, <2>5 DEF Bit, a
  <2> QED
    BY <1>5, <2>6 DEF r, m
<1> QED
  BY <1>4, <1>5

\* A number has no bits above its width.
LEMMA BitOfSmall ==
  ASSUME NEW w \in 0..Width[4], NEW v \in 0..(2 ^ w - 1), NEW i \in 0..Width[4], i >= w
  PROVE  Bit(v, i) = 0
<1> DEFINE m == 2 ^ w
<1>1. m \in Nat /\ w \in 0..w /\ w \in Int /\ i \in Int
  <2>1. w \in 0..w /\ w \in Int /\ i \in Int
    BY Widths DEF Sizes
  <2> QED
    BY <2>1, PowerSplit
<1>2. v \in Int /\ 0 <= v /\ v < m
  BY <1>1
<1>3. v % m = v
  <2> HIDE DEF m
  <2> QED
    BY <1>1, <1>2, DivisionOfSmall
<1>4. Bit(v % m, i) = IF i < w THEN Bit(v, i) ELSE 0
  BY <1>2, BitOfCut
<1> QED
  BY <1>1, <1>3, <1>4

\* A power of two has one bit.
LEMMA BitOfPower ==
  ASSUME NEW n \in 0..(Width[4] - 1), NEW i \in 0..(Width[4] - 1)
  PROVE  /\ 2 ^ n \in Word
         /\ Bit(2 ^ n, i) = IF i = n THEN 1 ELSE 0
<1> DEFINE z == Width[4]
<1>1. z \in Nat /\ n \in 0..z /\ n < z /\ i \in 0..z /\ i < z /\ n \in Int /\ i \in Int
  BY Widths DEF Sizes
<1>2. 2 ^ n \in Word
  <2>1. z \in 0..Width[4] /\ n \in 0..z /\ z - n \in 0..Width[4] /\ z - n > 0
    BY <1>1
  <2> DEFINE a == 2 ^ n  b == 2 ^ (z - n)
  <2>2. a \in Nat /\ a > 0 /\ 2 ^ z = a * b /\ b \in Nat /\ b > 1 /\ 2 ^ z \in Nat
    <3>1. a \in Nat /\ a > 0 /\ 2 ^ z = a * b /\ b \in Nat /\ 2 ^ z \in Nat
      BY <2>1, PowerSplit
    <3>2. 2 ^ ((z - n) - 1) \in Nat /\ 2 ^ ((z - n) - 1) > 0 /\ b = 2 * 2 ^ ((z - n) - 1)
      BY <2>1, PowerEven
    <3>3. b > 1
      <4> HIDE DEF b
      <4> QED
        BY <3>1, <3>2
    <3> QED
      BY <3>1, <3>3
  <2> HIDE DEF z, a, b
  <2>3. a < a * b
    BY <2>2
  <2>4. a \in 0..(2 ^ z - 1)
    BY <2>2, <2>3
  <2> QED
    BY <2>4 DEF Word, Mod, a, z
<1>3. 1 * 2 ^ n = 2 ^ n
  <2>1. 2 ^ n \in Int
    BY <1>1, <1>2, Widths DEF Word, Sizes
  <2> QED
    BY <2>1
<1>4. Bit(1 * 2 ^ n, i) = IF i < n THEN 0 ELSE Bit(1, i - n)
  BY <1>1, BitOfShl
<1>5. Bit(1, 0) = 1
  BY LowestBit
<1>6. i > n => Bit(1, i - n) = 0
  <2> SUFFICES ASSUME i > n PROVE Bit(1, i - n) = 0
    OBVIOUS
  <2>1. 2 ^ 1 = 2 /\ 1 \in 0..(2 ^ 1 - 1)
    OBVIOUS
  <2>2. 1 \in 0..Width[4] /\ i - n \in 0..Width[4] /\ i - n >= 1
    BY <1>1
  <2> QED
    BY <2>1, <2>2, BitOfSmall
<1> QED
  BY <1>1, <1>2, <1>3, <1>4, <1>5, <1>6

\* The complement turns every bit over.
LEMMA BitOfComplement ==
  ASSUME NEW v \in Word, NEW i \in 0..(Width[4] - 1)
  PROVE  Mod(4) - 1 - v \in Word /\ Bit(Mod(4) - 1 - v, i) = 1 - Bit(v, i)
<1> DEFINE z == Width[4]  m == 2 ^ z
<1>1. z \in Nat /\ i \in 0..z /\ z - i \in 0..Width[4] /\ z - i > 0 /\ z \in 0..Width[4]
  BY Widths DEF Sizes
<1> DEFINE a == 2 ^ i  b == 2 ^ (z - i)  c == 2 ^ ((z - i) - 1)
<1>2. a \in Nat /\ a > 0 /\ b \in Nat /\ m = a * b /\ m \in Nat
  BY <1>1, PowerSplit
<1>3. c \in Nat /\ b = 2 * c
  BY <1>1, PowerEven
<1>4. v \in Int /\ 0 <= v /\ v < m
  BY <1>2 DEF Word, Mod
<1> DEFINE q == v \div a  r == v % a  x == m - 1 - v
<1> HIDE DEF a, b, c, m
<1>5. q \in Int /\ r \in Int /\ 0 <= r /\ r < a /\ v = a * q + r
  BY <1>2, <1>4, Division
<1> HIDE DEF q, r
<1>6. /\ x \in Int /\ 2 * c - 1 - q \in Int /\ a - 1 - r \in Int
      /\ x = a * (2 * c - 1 - q) + (a - 1 - r) /\ 0 <= a - 1 - r /\ a - 1 - r < a
  <2>1. a * (2 * c - 1 - q) = a * (2 * c) - a - a * q
    BY <1>2, <1>3, <1>5
  <2> QED
    BY <1>2, <1>3, <1>4, <1>5, <2>1
<1> HIDE DEF x
<1>7. x \div a = 2 * c - 1 - q
  BY <1>2, <1>6, DivisionUnique
<1>8. (2 * c - 1 - q) % 2 = 1 - (q % 2)
  BY <1>3, <1>5
<1>9. x \in 0..(m - 1)
  BY <1>2, <1>4 DEF x
<1>10. Bit(x, i) = 1 - Bit(v, i)
  BY <1>7, <1>8 DEF Bit, a, q
<1> QED
  BY <1>9, <1>10 DEF x, m, Word, Mod

\* Every set of natural numbers that is not empty has a least element.
LEMMA LeastElement ==
  ASSUME NEW S, S \subseteq Nat, S # {}
  PROVE  \E n \in S : \A m \in S : n <= m
<1> DEFINE less == OpToRel(<, Nat)
<1>1. IsWellFoundedOn(less, Nat)
  BY NatLessThanWellFounded, Zenon
<1>2. \A x, y \in Nat : x < y => <<x, y>> \in less
  BY DEF OpToRel
<1> HIDE DEF less
<1>3. PICK x \in S : \A y \in S : ~(<<y, x>> \in less)
  BY <1>1, WFMin
<1>4. ASSUME NEW y \in S PROVE x <= y
  <2>1. x \in Nat /\ y \in Nat
    OBVIOUS
  <2>2. ~(y < x)
    BY <1>2, <1>3, <2>1
  <2> QED
    BY <2>1, <2>2
<1> QED
  BY <1>4

\* Two numbers below 2^w with the same bits are equal: the highest bits are
\* the quotients by 2^(w-1), the others are those of the remainders.
LEMMA SameBits ==
  ASSUME NEW w \in 0..Width[4], NEW u \in 0..(2 ^ w - 1), NEW v \in 0..(2 ^ w - 1),
         \A i \in 0..(w - 1) : Bit(u, i) = Bit(v, i)
  PROVE  u = v
<1> DEFINE Differ(n) == \E x, y \in 0..(2 ^ n - 1) :
                          x # y /\ \A i \in 0..(n - 1) : Bit(x, i) = Bit(y, i)
           S == {n \in 0..Width[4] : Differ(n)}
<1>1. Width[4] \in Nat
  BY Widths DEF Sizes
<1> SUFFICES ASSUME u # v PROVE FALSE
  OBVIOUS
<1>2. w \in S
  OBVIOUS
<1>3. S \subseteq Nat
  BY <1>1
<1> HIDE DEF S
<1>4. PICK n \in S : \A m \in S : n <= m
  BY <1>2, <1>3, LeastElement
<1>5. n \in 0..Width[4] /\ Differ(n)
  BY DEF S
<1>6. PICK x, y \in 0..(2 ^ n - 1) : x # y /\ \A i \in 0..(n - 1) : Bit(x, i) = Bit(y, i)
  BY <1>5
<1>7. n # 0
  <2> SUFFICES ASSUME n = 0 PROVE FALSE
    OBVIOUS
  <2>1. 2 ^ 0 = 1
    OBVIOUS
  <2>2. x \in 0..0 /\ y \in 0..0
    BY <1>6, <2>1
  <2> QED
    BY <1>6, <2>2
<1> DEFINE k == n - 1  h == 2 ^ k
<1>8. k \in 0..Width[4] /\ k \in 0..(n - 1) /\ n \in Nat /\ n > 0
  BY <1>1, <1>5, <1>7
<1>9. h \in Nat /\ h > 0 /\ 2 ^ n = 2 * h
  BY <1>5, <1>8, PowerEven
<1>10. x \in Int /\ 0 <= x /\ x < 2 * h /\ y \in Int /\ 0 <= y /\ y < 2 * h
  BY <1>6, <1>9
<1>11. x \div h = y \div h
  <2>1. Bit(x, k) = Bit(y, k)
    BY <1>6, <1>8
  <2> DEFINE p == x \div h  q == y \div h
  <2>2. p % 2 = q % 2
    BY <2>1 DEF Bit
  <2>3. p \in {0, 1} /\ q \in {0, 1}
    <3> HIDE DEF h
    <3> QED
      BY <1>9, <1>10, Division
  <2> HIDE DEF p, q
  <2>4. p = q
    BY <2>2, <2>3
  <2> QED
    BY <2>4 DEF p, q
<1> DEFINE xr == x % h  yr == y % h
<1>12. xr \in 0..(h - 1) /\ yr \in 0..(h - 1)
  <2> HIDE DEF h
  <2> QED
    BY <1>9, <1>10, Division
<1>13. xr # yr
  <2> DEFINE p == x \div h  q == y \div h
  <2>1. p \in Int /\ q \in Int /\ x = h * p + xr /\ y = h * q + yr
    <3> HIDE DEF h
    <3> QED
      BY <1>9, <1>10, Division
  <2>2. p = q
    BY <1>11
  <2> HIDE DEF p, q, xr, yr
  <2> QED
    BY <1>6, <2>1, <2>2
<1>14. ASSUME NEW i \in 0..(k - 1) PROVE Bit(xr, i) = Bit(yr, i)
  <2>1. i \in 0..Width[4] /\ i < k /\ i \in 0..(n - 1)
    BY <1>1, <1>5, <1>8
  <2>2. Bit(xr, i) = Bit(x, i) /\ Bit(yr, i) = Bit(y, i)
    BY <1>8, <1>10, <2>1, BitOfCut
  <2> QED
    BY <1>6, <2>1, <2>2
<1>15. k \in S
  BY <1>8, <1>12, <1>13, <1>14 DEF S
<1> QED
  BY <1>4, <1>8, <1>15

---------------------------------------------------------------------------
(* The operators of the handlers *)

\* The low part of a number.
LEMMA LowWord ==
  ASSUME NEW s \in Sizes, NEW v \in Int
  PROVE  /\ Low(v, s) \in 0..(Mod(s) - 1) /\ Low(v, s) \in Word
         /\ Low(v, s) \in Int /\ 0 <= Low(v, s) /\ Low(v, s) < Mod(s)
         /\ \A i \in 0..Width[4] : Bit(Low(v, s), i) = IF i < Width[s] THEN Bit(v, i) ELSE 0
<1> DEFINE m == Mod(s)
<1>1. m \in Nat /\ m > 0 /\ Mod(4) \in Nat /\ m <= Mod(4) /\ Width[s] \in 0..Width[4]
  BY Widths
<1>2. v % m \in Int /\ 0 <= v % m /\ v % m < m
  <2> HIDE DEF m
  <2> QED
    BY <1>1, Division
<1>3. \A i \in 0..Width[4] : Bit(v % 2 ^ Width[s], i) = IF i < Width[s] THEN Bit(v, i) ELSE 0
  BY <1>1, BitOfCut
<1> QED
  BY <1>1, <1>2, <1>3 DEF Low, Word, Mod

\* A number of the size is its own low part.
LEMMA LowOfWord ==
  ASSUME NEW s \in Sizes, NEW v \in 0..(Mod(s) - 1)
  PROVE  Low(v, s) = v /\ v \in Word /\ v \in Int
<1> DEFINE m == Mod(s)
<1>1. m \in Nat /\ Mod(4) \in Nat /\ m <= Mod(4) /\ v \in Int /\ 0 <= v /\ v < m
  BY Widths
<1>2. v % m = v
  <2> HIDE DEF m
  <2> QED
    BY <1>1, DivisionOfSmall
<1> QED
  BY <1>1, <1>2 DEF Low, Word

\* The bits of a word of the size end at its width.
LEMMA BitAbove ==
  ASSUME NEW s \in Sizes, NEW v \in 0..(Mod(s) - 1), NEW i \in 0..Width[4], i >= Width[s]
  PROVE  Bit(v, i) = 0
<1>1. Width[s] \in 0..Width[4]
  BY Widths
<1> QED
  BY <1>1, BitOfSmall DEF Mod

\* Words are numbers below 2^Width[4].
LEMMA Words ==
  /\ 4 \in Sizes /\ Width[4] \in Nat /\ Width[4] > 0 /\ Mod(4) \in Nat /\ Word = 0..(2 ^ Width[4] - 1)
  /\ \A v \in Word : v \in Int /\ 0 <= v /\ v < Mod(4)
  BY Widths DEF Sizes, Word, Mod

\* >> of C, with the count the host's instruction uses.
LEMMA ShrWord ==
  ASSUME NEW v \in Word, NEW n \in Int, NEW k \in 0..(Width[4] - 1), n % Width[4] = k
  PROVE  /\ Shr(v, n) \in Word /\ Shr(v, n) = v \div 2 ^ k
         /\ \A i \in 0..(Width[4] - 1) :
              Bit(Shr(v, n), i) = IF k + i < Width[4] THEN Bit(v, k + i) ELSE 0
<1> DEFINE z == Width[4]  a == 2 ^ k  b == 2 ^ (z - k)  q == v \div a
<1>1. z \in Nat /\ z \in 0..Width[4] /\ k \in 0..z /\ z - k \in 0..Width[4] /\ k \in Nat
  BY Words
<1>2. a \in Nat /\ a > 0 /\ b \in Nat /\ b > 0 /\ 2 ^ z = a * b
  BY <1>1, PowerSplit
<1>3. v \in Int /\ 0 <= v /\ v < a * b
  BY <1>2, Words DEF Mod
<1>4. q \in Int /\ 0 <= q /\ q < b /\ q <= v
  <2> HIDE DEF a, b
  <2>1. q \in Int /\ v % a \in Int /\ 0 <= v % a /\ v % a < a /\ v = a * q + (v % a)
    BY <1>2, <1>3, Division
  <2> DEFINE r == v % a
  <2>2. r \in Int /\ 0 <= r /\ r < a /\ v = a * q + r
    BY <2>1
  <2> HIDE DEF q, r
  <2>3. 0 <= q /\ q < b
    BY <1>2, <1>3, <2>1, <2>2
  <2>4. q <= a * q
    BY <1>2, <2>1, <2>3
  <2> QED
    BY <1>2, <1>3, <2>1, <2>2, <2>3, <2>4
<1>5. Shr(v, n) = q
  BY DEF Shr
<1>6. q \in Word
  <2> HIDE DEF q
  <2> QED
    BY <1>4, Words DEF Word
<1>7. ASSUME NEW i \in 0..(z - 1) PROVE Bit(q, i) = IF k + i < z THEN Bit(v, k + i) ELSE 0
  <2>1. i \in Nat /\ i \in 0..Width[4]
    BY <1>1
  <2>2. CASE k + i < z
    <3>1. k + i <= Width[4]
      BY <1>1, <2>1, <2>2
    <3> QED
      BY <1>1, <1>3, <2>1, <2>2, <3>1, BitOfShr
  <2>3. CASE ~(k + i < z)
    <3>1. i >= z - k
      BY <1>1, <2>1, <2>3
    <3>2. q \in 0..(b - 1)
      <4> HIDE DEF q, b
      <4> QED
        BY <1>2, <1>4
    <3>3. Bit(q, i) = 0
      <4> HIDE DEF q
      <4> QED
        BY <1>1, <2>1, <3>1, <3>2, BitOfSmall
    <3> QED
      BY <2>3, <3>3
  <2> QED
    BY <2>2, <2>3
<1> QED
  BY <1>5, <1>6, <1>7

\* << of C, with the count the host's instruction uses.
LEMMA ShlWord ==
  ASSUME NEW v \in Word, NEW n \in Int, NEW k \in 0..(Width[4] - 1), n % Width[4] = k
  PROVE  /\ Shl(v, n) \in Word /\ Shl(v, n) = Low(v * 2 ^ k, 4) /\ v * 2 ^ k \in Int
         /\ \A i \in 0..(Width[4] - 1) :
              Bit(Shl(v, n), i) = IF i < k THEN 0 ELSE Bit(v, i - k)
<1>1. Width[4] \in Nat /\ k \in 0..Width[4] /\ k \in 0..k /\ v \in Int /\ 4 \in Sizes
  BY Words
<1>2. 2 ^ k \in Nat
  BY <1>1, PowerSplit
<1> DEFINE x == v * 2 ^ k
<1>3. x \in Int
  <2> DEFINE a == 2 ^ k
  <2>1. a \in Int
    BY <1>2
  <2> HIDE DEF a
  <2>2. v * a \in Int
    BY <1>1, <2>1
  <2> QED
    BY <2>2 DEF a
<1>4. Shl(v, n) = Low(x, 4)
  BY DEF Shl, Low
<1>5. ASSUME NEW i \in 0..(Width[4] - 1)
      PROVE  Bit(Low(x, 4), i) = IF i < k THEN 0 ELSE Bit(v, i - k)
  <2>1. i \in 0..Width[4] /\ i < Width[4]
    BY <1>1
  <2>2. Bit(x, i) = IF i < k THEN 0 ELSE Bit(v, i - k)
    BY <1>1, <2>1, BitOfShl
  <2> HIDE DEF x
  <2>3. Bit(Low(x, 4), i) = Bit(x, i)
    BY <1>1, <1>3, <2>1, LowWord
  <2> QED
    BY <2>2, <2>3
<1>6. Low(x, 4) \in Word
  <2> HIDE DEF x
  <2> QED
    BY <1>1, <1>3, LowWord
<1> QED
  BY <1>3, <1>4, <1>5, <1>6

\* | of C.
LEMMA OrWord ==
  ASSUME NEW a \in Word, NEW b \in Word
  PROVE  /\ BitOr(a, b) \in Word /\ BitOr(a, b) \in Int
         /\ \A i \in 0..(Width[4] - 1) :
              Bit(BitOr(a, b), i) = IF Bit(a, i) = 1 \/ Bit(b, i) = 1 THEN 1 ELSE 0
<1>1. BitOr(a, b) \in Word
  BY Words, BitwiseAssumption
<1> QED
  BY <1>1, Words, BitwiseAssumption

\* & of C.
LEMMA AndWord ==
  ASSUME NEW a \in Word, NEW b \in Word
  PROVE  /\ BitAnd(a, b) \in Word
         /\ \A i \in 0..(Width[4] - 1) :
              Bit(BitAnd(a, b), i) = IF Bit(a, i) = 1 /\ Bit(b, i) = 1 THEN 1 ELSE 0
<1>1. BitAnd(a, b) \in Word
  BY Words, BitwiseAssumption
<1> QED
  BY <1>1, Words, BitwiseAssumption

\* ^ of C.
LEMMA XorWord ==
  ASSUME NEW a \in Word, NEW b \in Word
  PROVE  /\ BitXor(a, b) \in Word
         /\ \A i \in 0..(Width[4] - 1) :
              Bit(BitXor(a, b), i) = IF Bit(a, i) = Bit(b, i) THEN 0 ELSE 1
<1>1. BitXor(a, b) \in Word
  BY Words, BitwiseAssumption
<1> QED
  BY <1>1, Words, BitwiseAssumption

\* How the rotates put two words together.
LEMMA Merged ==
  ASSUME NEW s \in Sizes, NEW a \in Word, NEW b \in Word
  PROVE  LET r == Low(BitOr(a, Low(b, s)), s)
         IN /\ r \in 0..(Mod(s) - 1)
            /\ \A i \in 0..(Width[s] - 1) :
                 Bit(r, i) = IF Bit(a, i) = 1 \/ Bit(b, i) = 1 THEN 1 ELSE 0
<1> DEFINE l == Low(b, s)  o == BitOr(a, l)
<1>1. l \in Word /\ \A i \in 0..Width[4] : Bit(l, i) = IF i < Width[s] THEN Bit(b, i) ELSE 0
  BY Words, LowWord
<1> HIDE DEF l
<1>2. o \in Int /\ \A i \in 0..(Width[4] - 1) :
                     Bit(o, i) = IF Bit(a, i) = 1 \/ Bit(l, i) = 1 THEN 1 ELSE 0
  BY <1>1, OrWord
<1> HIDE DEF o
<1>3. /\ Low(o, s) \in 0..(Mod(s) - 1)
      /\ \A i \in 0..Width[4] : Bit(Low(o, s), i) = IF i < Width[s] THEN Bit(o, i) ELSE 0
  BY <1>2, LowWord
<1>4. \A i \in 0..(Width[s] - 1) : i \in 0..Width[4] /\ i \in 0..(Width[4] - 1) /\ i < Width[s]
  BY Widths
<1> QED
  BY <1>1, <1>2, <1>3, <1>4 DEF o, l

\* A count below the width is used as it is, and the width itself as zero.
LEMMA HostCount ==
  ASSUME NEW n \in Int
  PROVE  /\ n \in 0..(Width[4] - 1) => n % Width[4] = n
         /\ n = Width[4] => n % Width[4] = 0
         /\ n = -1 => n % Width[4] = Width[4] - 1
<1> DEFINE z == Width[4]
<1>1. z \in Nat /\ z > 0
  BY Words
<1> HIDE DEF z
<1>2. n \in 0..(z - 1) => n % z = n
  BY <1>1, DivisionOfSmall
<1>3. n = z => n % z = 0
  <2>1. z = z * 1 + 0
    BY <1>1
  <2> QED
    BY <1>1, <2>1, DivisionUnique
<1>4. n = -1 => n % z = z - 1
  <2>1. -1 = z * (-1) + (z - 1) /\ z - 1 \in Int /\ 0 <= z - 1 /\ z - 1 < z /\ -1 \in Int
    BY <1>1
  <2> QED
    BY <1>1, <2>1, DivisionUnique
<1> QED
  BY <1>2, <1>3, <1>4 DEF z

---------------------------------------------------------------------------
(* Where the bits of an operand of some size go *)

\* An operand is a word and its bits are 0 or 1.
LEMMA Operand ==
  ASSUME NEW s \in Sizes, NEW p \in 0..(Mod(s) - 1)
  PROVE  /\ p \in Word /\ p \in Int
         /\ \A i \in 0..Width[4] : Bit(p, i) \in {0, 1}
         /\ \A i \in 0..Width[4] : i >= Width[s] => Bit(p, i) = 0
  BY LowOfWord, BitAbove, BitValue

\* >> of an operand; a count of Width[4] shifts by nothing.
LEMMA OperandShr ==
  ASSUME NEW s \in Sizes, NEW p \in 0..(Mod(s) - 1), NEW n \in 0..Width[4]
  PROVE  /\ Shr(p, n) \in Word
         /\ n < Width[4] => Shr(p, n) = p \div 2 ^ n
         /\ \A i \in 0..(Width[s] - 1) :
              Bit(Shr(p, n), i) = IF n = Width[4] THEN Bit(p, i)
                                  ELSE IF n + i < Width[s] THEN Bit(p, n + i) ELSE 0
<1>1. /\ Width[4] \in Nat /\ Width[4] > 0 /\ Width[s] \in Nat /\ Width[s] <= Width[4]
      /\ n \in Int /\ p \in Word
  BY Widths, Words, Operand
<1>2. \A i \in 0..(Width[s] - 1) : i \in 0..(Width[4] - 1) /\ i \in Nat
  BY <1>1
<1>3. CASE n < Width[4]
  <2>1. n \in 0..(Width[4] - 1) /\ n % Width[4] = n
    BY <1>1, <1>3, HostCount
  <2>2. /\ Shr(p, n) \in Word /\ Shr(p, n) = p \div 2 ^ n
        /\ \A i \in 0..(Width[4] - 1) :
             Bit(Shr(p, n), i) = IF n + i < Width[4] THEN Bit(p, n + i) ELSE 0
    BY <1>1, <2>1, ShrWord
  <2>3. ASSUME NEW i \in 0..(Width[s] - 1), n + i >= Width[s], n + i < Width[4]
        PROVE  Bit(p, n + i) = 0
    <3>1. n + i \in 0..Width[4]
      BY <1>1, <1>2, <2>3
    <3> QED
      BY <2>3, <3>1, Operand
  <2>4. ASSUME NEW i \in 0..(Width[s] - 1)
        PROVE  Bit(Shr(p, n), i) = IF n + i < Width[s] THEN Bit(p, n + i) ELSE 0
    <3>1. Bit(Shr(p, n), i) = IF n + i < Width[4] THEN Bit(p, n + i) ELSE 0
      BY <1>2, <2>2
    <3>2. CASE n + i < Width[s]
      BY <1>1, <1>2, <3>1, <3>2
    <3>3. CASE ~(n + i < Width[s])
      BY <1>1, <1>2, <2>3, <3>1, <3>3
    <3> QED
      BY <3>2, <3>3
  <2> QED
    BY <1>1, <1>3, <2>2, <2>4
<1>4. CASE n = Width[4]
  <2>1. 0 \in 0..(Width[4] - 1) /\ n % Width[4] = 0
    BY <1>1, <1>4, HostCount
  <2>2. /\ Shr(p, n) \in Word
        /\ \A i \in 0..(Width[4] - 1) :
             Bit(Shr(p, n), i) = IF 0 + i < Width[4] THEN Bit(p, 0 + i) ELSE 0
    BY <1>1, <2>1, ShrWord
  <2>3. \A i \in 0..(Width[4] - 1) : 0 + i = i /\ i < Width[4]
    BY <1>1
  <2> QED
    BY <1>1, <1>2, <1>4, <2>2, <2>3
<1> QED
  BY <1>1, <1>3, <1>4

\* << of an operand; a count of Width[4] shifts by nothing.
LEMMA OperandShl ==
  ASSUME NEW s \in Sizes, NEW p \in 0..(Mod(s) - 1), NEW n \in 0..Width[4]
  PROVE  /\ Shl(p, n) \in Word
         /\ n < Width[4] => Shl(p, n) = Low(p * 2 ^ n, 4) /\ p * 2 ^ n \in Int
         /\ \A i \in 0..(Width[s] - 1) :
              Bit(Shl(p, n), i) = IF n = Width[4] THEN Bit(p, i)
                                  ELSE IF i < n THEN 0 ELSE Bit(p, i - n)
<1>1. /\ Width[4] \in Nat /\ Width[4] > 0 /\ Width[s] \in Nat /\ Width[s] <= Width[4]
      /\ n \in Int /\ p \in Word
  BY Widths, Words, Operand
<1>2. \A i \in 0..(Width[s] - 1) : i \in 0..(Width[4] - 1) /\ i \in Nat
  BY <1>1
<1>3. CASE n < Width[4]
  <2>1. n \in 0..(Width[4] - 1) /\ n % Width[4] = n
    BY <1>1, <1>3, HostCount
  <2>2. /\ Shl(p, n) \in Word /\ Shl(p, n) = Low(p * 2 ^ n, 4) /\ p * 2 ^ n \in Int
        /\ \A i \in 0..(Width[4] - 1) : Bit(Shl(p, n), i) = IF i < n THEN 0 ELSE Bit(p, i - n)
    BY <1>1, <2>1, ShlWord
  <2> QED
    BY <1>1, <1>2, <1>3, <2>2
<1>4. CASE n = Width[4]
  <2>1. 0 \in 0..(Width[4] - 1) /\ n % Width[4] = 0
    BY <1>1, <1>4, HostCount
  <2>2. /\ Shl(p, n) \in Word
        /\ \A i \in 0..(Width[4] - 1) : Bit(Shl(p, n), i) = IF i < 0 THEN 0 ELSE Bit(p, i - 0)
    BY <1>1, <2>1, ShlWord
  <2>3. \A i \in 0..(Width[4] - 1) : i - 0 = i /\ ~(i < 0)
    BY <1>1
  <2> QED
    BY <1>1, <1>2, <1>4, <2>2, <2>3
<1> QED
  BY <1>1, <1>3, <1>4

\* What rol_i computes: the bits that leave at the top come back at the bottom.
LEMMA RolBits ==
  ASSUME NEW s \in Sizes, NEW p \in 0..(Mod(s) - 1), NEW c \in 0..(Width[s] - 1)
  PROVE  LET w == Width[s]
             scaped == Low(Shr(p, w - c), s)
             r == Low(BitOr(Shl(p, c), scaped), s)
         IN /\ r \in 0..(Mod(s) - 1)
            /\ \A j \in 0..(w - 1) : Bit(r, j) = IF j < c THEN Bit(p, j + (w - c)) ELSE Bit(p, j - c)
            /\ c > 0 => scaped % 2 = Bit(r, 0)
<1> DEFINE w == Width[s]  z == Width[4]  a == Shl(p, c)  b == Shr(p, w - c)
           scaped == Low(b, s)  r == Low(BitOr(a, scaped), s)
<1>1. /\ z \in Nat /\ z > 0 /\ w \in Nat /\ w > 0 /\ w <= z
      /\ c \in Nat /\ c \in 0..z /\ c < z /\ c < w /\ w - c \in 0..z
  BY Widths
<1>2. /\ a \in Word
      /\ \A j \in 0..(w - 1) : Bit(a, j) = IF j < c THEN 0 ELSE Bit(p, j - c)
  BY <1>1, OperandShl
<1>3. /\ b \in Word
      /\ \A j \in 0..(w - 1) : Bit(b, j) = IF w - c = z THEN Bit(p, j)
                                           ELSE IF (w - c) + j < w THEN Bit(p, (w - c) + j) ELSE 0
  BY <1>1, OperandShr
<1> HIDE DEF a, b
<1>4. /\ r \in 0..(Mod(s) - 1)
      /\ \A j \in 0..(w - 1) : Bit(r, j) = IF Bit(a, j) = 1 \/ Bit(b, j) = 1 THEN 1 ELSE 0
  BY <1>2, <1>3, Merged
<1>5. ASSUME NEW j \in 0..(w - 1)
      PROVE  Bit(r, j) = IF j < c THEN Bit(p, j + (w - c)) ELSE Bit(p, j - c)
  <2>1. CASE j < c
    <3>1. ~(w - c = z) /\ (w - c) + j < w /\ (w - c) + j = j + (w - c) /\ j + (w - c) \in 0..z
      BY <1>1, <2>1
    <3>2. Bit(a, j) = 0 /\ Bit(b, j) = Bit(p, j + (w - c))
      BY <1>2, <1>3, <2>1, <3>1
    <3>3. Bit(p, j + (w - c)) \in {0, 1}
      BY <3>1, Operand
    <3> HIDE DEF r
    <3> QED
      BY <1>4, <2>1, <3>2, <3>3
  <2>2. CASE ~(j < c)
    <3>1. /\ w - c = z => j - c = j
          /\ ~((w - c) + j < w) /\ j - c \in 0..z
      BY <1>1, <2>2
    <3>2. Bit(a, j) = Bit(p, j - c) /\ (Bit(b, j) = 0 \/ Bit(b, j) = Bit(p, j - c))
      BY <1>2, <1>3, <2>2, <3>1
    <3>3. Bit(p, j - c) \in {0, 1}
      BY <3>1, Operand
    <3> HIDE DEF r
    <3> QED
      BY <1>4, <2>2, <3>2, <3>3
  <2> QED
    BY <2>1, <2>2
<1>6. ASSUME c > 0 PROVE scaped % 2 = Bit(r, 0)
  <2>1. 0 \in 0..(w - 1) /\ 0 \in 0..z /\ 0 < c /\ 0 + (w - c) = (w - c) + 0 /\ ~(w - c = z) /\ (w - c) + 0 < w
    BY <1>1, <1>6
  <2>2. Bit(r, 0) = Bit(p, (w - c) + 0)
    <3> HIDE DEF r
    <3> QED
      BY <1>5, <2>1
  <2>3. Bit(b, 0) = Bit(p, (w - c) + 0)
    BY <1>3, <2>1
  <2>4. scaped \in Int /\ Bit(scaped, 0) = Bit(b, 0)
    BY <1>1, <1>3, <2>1, LowWord, Words
  <2>5. Bit(scaped, 0) = scaped % 2
    BY <2>4, LowestBit
  <2> QED
    BY <2>2, <2>3, <2>4, <2>5
<1> QED
  BY <1>4, <1>5, <1>6 DEF a, b

\* What ror_i computes.
LEMMA RorBits ==
  ASSUME NEW s \in Sizes, NEW p \in 0..(Mod(s) - 1), NEW c \in 0..(Width[s] - 1)
  PROVE  LET w == Width[s]
             r == Low(BitOr(Shr(p, c), Low(Shl(p, w - c), s)), s)
         IN /\ r \in 0..(Mod(s) - 1)
            /\ \A j \in 0..(w - 1) : Bit(r, j) = IF j + c < w THEN Bit(p, j + c) ELSE Bit(p, (j + c) - w)
<1> DEFINE w == Width[s]  z == Width[4]  a == Shr(p, c)  b == Shl(p, w - c)
           r == Low(BitOr(a, Low(b, s)), s)
<1>1. /\ z \in Nat /\ z > 0 /\ w \in Nat /\ w > 0 /\ w <= z
      /\ c \in Nat /\ c \in 0..z /\ c < z /\ c < w /\ w - c \in 0..z
  BY Widths
<1>2. /\ a \in Word
      /\ \A j \in 0..(w - 1) : Bit(a, j) = IF c + j < w THEN Bit(p, c + j) ELSE 0
  BY <1>1, OperandShr
<1>3. /\ b \in Word
      /\ \A j \in 0..(w - 1) : Bit(b, j) = IF w - c = z THEN Bit(p, j)
                                           ELSE IF j < w - c THEN 0 ELSE Bit(p, j - (w - c))
  BY <1>1, OperandShl
<1> HIDE DEF a, b
<1>4. /\ r \in 0..(Mod(s) - 1)
      /\ \A j \in 0..(w - 1) : Bit(r, j) = IF Bit(a, j) = 1 \/ Bit(b, j) = 1 THEN 1 ELSE 0
  BY <1>2, <1>3, Merged
<1>5. ASSUME NEW j \in 0..(w - 1)
      PROVE  Bit(r, j) = IF j + c < w THEN Bit(p, j + c) ELSE Bit(p, (j + c) - w)
  <2>1. CASE j + c < w
    <3>1. /\ w - c = z => j = j + c
          /\ j < w - c /\ c + j = j + c /\ j + c \in 0..z
      BY <1>1, <2>1
    <3>2. Bit(a, j) = Bit(p, j + c) /\ (Bit(b, j) = 0 \/ Bit(b, j) = Bit(p, j + c))
      BY <1>2, <1>3, <2>1, <3>1
    <3>3. Bit(p, j + c) \in {0, 1}
      BY <3>1, Operand
    <3> HIDE DEF r
    <3> QED
      BY <1>4, <2>1, <3>2, <3>3
  <2>2. CASE ~(j + c < w)
    <3>1. /\ ~(w - c = z) /\ ~(j < w - c) /\ ~(c + j < w)
          /\ j - (w - c) = (j + c) - w /\ (j + c) - w \in 0..z
      BY <1>1, <2>2
    <3>2. Bit(a, j) = 0 /\ Bit(b, j) = Bit(p, (j + c) - w)
      BY <1>2, <1>3, <2>2, <3>1
    <3>3. Bit(p, (j + c) - w) \in {0, 1}
      BY <3>1, Operand
    <3> HIDE DEF r
    <3> QED
      BY <1>4, <2>2, <3>2, <3>3
  <2> QED
    BY <2>1, <2>2
<1> QED
  BY <1>4, <1>5 DEF a, b

\* What rcl_i computes for a carry y and an operand narrower than uint32_t.
LEMMA RclBits ==
  ASSUME NEW s \in Sizes, s # 4, NEW p \in 0..(Mod(s) - 1), NEW c \in 0..Width[s], NEW y \in {0, 1}
  PROVE  LET w == Width[s]
             scaped == BitOr(Low(Shr(p, w + 1 - c), s), Low(Shl(y, c - 1), s))
             r == Low(BitOr(Shl(p, c), scaped), s)
         IN /\ r \in 0..(Mod(s) - 1)
            /\ \A j \in 0..(w - 1) :
                 Bit(r, j) = IF j >= c THEN Bit(p, j - c)
                             ELSE IF j = c - 1 THEN y ELSE Bit(p, (j - c) + (w + 1))
<1> DEFINE w == Width[s]  z == Width[4]
           a == Shl(p, c)  b == Shr(p, w + 1 - c)  d == Shl(y, c - 1)
           bl == Low(b, s)  dl == Low(d, s)  scaped == BitOr(bl, dl)
           o == BitOr(a, scaped)  r == Low(o, s)
<1>1. /\ z \in Nat /\ z > 0 /\ w \in Nat /\ w > 0 /\ w < z
      /\ c \in Nat /\ c \in 0..z /\ c < z /\ c <= w /\ w + 1 - c \in 0..z
  BY Widths
<1>2. /\ a \in Word
      /\ \A j \in 0..(w - 1) : Bit(a, j) = IF j < c THEN 0 ELSE Bit(p, j - c)
  BY <1>1, OperandShl
<1>3. /\ b \in Word
      /\ \A j \in 0..(w - 1) :
           Bit(b, j) = IF w + 1 - c = z THEN Bit(p, j)
                       ELSE IF (w + 1 - c) + j < w THEN Bit(p, (w + 1 - c) + j) ELSE 0
  BY <1>1, OperandShr
<1>4. y \in 0..(Mod(s) - 1)
  <2>1. Mod(s) \in Nat /\ Mod(s) > 1
    BY Widths
  <2> QED
    BY <2>1
<1>5. Bit(y, 0) = y /\ \A i \in 0..z : i > 0 => Bit(y, i) = 0
  <2>1. Bit(y, 0) = y
    <3>1. y % 2 = y
      OBVIOUS
    <3> QED
      BY <3>1, LowestBit
  <2>2. 2 ^ 1 = 2 /\ 1 \in 0..z
    BY <1>1
  <2>3. y \in 0..(2 ^ 1 - 1)
    BY <2>2
  <2>4. \A i \in 0..z : i > 0 => i >= 1
    BY <1>1
  <2> QED
    BY <2>1, <2>2, <2>3, <2>4, BitOfSmall
<1>6. d \in Word /\ \A j \in 0..(w - 1) : Bit(d, j) = IF j = c - 1 THEN y ELSE 0
  <2>1. CASE c = 0
    <3>1. c - 1 \in Int /\ c - 1 = -1 /\ z - 1 \in 0..(z - 1)
      BY <1>1, <2>1
    <3>2. (c - 1) % z = z - 1
      BY <3>1, HostCount
    <3>3. y \in Word
      BY <1>4, Operand
    <3>4. d \in Word /\ \A i \in 0..(z - 1) : Bit(d, i) = IF i < z - 1 THEN 0 ELSE Bit(y, i - (z - 1))
      BY <3>1, <3>2, <3>3, ShlWord
    <3>5. \A j \in 0..(w - 1) : j \in 0..(z - 1) /\ j < z - 1 /\ ~(j = c - 1)
      BY <1>1, <3>1
    <3> HIDE DEF d
    <3> QED
      BY <3>4, <3>5
  <2>2. CASE c > 0
    <3>1. c - 1 \in 0..z /\ ~(c - 1 = z)
      BY <1>1, <2>2
    <3>2. d \in Word /\ \A j \in 0..(w - 1) : Bit(d, j) = IF j < c - 1 THEN 0 ELSE Bit(y, j - (c - 1))
      BY <1>4, <3>1, OperandShl
    <3> HIDE DEF d
    <3>3. ASSUME NEW j \in 0..(w - 1) PROVE Bit(d, j) = IF j = c - 1 THEN y ELSE 0
      <4>1. CASE j < c - 1
        BY <1>1, <3>2, <4>1
      <4>2. CASE j = c - 1
        <5>1. j - (c - 1) = 0 /\ ~(j < c - 1)
          BY <1>1, <4>2
        <5>2. Bit(d, j) = Bit(y, 0)
          BY <3>2, <5>1
        <5> QED
          BY <1>5, <4>2, <5>2
      <4>3. CASE j > c - 1
        <5>1. j - (c - 1) \in 0..z /\ j - (c - 1) > 0 /\ ~(j < c - 1) /\ ~(j = c - 1)
          BY <1>1, <2>2, <4>3
        <5> QED
          BY <1>5, <3>2, <5>1
      <4> QED
        BY <1>1, <4>1, <4>2, <4>3
    <3> QED
      BY <3>2, <3>3
  <2> QED
    BY <1>1, <2>1, <2>2
<1> HIDE DEF a, b, d
<1>7. \A j \in 0..(w - 1) : j \in 0..z /\ j \in 0..(z - 1) /\ j < w
  BY <1>1
<1>8. /\ bl \in Word /\ \A j \in 0..(w - 1) : Bit(bl, j) = Bit(b, j)
      /\ dl \in Word /\ \A j \in 0..(w - 1) : Bit(dl, j) = Bit(d, j)
  <2>1. b \in Int /\ d \in Int
    BY <1>3, <1>6, Words
  <2> QED
    BY <1>7, <2>1, LowWord
<1> HIDE DEF bl, dl
<1>9. scaped \in Word /\ \A j \in 0..(w - 1) :
                           Bit(scaped, j) = IF Bit(b, j) = 1 \/ Bit(d, j) = 1 THEN 1 ELSE 0
  BY <1>7, <1>8, OrWord
<1> HIDE DEF scaped
<1>10. o \in Int /\ \A j \in 0..(w - 1) :
                      Bit(o, j) = IF Bit(a, j) = 1 \/ Bit(scaped, j) = 1 THEN 1 ELSE 0
  BY <1>2, <1>7, <1>9, OrWord
<1> HIDE DEF o
<1>11. r \in 0..(Mod(s) - 1) /\ \A j \in 0..(w - 1) : Bit(r, j) = Bit(o, j)
  BY <1>7, <1>10, LowWord
<1> HIDE DEF r
<1>12. ASSUME NEW j \in 0..(w - 1)
       PROVE  Bit(r, j) = IF j >= c THEN Bit(p, j - c)
                          ELSE IF j = c - 1 THEN y ELSE Bit(p, (j - c) + (w + 1))
  <2>1. Bit(r, j) = IF Bit(a, j) = 1 \/ Bit(b, j) = 1 \/ Bit(d, j) = 1 THEN 1 ELSE 0
    BY <1>9, <1>10, <1>11
  <2>2. CASE j >= c
    <3>1. /\ w + 1 - c = z => j - c = j
          /\ ~(j < c) /\ ~(j = c - 1) /\ ~((w + 1 - c) + j < w) /\ j - c \in 0..z
      BY <1>1, <2>2
    <3>2. /\ Bit(a, j) = Bit(p, j - c) /\ Bit(d, j) = 0
          /\ Bit(b, j) = 0 \/ Bit(b, j) = Bit(p, j - c)
      BY <1>2, <1>3, <1>6, <3>1
    <3>3. Bit(p, j - c) \in {0, 1}
      BY <3>1, Operand
    <3> QED
      BY <2>1, <2>2, <3>2, <3>3
  <2>3. CASE j = c - 1
    <3>1. ~(j >= c) /\ j < c /\ ~(w + 1 - c = z) /\ ~((w + 1 - c) + j < w)
      BY <1>1, <2>3
    <3>2. Bit(a, j) = 0 /\ Bit(d, j) = y /\ Bit(b, j) = 0
      BY <1>2, <1>3, <1>6, <2>3, <3>1
    <3> QED
      BY <2>1, <2>3, <3>1, <3>2
  <2>4. CASE j < c - 1
    <3>1. /\ ~(j >= c) /\ j < c /\ ~(j = c - 1) /\ ~(w + 1 - c = z) /\ (w + 1 - c) + j < w
          /\ (w + 1 - c) + j = (j - c) + (w + 1) /\ (j - c) + (w + 1) \in 0..z
      BY <1>1, <2>4
    <3>2. Bit(a, j) = 0 /\ Bit(d, j) = 0 /\ Bit(b, j) = Bit(p, (j - c) + (w + 1))
      BY <1>2, <1>3, <1>6, <3>1
    <3>3. Bit(p, (j - c) + (w + 1)) \in {0, 1}
      BY <3>1, Operand
    <3> QED
      BY <2>1, <3>1, <3>2, <3>3
  <2> QED
    BY <1>1, <2>2, <2>3, <2>4
<1> QED
  BY <1>11, <1>12 DEF a, b, d, bl, dl, scaped, o, r

\* What shrd_i computes: the pair of q and p, shifted.
LEMMA ShrdBits ==
  ASSUME NEW s \in Sizes, NEW p \in 0..(Mod(s) - 1), NEW q \in 0..(Mod(s) - 1),
         NEW a \in 1..(Width[s] - 1)
  PROVE  LET r == Low(BitOr(Shr(p, a), Low(Shl(q, Width[s] - a), s)), s)
         IN r \in 0..(Mod(s) - 1) /\ r = ((q * Mod(s) + p) \div 2 ^ a) % Mod(s)
<1> DEFINE w == Width[s]  z == Width[4]  x == Shr(p, a)  y == Shl(q, w - a)
           r == Low(BitOr(x, Low(y, s)), s)
<1>1. /\ z \in Nat /\ w \in Nat /\ w <= z /\ w \in 0..z
      /\ a \in Nat /\ a > 0 /\ a \in 0..z /\ a \in 0..w /\ a < z /\ a < w
      /\ w - a \in 0..z /\ w - a < z
  BY Widths
<1> DEFINE m == 2 ^ a  n == 2 ^ (w - a)  t == p \div m
<1>2. m \in Nat /\ m > 0 /\ n \in Nat /\ n > 0 /\ Mod(s) = m * n
  BY <1>1, PowerSplit DEF Mod
<1>3. p \in Int /\ q \in Int /\ 0 <= p /\ p < m * n
  BY <1>2, Operand
<1>4. x \in Word /\ x = t /\ \A i \in 0..(w - 1) : Bit(x, i) = IF a + i < w THEN Bit(p, a + i) ELSE 0
  BY <1>1, OperandShr
<1>5. y \in Word /\ \A i \in 0..(w - 1) : Bit(y, i) = IF i < w - a THEN 0 ELSE Bit(q, i - (w - a))
  BY <1>1, OperandShl
<1>6. t \in Int /\ 0 <= t /\ t < n
  <2> HIDE DEF m, n
  <2>1. t \in Int /\ p % m \in Int /\ 0 <= p % m /\ p % m < m /\ p = m * t + (p % m)
    BY <1>2, <1>3, Division
  <2> DEFINE u == p % m
  <2> HIDE DEF t, u
  <2>2. u \in Int /\ 0 <= u /\ u < m /\ p = m * t + u
    BY <2>1 DEF u
  <2> QED
    BY <1>2, <1>3, <2>1, <2>2
<1>7. (q * Mod(s) + p) \div m = t + n * q
  <2> HIDE DEF m, n
  <2> DEFINE k == n * q
  <2>1. k \in Int /\ q * (m * n) + p = p + m * k
    BY <1>2, <1>3
  <2> HIDE DEF k
  <2>2. (p + m * k) \div m = t + k
    BY <1>2, <1>3, <2>1, DivisionOfSum
  <2> QED
    BY <1>2, <2>1, <2>2 DEF k
<1> DEFINE S == t + n * q
<1>8. S \in Int /\ S \div n = q /\ S % n = t
  <2> HIDE DEF n, t
  <2>1. S \in Int /\ S = n * q + t
    BY <1>2, <1>3, <1>6
  <2> HIDE DEF S
  <2> QED
    BY <1>2, <1>3, <1>6, <2>1, DivisionUnique
<1>9. /\ Low(S, s) \in 0..(Mod(s) - 1)
      /\ \A i \in 0..z : Bit(Low(S, s), i) = IF i < w THEN Bit(S, i) ELSE 0
  <2> HIDE DEF S
  <2> QED
    BY <1>8, LowWord
<1> HIDE DEF x, y
<1>10. /\ r \in 0..(Mod(s) - 1)
       /\ \A i \in 0..(w - 1) : Bit(r, i) = IF Bit(x, i) = 1 \/ Bit(y, i) = 1 THEN 1 ELSE 0
  BY <1>4, <1>5, Merged
<1> HIDE DEF r, S, t
<1>11. ASSUME NEW i \in 0..(w - 1) PROVE Bit(r, i) = Bit(Low(S, s), i)
  <2>1. i \in 0..z /\ i < w /\ i \in Nat
    BY <1>1
  <2>2. Bit(Low(S, s), i) = Bit(S, i)
    BY <1>9, <2>1
  <2>3. CASE i < w - a
    <3>1. a + i < w /\ a + i \in 0..z
      BY <1>1, <2>1, <2>3
    <3>2. Bit(x, i) = Bit(p, a + i) /\ Bit(y, i) = 0 /\ Bit(p, a + i) \in {0, 1}
      BY <1>4, <1>5, <2>3, <3>1, Operand
    <3>3. Bit(r, i) = Bit(x, i)
      BY <1>10, <3>2
    <3>4. Bit(S % n, i) = Bit(S, i)
      BY <1>1, <1>8, <2>1, <2>3, BitOfCut
    <3> QED
      BY <1>4, <1>8, <2>2, <3>3, <3>4
  <2>4. CASE ~(i < w - a)
    <3>1. ~(a + i < w) /\ i - (w - a) \in 0..z /\ i - (w - a) \in Nat /\ w - a \in Nat
          /\ (w - a) + (i - (w - a)) = i /\ (w - a) + (i - (w - a)) <= z
      BY <1>1, <2>1, <2>4
    <3>2. Bit(x, i) = 0 /\ Bit(y, i) = Bit(q, i - (w - a)) /\ Bit(q, i - (w - a)) \in {0, 1}
      BY <1>4, <1>5, <2>4, <3>1, Operand
    <3>3. Bit(r, i) = Bit(q, i - (w - a))
      BY <1>10, <3>2
    <3>4. Bit(S \div n, i - (w - a)) = Bit(S, (w - a) + (i - (w - a)))
      BY <1>8, <3>1, BitOfShr
    <3> QED
      BY <1>8, <2>2, <3>1, <3>3, <3>4
  <2> QED
    BY <2>3, <2>4
<1>12. r = Low(S, s)
  BY <1>1, <1>9, <1>10, <1>11, SameBits DEF Mod
<1> QED
  BY <1>7, <1>10, <1>12 DEF Low, S, r, x, y

---------------------------------------------------------------------------
(* Shifts by 1..W-1 *)

\* A number cut to uint32_t and then to a size is cut to the size.
LEMMA LowOfLow ==
  ASSUME NEW s \in Sizes, NEW v \in Int
  PROVE  Low(Low(v, 4), s) = Low(v, s)
<1> DEFINE m == Mod(s)  mm == Mod(4)
<1>1. m \in Nat /\ m > 0 /\ mm \in Nat /\ mm > 0
  BY Widths
<1>2. PICK k \in Nat : mm = m * k
  BY Widths
<1> DEFINE q == v \div mm  r == v % mm
<1> HIDE DEF m, mm
<1>3. q \in Int /\ r \in Int /\ v = mm * q + r
  BY <1>1, Division
<1> HIDE DEF q, r
<1> DEFINE t == k * q
<1>4. t \in Int /\ v = r + m * t
  <2>1. t \in Int /\ (m * k) * q = m * t
    BY <1>1, <1>3
  <2> QED
    BY <1>1, <1>2, <1>3, <2>1
<1> HIDE DEF t
<1>5. (r + m * t) % m = r % m
  BY <1>1, <1>3, <1>4, DivisionOfSum
<1> QED
  BY <1>4, <1>5 DEF Low, m, mm, r

\* What sal_i and shl_i compute.
LEMMA LeftExact ==
  ASSUME NEW s \in Sizes, NEW p \in 0..(Mod(s) - 1), NEW c \in 1..(Width[s] - 1)
  PROVE  /\ Low(Shl(p, c), s) \in 0..(Mod(s) - 1)
         /\ Low(Shl(p, c), s) = (p * 2 ^ c) % Mod(s)
         /\ Shr(p, Width[s] - c) % 2 = Bit(p, Width[s] - c)
<1>1. /\ Width[4] \in Nat /\ c \in 0..Width[4] /\ c < Width[4]
      /\ Width[s] - c \in 0..Width[4] /\ Width[s] - c < Width[4]
  BY Widths
<1>2. Shl(p, c) = Low(p * 2 ^ c, 4) /\ p * 2 ^ c \in Int
  BY <1>1, OperandShl
<1>3. Low(Low(p * 2 ^ c, 4), s) = Low(p * 2 ^ c, s) /\ Low(p * 2 ^ c, s) \in 0..(Mod(s) - 1)
  <2> DEFINE x == p * 2 ^ c
  <2>1. x \in Int
    BY <1>2
  <2> HIDE DEF x
  <2>2. Low(Low(x, 4), s) = Low(x, s) /\ Low(x, s) \in 0..(Mod(s) - 1)
    BY <2>1, LowOfLow, LowWord
  <2> QED
    BY <2>2 DEF x
<1>4. Shr(p, Width[s] - c) = p \div 2 ^ (Width[s] - c)
  BY <1>1, OperandShr
<1> QED
  BY <1>2, <1>3, <1>4 DEF Low, Bit

\* What shr_i computes.
LEMMA ShrExact ==
  ASSUME NEW s \in Sizes, NEW p \in 0..(Mod(s) - 1), NEW c \in 1..(Width[s] - 1)
  PROVE  /\ Shr(p, c) \in 0..(Mod(s) - 1)
         /\ Shr(p, c) = p \div 2 ^ c
         /\ Shr(p, c - 1) % 2 = Bit(p, c - 1)
<1>1. /\ Width[4] \in Nat /\ c \in 0..Width[4] /\ c < Width[4] /\ c \in 0..c
      /\ c - 1 \in 0..Width[4] /\ c - 1 < Width[4]
  BY Widths
<1>2. Shr(p, c) = p \div 2 ^ c /\ Shr(p, c - 1) = p \div 2 ^ (c - 1)
  BY <1>1, OperandShr
<1> DEFINE m == 2 ^ c  q == p \div m
<1>3. m \in Nat /\ m > 0
  BY <1>1, PowerSplit
<1>4. p \in Int /\ 0 <= p /\ p < Mod(s) /\ Mod(s) \in Nat
  BY Widths, Operand
<1>5. q \in Int /\ 0 <= q /\ q <= p
  <2> DEFINE r == p % m
  <2> HIDE DEF m
  <2>1. q \in Int /\ r \in Int /\ 0 <= r /\ r < m /\ p = m * q + r
    BY <1>3, <1>4, Division
  <2> HIDE DEF q, r
  <2>2. 0 <= q
    BY <1>3, <1>4, <2>1
  <2>3. q <= m * q
    BY <1>3, <2>1, <2>2
  <2> QED
    BY <1>3, <1>4, <2>1, <2>2, <2>3
<1>6. q \in 0..(Mod(s) - 1)
  <2> HIDE DEF q
  <2> QED
    BY <1>4, <1>5
<1> QED
  BY <1>2, <1>6 DEF Bit

\* The sign of an operand is whether it is in the upper half of its range.
LEMMA SignIsUpperHalf ==
  ASSUME NEW s \in Sizes, NEW p \in 0..(Mod(s) - 1)
  PROVE  sign(p, Width[s]) <=> p >= Mod(s) \div 2
<1> DEFINE h == 2 ^ (Width[s] - 1)
<1>1. Width[s] \in 0..Width[4] /\ Width[s] > 0
  BY Widths
<1>2. h \in Nat /\ h > 0 /\ Mod(s) = 2 * h
  BY <1>1, PowerEven DEF Mod
<1>3. p \in Int /\ 0 <= p /\ p < 2 * h
  BY <1>2, Operand
<1> HIDE DEF h
<1>4. Mod(s) \div 2 = h
  BY <1>2
<1>5. p \div h # 0 <=> p >= h
  <2> DEFINE q == p \div h  r == p % h
  <2>1. q \in Int /\ r \in Int /\ 0 <= r /\ r < h /\ p = h * q + r
    BY <1>2, <1>3, Division
  <2> HIDE DEF q, r
  <2>2. q # 0 <=> p >= h
    BY <1>2, <1>3, <2>1
  <2> QED
    BY <2>2 DEF q
<1> QED
  BY <1>4, <1>5 DEF sign, h

\* What sar_i computes.
LEMMA SarExact ==
  ASSUME NEW s \in Sizes, NEW p \in 0..(Mod(s) - 1), NEW c \in 1..(Width[s] - 1),
         NEW v \in Int, v = p \/ v = p - Mod(s)
  PROVE  /\ Low((v \div 2 ^ c) + Mod(s), s) \in 0..(Mod(s) - 1)
         /\ Low((v \div 2 ^ c) + Mod(s), s) = (v \div 2 ^ c) % Mod(s)
         /\ (v \div 2 ^ (c - 1)) % 2 = Bit(p, c - 1)
<1> DEFINE m == Mod(s)  q == v \div 2 ^ c
<1>1. /\ Width[4] \in Nat /\ c \in 0..Width[4] /\ Width[s] \in 0..Width[4]
      /\ c - 1 \in 0..Width[4] /\ c - 1 < Width[s]
  BY Widths
<1>2. q \in Int
  BY <1>1, BitValue
<1>3. m \in Nat /\ m > 0 /\ p \in Int /\ 0 <= p /\ p < m
  BY Widths, Operand
<1> HIDE DEF m, q
<1>4. q + m \in Int /\ q + m = q + m * 1
  BY <1>2, <1>3
<1>5. (q + m) % m = q % m
  BY <1>2, <1>3, <1>4, DivisionOfSum
<1>6. Low(q + m, s) \in 0..(Mod(s) - 1)
  BY <1>4, LowWord
<1>7. v % m = p
  <2>1. p % m = p
    BY <1>3, DivisionOfSmall
  <2>2. p - m = p + m * (-1)
    BY <1>3
  <2>3. (p + m * (-1)) % m = p % m
    BY <1>3, DivisionOfSum
  <2> QED
    BY <2>1, <2>2, <2>3 DEF m
<1>8. Bit(v % m, c - 1) = Bit(v, c - 1)
  BY <1>1, BitOfCut DEF m, Mod
<1> QED
  BY <1>5, <1>6, <1>7, <1>8 DEF Low, Bit, m, q

---------------------------------------------------------------------------
(* Steps *)

\* Storing an operand keeps the rest of its cell.
LEMMA Stored ==
  ASSUME NEW s \in Sizes, NEW cell \in Word, NEW v \in 0..(Mod(s) - 1)
  PROVE  LET x == (cell - Low(cell, s)) + v
         IN x \in Word /\ Low(x, s) = v /\ x - v = cell - Low(cell, s)
<1> DEFINE m == Mod(s)  q == cell \div m  l == cell % m  x == (cell - l) + v
<1>1. m \in Nat /\ m > 0 /\ Mod(4) \in Nat /\ v \in Int /\ 0 <= v /\ v < m
  BY Widths
<1>2. PICK k \in Nat : Mod(4) = m * k
  BY Widths
<1>3. cell \in Int /\ 0 <= cell /\ cell < m * k
  BY <1>2, Words
<1> HIDE DEF m
<1>4. q \in Int /\ l \in Int /\ 0 <= l /\ l < m /\ cell = m * q + l
  BY <1>1, <1>3, Division
<1> HIDE DEF q, l
<1>5. x \in Int /\ x = m * q + v /\ x - v = cell - l
  BY <1>1, <1>3, <1>4
<1>6. 0 <= q /\ q + 1 <= k
  BY <1>1, <1>2, <1>3, <1>4
<1>7. 0 <= m * q /\ m * q + m <= m * k
  <2>1. m * (q + 1) <= m * k /\ m * (q + 1) = m * q + m
    BY <1>1, <1>2, <1>4, <1>6
  <2> QED
    BY <1>1, <1>4, <1>6, <2>1
<1> DEFINE t == m * q  u == m * k
<1>8. t \in Int /\ u \in Int /\ x = t + v /\ 0 <= t /\ t + m <= u
  BY <1>1, <1>2, <1>4, <1>5, <1>7
<1> HIDE DEF t, u, x
<1>9. 0 <= x /\ x < u
  BY <1>1, <1>5, <1>8
<1>10. x \in Word
  BY <1>1, <1>2, <1>5, <1>9 DEF Word, u
<1>11. x % m = v
  BY <1>1, <1>4, <1>5, DivisionUnique
<1> QED
  BY <1>5, <1>10, <1>11 DEF x, l, m, Low

\* A flag that is written has the value of its condition.
LEMMA FlagWritten ==
  ASSUME NEW fl, NEW on, NEW f \in DOMAIN on
  PROVE  f \in Update(fl, on) <=> on[f]
  BY DEF Update

\* A property says nothing after an instruction it is not about.
LEMMA About ==
  /\ last'.op \notin {"sal", "shl", "sar", "shr"} => ShiftsExact'
  /\ last'.op \notin {"rol", "ror"} => RotatesExact'
  /\ last'.op # "rcl" => RclNarrowExact'
  /\ last'.op # "shrd" => ShrdExact'
  /\ last'.op \notin {"btc", "btr", "bts"} => BitsExact'
  BY DEF Ran, ShiftsExact, RotatesExact, RclNarrowExact, ShrdExact, BitsExact

\* A handler that writes its cell: what the next state's history shows.
LEMMA CellResultStep ==
  ASSUME ShiftsTypeOK, NEW op \in Instructions, NEW v \in Word, NEW on, CellResult(op, v, on)
  PROVE  /\ ShiftsTypeOK' /\ last'.op = op
         /\ dst'.cell = v /\ dst'.size = dst.size /\ dst'.kind = dst.kind
         /\ src' = src /\ count' = count
         /\ last'.cell = dst.cell /\ last'.fl = eflags /\ eflags' = Update(eflags, on)
         /\ W' = W /\ Old' = P
<1>1. /\ dst' = [dst EXCEPT !.cell = v] /\ eflags' = Update(eflags, on)
      /\ last' = [op |-> op, cell |-> dst.cell, fl |-> eflags]
      /\ src' = src /\ count' = count
  BY DEF CellResult
<1>2. /\ dst' \in [kind : {"reg", "mem"}, size : Sizes, cell : Word]
      /\ dst'.cell = v /\ dst'.size = dst.size /\ dst'.kind = dst.kind
  BY <1>1 DEF ShiftsTypeOK
<1>3. last'.op = op /\ last'.cell = dst.cell /\ last'.fl = eflags
  BY <1>1
<1>4. ShiftsTypeOK'
  BY <1>1, <1>2, <1>3 DEF ShiftsTypeOK
<1> QED
  BY <1>1, <1>2, <1>3, <1>4 DEF W, Old, P

\* The same for a handler that writes its operand.
LEMMA ResultStep ==
  ASSUME ShiftsTypeOK, NEW op \in Instructions, NEW v \in 0..(Mod(dst.size) - 1), NEW on,
         Result(op, v, on)
  PROVE  /\ ShiftsTypeOK' /\ last'.op = op
         /\ dst'.size = dst.size /\ dst'.kind = dst.kind /\ src' = src /\ count' = count
         /\ last'.fl = eflags /\ eflags' = Update(eflags, on)
         /\ W' = W /\ Old' = P /\ P' = v /\ dst'.cell - P' = last'.cell - Old'
<1> DEFINE x == (dst.cell - Low(dst.cell, dst.size)) + v
<1>1. dst.size \in Sizes /\ dst.cell \in Word
  BY DEF ShiftsTypeOK
<1>2. x \in Word /\ Low(x, dst.size) = v /\ x - v = dst.cell - Low(dst.cell, dst.size)
  BY <1>1, Stored
<1>3. CellResult(op, x, on)
  BY DEF Result
<1> HIDE DEF x
<1>4. /\ ShiftsTypeOK' /\ last'.op = op
      /\ dst'.cell = x /\ dst'.size = dst.size /\ dst'.kind = dst.kind
      /\ src' = src /\ count' = count
      /\ last'.cell = dst.cell /\ last'.fl = eflags /\ eflags' = Update(eflags, on)
      /\ W' = W /\ Old' = P
  BY <1>2, <1>3, CellResultStep
<1>5. P' = v
  BY <1>2, <1>4 DEF P
<1> QED
  BY <1>2, <1>4, <1>5 DEF P

\* The operand and the counts of the state an instruction finds.
LEMMA Found ==
  ASSUME ShiftsTypeOK
  PROVE  /\ dst.size \in Sizes /\ dst.cell \in Word /\ src \in Word
         /\ W \in Nat /\ W > 0 /\ W <= Width[4] /\ W = Width[dst.size]
         /\ P \in 0..(Mod(dst.size) - 1) /\ Cut(src) \in 0..(Mod(dst.size) - 1)
         /\ count % W \in 0..(W - 1) /\ count % (W + 1) \in 0..W
         /\ count % Width[4] \in 0..(Width[4] - 1)
<1>1. dst.size \in Sizes /\ dst.cell \in Word /\ src \in Word /\ count \in Nat
  BY DEF ShiftsTypeOK
<1>2. W \in Nat /\ W > 0 /\ W <= Width[4] /\ Width[4] \in Nat /\ W = Width[dst.size]
  BY <1>1, Widths DEF W
<1>3. P \in 0..(Mod(dst.size) - 1) /\ Cut(src) \in 0..(Mod(dst.size) - 1)
  BY <1>1, LowWord, Words DEF P, Cut
<1>4. /\ count % W \in 0..(W - 1) /\ count % (W + 1) \in 0..W
      /\ count % Width[4] \in 0..(Width[4] - 1)
  <2>1. ASSUME NEW m \in Nat, m > 0 PROVE count % m \in 0..(m - 1)
    <3>1. count % m \in Int /\ 0 <= count % m /\ count % m < m
      BY <1>1, <2>1, Division
    <3> QED
      BY <2>1, <3>1
  <2>2. W + 1 \in Nat /\ W + 1 > 0 /\ (W + 1) - 1 = W /\ Width[4] > 0
    BY <1>2
  <2> QED
    BY <1>2, <2>1, <2>2
<1> QED
  BY <1>1, <1>2, <1>3, <1>4

\* An instruction that does nothing.
LEMMA NopStep ==
  ASSUME ShiftsTypeOK, NEW op \in Instructions, Nop(op)
  PROVE  /\ ShiftsTypeOK' /\ last'.op = op
         /\ dst'.size = dst.size /\ dst'.kind = dst.kind /\ src' = src /\ count' = count
         /\ W' = W /\ Old' = P /\ P' = P
<1>1. Result(op, P, <<>>) /\ P \in 0..(Mod(dst.size) - 1)
  BY Found DEF Nop, P
<1> QED
  BY <1>1, ResultStep

\* A shift whose result and carry are the reference's.
LEMMA ShiftStep ==
  ASSUME ShiftsTypeOK, NEW op \in {"sal", "shl", "sar", "shr"}, NEW r, NEW cf \in BOOLEAN, NEW of,
         "CF" \notin DOMAIN of, Shift(op, r, cf, of),
         count % W > 0 =>
           /\ r \in 0..(Mod(dst.size) - 1)
           /\ r = IF op = "sar" THEN (Signed(P) \div 2 ^ (count % W)) % Mod(dst.size)
                  ELSE IF op = "shr" THEN P \div 2 ^ (count % W)
                  ELSE (P * 2 ^ (count % W)) % Mod(dst.size)
           /\ cf <=> Bit(P, IF op \in {"sar", "shr"} THEN (count % W) - 1 ELSE W - (count % W)) = 1
  PROVE  ShiftsTypeOK' /\ last'.op = op /\ ShiftsExact'
<1>1. op \in Instructions
  BY DEF Instructions
<1>2. CASE count % W = 0 \/ dst.kind # "reg"
  <2>1. Nop(op)
    BY <1>2 DEF Shift
  <2>2. /\ ShiftsTypeOK' /\ last'.op = op /\ dst'.kind = dst.kind /\ count' = count /\ W' = W
    BY <1>1, <2>1, NopStep
  <2>3. ~((count % W)' > 0) \/ dst'.kind # "reg"
    BY <1>2, <2>2
  <2> QED
    BY <2>2, <2>3 DEF ShiftsExact
<1>3. CASE ~(count % W = 0 \/ dst.kind # "reg")
  <2> DEFINE on == [f \in {"CF", "ZF", "PF", "SF"} |-> IF f = "CF" THEN cf ELSE ResultFlags(r)[f]]
             all == [f \in DOMAIN on \cup DOMAIN of |-> IF f \in DOMAIN of THEN of[f] ELSE on[f]]
  <2>1. Result(op, r, all)
    BY <1>3 DEF Shift
  <2>2. "CF" \in DOMAIN all /\ all["CF"] = cf
    OBVIOUS
  <2> HIDE DEF on, all
  <2>3. count % W > 0
    BY <1>3, Found
  <2>4. /\ ShiftsTypeOK' /\ last'.op = op
        /\ dst'.size = dst.size /\ count' = count /\ eflags' = Update(eflags, all)
        /\ W' = W /\ Old' = P /\ P' = r /\ dst'.cell - P' = last'.cell - Old'
    BY <1>1, <2>1, <2>3, ResultStep
  <2>5. "CF" \in eflags' <=> cf
    BY <2>2, <2>4, FlagWritten
  <2>6. (count % W)' = count % W /\ Mod(dst.size)' = Mod(dst.size)
    BY <2>4
  <2>7. Signed(Old)' = Signed(P)
    BY <2>4 DEF Signed
  <2>8. P' = CASE op \in {"sar"} -> (Signed(P) \div 2 ^ (count % W)) % Mod(dst.size)
               [] op \in {"shr"} -> P \div 2 ^ (count % W)
               [] OTHER -> (P * 2 ^ (count % W)) % Mod(dst.size)
    BY <2>3, <2>4
  <2>9. ("CF" \in eflags')
          = (Bit(P, IF op \in {"sar", "shr"} THEN (count % W) - 1 ELSE W - (count % W)) = 1)
    BY <2>3, <2>5
  <2>10. ShiftsExact'
    BY <2>4, <2>6, <2>7, <2>8, <2>9 DEF ShiftsExact, Ran
  <2> QED
    BY <2>4, <2>10
<1> QED
  BY <1>2, <1>3

\* sal_i and shl_i.
LEMMA LeftStep ==
  ASSUME ShiftsTypeOK, NEW op \in {"sal", "shl"}, Left(op)
  PROVE  ShiftsTypeOK' /\ last'.op = op /\ ShiftsExact'
<1> DEFINE c  == count % W
           r  == Cut(Shl(P, c))
           cf == Shr(P, W - c) % 2 = 1
           of == IF c = 1 THEN [OF |-> sign(r, W) # cf] ELSE <<>>
<1>1. Shift(op, r, cf, of)
  BY DEF Left
<1>2. "CF" \notin DOMAIN of
  OBVIOUS
<1>3. ASSUME c > 0
      PROVE  /\ r \in 0..(Mod(dst.size) - 1)
             /\ r = (P * 2 ^ c) % Mod(dst.size)
             /\ cf <=> Bit(P, W - c) = 1
  <2>1. c \in 1..(Width[dst.size] - 1) /\ W = Width[dst.size]
    BY <1>3, Found
  <2> HIDE DEF c
  <2>2. /\ Low(Shl(P, c), dst.size) \in 0..(Mod(dst.size) - 1)
        /\ Low(Shl(P, c), dst.size) = (P * 2 ^ c) % Mod(dst.size)
        /\ Shr(P, W - c) % 2 = Bit(P, W - c)
    BY <2>1, Found, LeftExact
  <2> QED
    BY <2>2 DEF Cut
<1>4. cf \in BOOLEAN /\ op \in {"sal", "shl", "sar", "shr"} /\ op # "sar" /\ op # "shr"
  OBVIOUS
<1> HIDE DEF r, cf, of
<1>5. count % W > 0 =>
           /\ r \in 0..(Mod(dst.size) - 1)
           /\ r = IF op = "sar" THEN (Signed(P) \div 2 ^ (count % W)) % Mod(dst.size)
                  ELSE IF op = "shr" THEN P \div 2 ^ (count % W)
                  ELSE (P * 2 ^ (count % W)) % Mod(dst.size)
           /\ cf <=> Bit(P, IF op \in {"sar", "shr"} THEN (count % W) - 1 ELSE W - (count % W)) = 1
  BY <1>3, <1>4
<1> QED
  BY <1>1, <1>2, <1>4, <1>5, ShiftStep

\* shr_i.
LEMMA ShrStep ==
  ASSUME ShiftsTypeOK, shr_i
  PROVE  ShiftsTypeOK' /\ last'.op = "shr" /\ ShiftsExact'
<1> DEFINE c  == count % W
           r  == Shr(P, c)
           cf == Shr(P, c - 1) % 2 = 1
           of == [OF |-> c = 1 /\ sign(r, W)]
<1>1. Shift("shr", r, cf, of)
  BY DEF shr_i
<1>2. "CF" \notin DOMAIN of /\ cf \in BOOLEAN
  OBVIOUS
<1>3. ASSUME c > 0
      PROVE  r \in 0..(Mod(dst.size) - 1) /\ r = P \div 2 ^ c /\ (cf <=> Bit(P, c - 1) = 1)
  <2>1. c \in 1..(Width[dst.size] - 1)
    BY <1>3, Found
  <2> HIDE DEF c
  <2> QED
    BY <2>1, Found, ShrExact
<1> HIDE DEF r, cf, of
<1>4. count % W > 0 =>
           /\ r \in 0..(Mod(dst.size) - 1)
           /\ r = IF "shr" = "sar" THEN (Signed(P) \div 2 ^ (count % W)) % Mod(dst.size)
                  ELSE IF "shr" = "shr" THEN P \div 2 ^ (count % W)
                  ELSE (P * 2 ^ (count % W)) % Mod(dst.size)
           /\ cf <=> Bit(P, IF "shr" \in {"sar", "shr"} THEN (count % W) - 1 ELSE W - (count % W)) = 1
  BY <1>3
<1> QED
  BY <1>1, <1>2, <1>4, ShiftStep

\* sar_i.
LEMMA SarStep ==
  ASSUME ShiftsTypeOK, sar_i
  PROVE  ShiftsTypeOK' /\ last'.op = "sar" /\ ShiftsExact'
<1> DEFINE c  == count % W
           signed == IF sign(P, W) THEN P - Mod(dst.size) ELSE P
           r  == Cut((signed \div 2 ^ c) + Mod(dst.size))
           cf == (signed \div 2 ^ (IF c = 0 THEN 0 ELSE c - 1)) % 2 = 1
           of == IF c = 1 THEN [OF |-> FALSE] ELSE <<>>
<1>1. Shift("sar", r, cf, of)
  BY DEF sar_i
<1>2. "CF" \notin DOMAIN of /\ cf \in BOOLEAN
  OBVIOUS
<1>3. signed = Signed(P)
  BY Found, SignIsUpperHalf DEF Signed
<1>4. signed \in Int /\ (signed = P \/ signed = P - Mod(dst.size))
  BY Found, Widths
<1>5. ASSUME c > 0
      PROVE  /\ r \in 0..(Mod(dst.size) - 1) /\ r = (signed \div 2 ^ c) % Mod(dst.size)
             /\ cf <=> Bit(P, c - 1) = 1
  <2>1. c \in 1..(Width[dst.size] - 1) /\ c # 0
    BY <1>5, Found
  <2> HIDE DEF c, signed
  <2>2. /\ Low((signed \div 2 ^ c) + Mod(dst.size), dst.size) \in 0..(Mod(dst.size) - 1)
        /\ Low((signed \div 2 ^ c) + Mod(dst.size), dst.size) = (signed \div 2 ^ c) % Mod(dst.size)
        /\ (signed \div 2 ^ (c - 1)) % 2 = Bit(P, c - 1)
    BY <1>4, <2>1, Found, SarExact
  <2> QED
    BY <2>1, <2>2 DEF Cut
<1> HIDE DEF r, cf, of, signed
<1>6. count % W > 0 =>
           /\ r \in 0..(Mod(dst.size) - 1)
           /\ r = IF "sar" = "sar" THEN (Signed(P) \div 2 ^ (count % W)) % Mod(dst.size)
                  ELSE IF "sar" = "shr" THEN P \div 2 ^ (count % W)
                  ELSE (P * 2 ^ (count % W)) % Mod(dst.size)
           /\ cf <=> Bit(P, IF "sar" \in {"sar", "shr"} THEN (count % W) - 1 ELSE W - (count % W)) = 1
  BY <1>3, <1>5
<1> QED
  BY <1>1, <1>2, <1>6, ShiftStep

\* A position moved around an operand of w bits.
LEMMA Around ==
  ASSUME NEW w \in Nat, w > 0, NEW i \in 0..(w - 1), NEW c \in 0..(w - 1)
  PROVE  (i + c) % w = IF i + c < w THEN i + c ELSE (i + c) - w
<1>1. CASE i + c < w
  BY <1>1, DivisionOfSmall
<1>2. CASE ~(i + c < w)
  <2>1. i + c = w * 1 + ((i + c) - w) /\ 0 <= (i + c) - w /\ (i + c) - w < w
    BY <1>2
  <2>2. i + c \in Int /\ (i + c) - w \in Int
    OBVIOUS
  <2> QED
    BY <1>2, <2>1, <2>2, DivisionUnique
<1> QED
  BY <1>1, <1>2

\* rol_i.
LEMMA RolStep ==
  ASSUME ShiftsTypeOK, rol_i
  PROVE  ShiftsTypeOK' /\ last'.op = "rol" /\ RotatesExact'
<1> DEFINE c == count % W
           scaped == Cut(Shr(P, W - c))
           r == Cut(BitOr(Shl(P, c), scaped))
           on == [CF |-> scaped % 2 = 1]
<1>1. Result("rol", r, on) /\ "rol" \in Instructions
  BY DEF rol_i, Instructions
<1>2. W \in Nat /\ W > 0 /\ c \in 0..(W - 1)
  BY Found
<1> HIDE DEF c
<1>3. /\ r \in 0..(Mod(dst.size) - 1)
      /\ \A j \in 0..(W - 1) : Bit(r, j) = IF j < c THEN Bit(P, j + (W - c)) ELSE Bit(P, j - c)
      /\ c > 0 => scaped % 2 = Bit(r, 0)
  BY <1>2, Found, RolBits DEF Cut, W
<1>4. "CF" \in DOMAIN on /\ (on["CF"] <=> scaped % 2 = 1)
  OBVIOUS
<1> HIDE DEF r, scaped, on
<1>5. /\ ShiftsTypeOK' /\ last'.op = "rol" /\ count' = count /\ eflags' = Update(eflags, on)
      /\ W' = W /\ Old' = P /\ P' = r /\ dst'.cell - P' = last'.cell - Old'
  BY <1>1, <1>3, ResultStep
<1>6. (count % W)' = c
  BY <1>5 DEF c
<1>7. ASSUME NEW i \in 0..(W - 1) PROVE Bit(r, (i + c) % W) = Bit(P, i)
  <2>1. (i + c) % W = IF i + c < W THEN i + c ELSE (i + c) - W
    BY <1>2, Around
  <2>2. CASE i + c < W
    <3>1. (i + c) % W \in 0..(W - 1) /\ ~((i + c) % W < c) /\ ((i + c) % W) - c = i
      BY <1>2, <2>1, <2>2
    <3> QED
      BY <1>3, <3>1
  <2>3. CASE ~(i + c < W)
    <3>1. (i + c) % W \in 0..(W - 1) /\ (i + c) % W < c /\ ((i + c) % W) + (W - c) = i
      BY <1>2, <2>1, <2>3
    <3> QED
      BY <1>3, <3>1
  <2> QED
    BY <2>2, <2>3
<1>8. "CF" \in eflags' <=> scaped % 2 = 1
  BY <1>4, <1>5, FlagWritten
<1>9. c > 0 => ("CF" \in eflags') = (Bit(r, 0) = 1)
  BY <1>3, <1>8
<1>10. RotatesExact'
  BY <1>5, <1>6, <1>7, <1>9 DEF RotatesExact, Ran
<1> QED
  BY <1>5, <1>10

\* ror_i.
LEMMA RorStep ==
  ASSUME ShiftsTypeOK, ror_i
  PROVE  ShiftsTypeOK' /\ last'.op = "ror" /\ RotatesExact'
<1> DEFINE c == count % W
           scaped == Cut(Shl(P, W - c))
           r == Cut(BitOr(Shr(P, c), scaped))
           on == [CF |-> Shr(scaped, W - c) % 2 = 1]
<1>1. Result("ror", r, on) /\ "ror" \in Instructions
  BY DEF ror_i, Instructions
<1>2. W \in Nat /\ W > 0 /\ c \in 0..(W - 1)
  BY Found
<1> HIDE DEF c
<1>3. /\ r \in 0..(Mod(dst.size) - 1)
      /\ \A j \in 0..(W - 1) : Bit(r, j) = IF j + c < W THEN Bit(P, j + c) ELSE Bit(P, (j + c) - W)
  BY <1>2, Found, RorBits DEF Cut, W
<1> HIDE DEF r, on
<1>4. /\ ShiftsTypeOK' /\ last'.op = "ror" /\ count' = count
      /\ W' = W /\ Old' = P /\ P' = r /\ dst'.cell - P' = last'.cell - Old'
  BY <1>1, <1>3, ResultStep
<1>5. (count % W)' = c
  BY <1>4 DEF c
<1>6. ASSUME NEW i \in 0..(W - 1) PROVE Bit(r, i) = Bit(P, (i + c) % W)
  <2>1. (i + c) % W = IF i + c < W THEN i + c ELSE (i + c) - W
    BY <1>2, Around
  <2> QED
    BY <1>3, <2>1
<1>7. RotatesExact'
  BY <1>4, <1>5, <1>6 DEF RotatesExact, Ran
<1> QED
  BY <1>4, <1>7

\* Whatever the count, << and >> of C give a word.
LEMMA ShiftedWord ==
  ASSUME NEW v \in Word, NEW n \in Int
  PROVE  Shr(v, n) \in Word /\ Shl(v, n) \in Word
<1> DEFINE z == Width[4]  k == n % z
<1>1. z \in Nat /\ z > 0
  BY Words
<1>2. k \in 0..(z - 1)
  <2> HIDE DEF z
  <2>1. k \in Int /\ 0 <= k /\ k < z
    BY <1>1, Division
  <2> HIDE DEF k
  <2> QED
    BY <1>1, <2>1
<1> QED
  BY <1>2, ShrWord, ShlWord

\* An operand put together from words, as the rotates through the carry do.
LEMMA Rotated ==
  ASSUME NEW s \in Sizes, NEW x \in Word, NEW a \in Word, NEW b \in Word
  PROVE  Low(BitOr(x, BitOr(Low(a, s), Low(b, s))), s) \in 0..(Mod(s) - 1)
<1>1. Low(a, s) \in Word /\ Low(b, s) \in Word
  BY LowWord, Words
<1>2. BitOr(Low(a, s), Low(b, s)) \in Word
  BY <1>1, OrWord
<1>3. BitOr(x, BitOr(Low(a, s), Low(b, s))) \in Int
  BY <1>2, OrWord
<1> QED
  BY <1>3, LowWord

\* The carry, a word of one bit.
LEMMA CarryBit ==
  ASSUME ShiftsTypeOK
  PROVE  Carry \in {0, 1} /\ Carry \in Word /\ P \in Word
<1>1. 1 < Mod(4) /\ Mod(4) \in Nat
  BY Widths, Words
<1> QED
  BY <1>1, Found, Operand DEF Carry, Word

\* The flag that rcl_i takes from the bits that leave the operand.
LEMMA RclCarry ==
  ASSUME NEW s \in Sizes, s # 4, NEW p \in 0..(Mod(s) - 1), NEW c \in 1..Width[s]
  PROVE  /\ Bit(p, Width[s] - c) = 1 => Shr(p, Width[s] - c) # 0
         /\ c = 1 /\ Bit(p, Width[s] - c) = 0 => Shr(p, Width[s] - c) = 0
<1> DEFINE n == Width[s] - c  m == 2 ^ n  q == p \div m
<1>1. /\ n \in 0..Width[4] /\ n < Width[4] /\ n \in Nat
      /\ Width[s] \in Nat /\ Width[s] <= Width[4] /\ Width[4] \in Nat
  BY Widths
<1>2. Shr(p, n) = q /\ Bit(p, n) = q % 2
  BY <1>1, OperandShr DEF Bit
<1>3. p \in Nat /\ p < 2 ^ Width[s]
  BY Widths DEF Mod
<1>4. m \in Nat /\ m > 0 /\ (c = 1 => 2 ^ Width[s] = m * 2)
  <2>1. 0 \in 0..Width[4] /\ 1 \in 0..Width[4] /\ (c = 1 => n + 1 = Width[s])
    BY <1>1
  <2>2. 2 ^ n \in Nat \ {0} /\ (n + 1 <= Width[4] => 2 ^ (n + 1) = 2 ^ n * 2 ^ 1)
    BY <1>1, <2>1, PowersAssumption
  <2>3. 2 ^ 1 = 2
    BY SMT
  <2> QED
    BY <1>1, <2>1, <2>2, <2>3
<1> HIDE DEF m, n
<1>5. q \in Int /\ p = m * q + (p % m) /\ p % m \in Int /\ 0 <= p % m /\ p % m < m
  BY <1>3, <1>4, Division
<1> HIDE DEF q
<1>6. q % 2 = 1 => q # 0
  BY <1>5
<1>7. ASSUME c = 1, q % 2 = 0
      PROVE  q = 0
  <2>1. q < 2
    BY <1>3, <1>4, <1>5, <1>7
  <2>2. q > -1
    BY <1>3, <1>4, <1>5
  <2> QED
    BY <1>5, <1>7, <2>1, <2>2
<1> QED
  BY <1>2, <1>6, <1>7 DEF n

\* rcl_i.
LEMMA RclStep ==
  ASSUME ShiftsTypeOK, rcl_i
  PROVE  ShiftsTypeOK' /\ last'.op = "rcl" /\ RclNarrowExact'
<1> DEFINE c == count % (W + 1)
           scaped == BitOr(Cut(Shr(P, W + 1 - c)), Cut(Shl(Carry, c - 1)))
           r == Cut(BitOr(Shl(P, c), scaped))
           on == [CF |-> Shr(P, W - c) # 0]
<1>1. Result("rcl", r, on) /\ "rcl" \in Instructions
  BY DEF rcl_i, Instructions
<1>2. /\ W \in Nat /\ W > 0 /\ c \in 0..W /\ dst.size \in Sizes
      /\ Carry \in {0, 1} /\ Carry \in Word /\ P \in Word /\ P \in 0..(Mod(dst.size) - 1)
  BY Found, CarryBit
<1> HIDE DEF c
<1>3. r \in 0..(Mod(dst.size) - 1)
  <2>1. c \in Int /\ c - 1 \in Int /\ W + 1 - c \in Int
    BY <1>2
  <2>2. Shl(P, c) \in Word /\ Shr(P, W + 1 - c) \in Word /\ Shl(Carry, c - 1) \in Word
    BY <1>2, <2>1, ShiftedWord
  <2> QED
    BY <1>2, <2>2, Rotated DEF Cut
<1>4. dst.size # 4 =>
        \A j \in 0..(W - 1) : Bit(r, j) = IF j >= c THEN Bit(P, j - c)
                                          ELSE IF j = c - 1 THEN Carry ELSE Bit(P, (j - c) + (W + 1))
  BY <1>2, RclBits DEF Cut, W
<1>5. "CF" \in DOMAIN on /\ (on["CF"] <=> Shr(P, W - c) # 0)
  OBVIOUS
<1> HIDE DEF r, on
<1>6. /\ ShiftsTypeOK' /\ last'.op = "rcl" /\ dst'.size = dst.size /\ count' = count
      /\ last'.fl = eflags /\ W' = W /\ Old' = P /\ P' = r /\ eflags' = Update(eflags, on)
  BY <1>1, <1>3, ResultStep
<1>7. "CF" \in eflags' <=> Shr(P, W - c) # 0
  BY <1>6, <1>5, FlagWritten
<1>8. dst.size # 4 /\ c > 0 =>
         /\ Bit(P, W - c) = 1 => "CF" \in eflags'
         /\ c = 1 /\ Bit(P, W - c) = 0 => "CF" \notin eflags'
  BY <1>2, <1>7, RclCarry DEF W
<1>9. (count % (W + 1))' = c
  BY <1>6 DEF c
<1>10. OldCarry' = Carry
  BY <1>6 DEF OldCarry, Carry, test_Flag
<1>11. ASSUME dst.size # 4, NEW i \in 0..(W - 1)
      PROVE  Bit(r, i) = LET k == (i - c) % (W + 1) IN IF k = W THEN Carry ELSE Bit(P, k)
  <2> DEFINE k == (i - c) % (W + 1)
  <2>1. Bit(r, i) = IF i >= c THEN Bit(P, i - c)
                    ELSE IF i = c - 1 THEN Carry ELSE Bit(P, (i - c) + (W + 1))
    BY <1>4, <1>11
  <2>2. CASE i >= c
    <3>1. i - c \in Int /\ 0 <= i - c /\ i - c < W + 1 /\ W + 1 \in Nat /\ i - c # W
      BY <1>2, <2>2
    <3>2. k = i - c
      BY <3>1, DivisionOfSmall
    <3> QED
      BY <2>1, <2>2, <3>1, <3>2
  <2>3. CASE ~(i >= c)
    <3>1. /\ i - c \in Int /\ W + 1 \in Nat /\ W + 1 > 0 /\ (i - c) + (W + 1) \in Int
          /\ i - c = (W + 1) * (-1) + ((i - c) + (W + 1))
          /\ 0 <= (i - c) + (W + 1) /\ (i - c) + (W + 1) < W + 1
      BY <1>2, <2>3
    <3>2. k = (i - c) + (W + 1)
      BY <3>1, DivisionUnique
    <3>3. k = W <=> i = c - 1
      BY <1>2, <3>2
    <3> QED
      BY <2>1, <2>3, <3>2, <3>3
  <2> QED
    BY <2>2, <2>3
<1>12. dst.size # 4 => \A i \in 0..(W - 1) : Bit(r, i) = ThroughCarry(i, count % (W + 1))'
  BY <1>6, <1>9, <1>10, <1>11 DEF ThroughCarry
<1>13. RclNarrowExact'
  BY <1>2, <1>6, <1>9, <1>12, <1>8 DEF RclNarrowExact, Ran
<1> QED
  BY <1>6, <1>13

\* rcr_i writes an operand.
LEMMA RcrStep ==
  ASSUME ShiftsTypeOK, rcr_i
  PROVE  ShiftsTypeOK' /\ last'.op = "rcr"
<1> DEFINE c == count % (W + 1)
           scaped == BitOr(Cut(Shl(P, W + 1 - c)), Cut(Shl(Carry, c)))
           r == Cut(BitOr(Shr(P, c), scaped))
           on == [CF |-> Shr(P, c - 1) % 2 = 1]
<1>1. Result("rcr", r, on) /\ "rcr" \in Instructions
  BY DEF rcr_i, Instructions
<1>2. W \in Nat /\ c \in 0..W /\ dst.size \in Sizes /\ Carry \in Word /\ P \in Word
  BY Found, CarryBit
<1> HIDE DEF c
<1>3. c \in Int /\ W + 1 - c \in Int
  BY <1>2
<1>4. Shr(P, c) \in Word /\ Shl(P, W + 1 - c) \in Word /\ Shl(Carry, c) \in Word
  BY <1>2, <1>3, ShiftedWord
<1>5. r \in 0..(Mod(dst.size) - 1)
  BY <1>2, <1>4, Rotated DEF Cut
<1> HIDE DEF r, on
<1> QED
  BY <1>1, <1>5, ResultStep

\* shrd_i.
LEMMA ShrdStep ==
  ASSUME ShiftsTypeOK, shrd_i
  PROVE  ShiftsTypeOK' /\ last'.op = "shrd" /\ ShrdExact'
<1> DEFINE a == count % Width[4]
           q == Cut(src)
           m == Mod(dst.size)
           r == Cut(BitOr(Shr(P, a), Cut(Shl(q, W - a))))
           res == IF dst.size = 4 THEN r ELSE q
           on == [CF |-> Shr(P, a - 1) % 2 = 1, SF |-> sign(res, W),
                  ZF |-> zero(res), PF |-> parity(res)]
<1>1. /\ (a = 0 \/ a >= W) => Nop("shrd")
      /\ ~(a = 0 \/ a >= W) => Result("shrd", r, on)
      /\ "shrd" \in Instructions
  BY DEF shrd_i, Instructions
<1>2. /\ W \in Nat /\ W > 0 /\ a \in Nat /\ dst.size \in Sizes /\ W = Width[dst.size]
      /\ P \in 0..(m - 1) /\ q \in 0..(m - 1)
  BY Found, Words
<1>3. m \in Nat /\ m > 0
  BY <1>2, Widths
<1>4. CASE a = 0 \/ a >= W
  <2>1. /\ ShiftsTypeOK' /\ last'.op = "shrd" /\ dst'.size = dst.size /\ src' = src /\ count' = count
        /\ W' = W /\ Old' = P /\ P' = P
    BY <1>1, <1>4, NopStep
  <2>2. ASSUME a = 0 PROVE P = ((q * m + P) \div 2 ^ a) % m
    <3> HIDE DEF a, q, m
    <3>1. 2 ^ 0 = 1
      OBVIOUS
    <3> DEFINE x == q * m + P
    <3>2. x \in Int /\ q \in Int /\ P \in Int /\ x = m * q + P /\ 0 <= P /\ P < m
      BY <1>2, <1>3
    <3> HIDE DEF x
    <3>3. x \div 1 = x
      BY <3>2
    <3>4. x % m = P
      BY <1>3, <3>2, DivisionUnique
    <3> QED
      BY <2>2, <3>1, <3>3, <3>4 DEF x
  <2>3. (count % Width[4])' = a /\ Cut(src)' = q /\ Mod(dst.size)' = m
    BY <2>1 DEF Cut
  <2>4. a < W => a = 0
    BY <1>2, <1>4
  <2> HIDE DEF a, q, m
  <2>5. ShrdExact'
    BY <2>1, <2>2, <2>3, <2>4 DEF ShrdExact
  <2> QED
    BY <2>1, <2>5
<1>5. CASE ~(a = 0 \/ a >= W)
  <2>1. a \in 1..(Width[dst.size] - 1)
    BY <1>2, <1>5
  <2> HIDE DEF a
  <2>2. r \in 0..(m - 1) /\ r = ((q * m + P) \div 2 ^ a) % m
    BY <1>2, <2>1, ShrdBits DEF Cut, W
  <2> HIDE DEF r, on
  <2>3. /\ ShiftsTypeOK' /\ last'.op = "shrd" /\ dst'.size = dst.size /\ src' = src /\ count' = count
        /\ W' = W /\ Old' = P /\ P' = r
    BY <1>1, <1>5, <2>2, ResultStep
  <2>4. (count % Width[4])' = a /\ Cut(src)' = q /\ Mod(dst.size)' = m
    BY <2>3 DEF Cut, a
  <2> HIDE DEF q, m
  <2>5. ShrdExact'
    BY <2>2, <2>3, <2>4 DEF ShrdExact
  <2> QED
    BY <2>3, <2>5
<1> QED
  BY <1>4, <1>5

\* The flag of the bit tests is clear only if the bit is: no bit from the one
\* that is tested upwards was set.
LEMMA TestedClear ==
  ASSUME ShiftsTypeOK, NEW b \in 1..Width[4], NEW fl, "CF" \notin Update(fl, Tested(dst.cell, b))
  PROVE  Bit(dst.cell, count % b) = 0
<1> DEFINE n == count % b
<1>1. dst.cell \in Word /\ count \in Nat /\ b \in Nat /\ b > 0 /\ b <= Width[4] /\ Width[4] \in Nat
  BY Words DEF ShiftsTypeOK
<1>2. n \in 0..(Width[4] - 1) /\ n \in Int
  <2>1. n \in Int /\ 0 <= n /\ n < b
    BY <1>1, Division
  <2> HIDE DEF n
  <2> QED
    BY <1>1, <2>1
<1>3. "CF" \in DOMAIN Tested(dst.cell, b) /\ (Tested(dst.cell, b)["CF"] <=> Shr(dst.cell, n) # 0)
  BY DEF Tested
<1>4. Shr(dst.cell, n) = 0
  BY <1>3, FlagWritten
<1> HIDE DEF n
<1>5. Shr(dst.cell, n) = dst.cell \div 2 ^ n
  <2>1. n % Width[4] = n
    BY <1>2, HostCount
  <2> QED
    BY <1>1, <1>2, <2>1, ShrWord
<1>6. 0 % 2 = 0
  OBVIOUS
<1> QED
  BY <1>4, <1>5, <1>6 DEF Bit, n

\* A bit instruction whose result has the reference's bits.
LEMMA BitsStep ==
  ASSUME ShiftsTypeOK, NEW op \in {"btc", "btr", "bts"}, NEW b \in 1..Width[4], NEW v \in Word,
         b = IF dst.kind = "reg" THEN W ELSE Width[4],
         CellResult(op, v, Tested(dst.cell, b)),
         \A i \in 0..(Width[4] - 1) : i # count % b => Bit(v, i) = Bit(dst.cell, i),
         Bit(v, count % b) = CASE op \in {"btc"} -> 1 - Bit(dst.cell, count % b)
                               [] op \in {"btr"} -> 0
                               [] OTHER -> 1
  PROVE  ShiftsTypeOK' /\ last'.op = op /\ BitsExact'
<1>1. op \in Instructions
  BY DEF Instructions
<1>2. /\ ShiftsTypeOK' /\ last'.op = op /\ dst'.cell = v /\ dst'.kind = dst.kind /\ count' = count
      /\ last'.cell = dst.cell /\ eflags' = Update(eflags, Tested(dst.cell, b)) /\ W' = W
  BY <1>1, CellResultStep
<1>3. "CF" \notin eflags' => Bit(dst.cell, count % b) = 0
  BY <1>2, TestedClear
<1>4. BitsExact'
  BY <1>2, <1>3 DEF BitsExact, Ran
<1> QED
  BY <1>2, <1>4

\* A bit number of a word, and the word of that bit.
LEMMA MaskBits ==
  ASSUME ShiftsTypeOK, NEW b \in 1..Width[4]
  PROVE  /\ count % b \in 0..(Width[4] - 1) /\ Mask(b) \in Word
         /\ \A i \in 0..(Width[4] - 1) : Bit(Mask(b), i) = IF i = count % b THEN 1 ELSE 0
<1>1. count \in Nat /\ b \in Nat /\ b > 0 /\ b <= Width[4] /\ Width[4] \in Nat
  BY Words DEF ShiftsTypeOK
<1>2. count % b \in 0..(Width[4] - 1)
  <2> DEFINE n == count % b
  <2>1. n \in Int /\ 0 <= n /\ n < b
    BY <1>1, Division
  <2> HIDE DEF n
  <2> QED
    BY <1>1, <2>1 DEF n
<1> QED
  BY <1>2, BitOfPower DEF Mask

\* btc_i.
LEMMA BtcStep ==
  ASSUME ShiftsTypeOK, btc_i
  PROVE  ShiftsTypeOK' /\ last'.op = "btc" /\ BitsExact'
<1> DEFINE n == count % W  m == Mask(W)  v == BitXor(dst.cell, m)
<1>1. dst.kind = "reg" /\ CellResult("btc", v, Tested(dst.cell, W))
  BY DEF btc_i
<1>2. W \in 1..Width[4] /\ dst.cell \in Word /\ Width[4] \in Nat
  BY Found, Words
<1>3. n \in 0..(Width[4] - 1) /\ m \in Word
      /\ \A i \in 0..(Width[4] - 1) : Bit(m, i) = IF i = n THEN 1 ELSE 0
  BY <1>2, MaskBits
<1>4. \A i \in 0..(Width[4] - 1) : i \in 0..Width[4]
  BY <1>2
<1>5. \A i \in 0..(Width[4] - 1) : Bit(dst.cell, i) \in {0, 1}
  BY <1>2, <1>4, BitValue, Words
<1> HIDE DEF m, n
<1>6. v \in Word /\ \A i \in 0..(Width[4] - 1) :
                      Bit(v, i) = IF Bit(dst.cell, i) = Bit(m, i) THEN 0 ELSE 1
  BY <1>2, <1>3, XorWord
<1> HIDE DEF v
<1>7. \A i \in 0..(Width[4] - 1) : i # n => Bit(v, i) = Bit(dst.cell, i)
  BY <1>3, <1>5, <1>6
<1>8. Bit(v, n) = 1 - Bit(dst.cell, n)
  BY <1>3, <1>5, <1>6
<1> QED
  BY <1>1, <1>2, <1>6, <1>7, <1>8, BitsStep DEF n

\* btr_i.
LEMMA BtrStep ==
  ASSUME ShiftsTypeOK, btr_i
  PROVE  ShiftsTypeOK' /\ last'.op = "btr" /\ BitsExact'
<1> DEFINE n == count % W  m == Mask(W)  x == Mod(4) - 1 - m  v == BitAnd(dst.cell, x)
<1>1. dst.kind = "reg" /\ CellResult("btr", v, Tested(dst.cell, W))
  BY DEF btr_i
<1>2. W \in 1..Width[4] /\ dst.cell \in Word /\ Width[4] \in Nat
  BY Found, Words
<1>3. n \in 0..(Width[4] - 1) /\ m \in Word
      /\ \A i \in 0..(Width[4] - 1) : Bit(m, i) = IF i = n THEN 1 ELSE 0
  BY <1>2, MaskBits
<1>4. \A i \in 0..(Width[4] - 1) : i \in 0..Width[4]
  BY <1>2
<1>5. \A i \in 0..(Width[4] - 1) : Bit(dst.cell, i) \in {0, 1}
  BY <1>2, <1>4, BitValue, Words
<1> HIDE DEF m, n
<1>6. x \in Word /\ \A i \in 0..(Width[4] - 1) : Bit(x, i) = IF i = n THEN 0 ELSE 1
  <2>1. \A i \in 0..(Width[4] - 1) : x \in Word /\ Bit(x, i) = 1 - Bit(m, i)
    BY <1>3, BitOfComplement
  <2> HIDE DEF x
  <2>2. x \in Word
    BY <1>3, <2>1
  <2> QED
    BY <1>3, <2>1, <2>2
<1> HIDE DEF x
<1>7. v \in Word /\ \A i \in 0..(Width[4] - 1) :
                      Bit(v, i) = IF Bit(dst.cell, i) = 1 /\ Bit(x, i) = 1 THEN 1 ELSE 0
  BY <1>2, <1>6, AndWord
<1> HIDE DEF v
<1>8. \A i \in 0..(Width[4] - 1) : i # n => Bit(v, i) = Bit(dst.cell, i)
  BY <1>5, <1>6, <1>7
<1>9. Bit(v, n) = 0
  BY <1>3, <1>6, <1>7
<1> QED
  BY <1>1, <1>2, <1>7, <1>8, <1>9, BitsStep DEF n

\* bts_i.
LEMMA BtsStep ==
  ASSUME ShiftsTypeOK, bts_i
  PROVE  ShiftsTypeOK' /\ last'.op = "bts" /\ BitsExact'
<1> DEFINE b == IF dst.kind = "reg" THEN W ELSE Width[4]
           n == count % b  m == Mask(b)  v == BitOr(dst.cell, m)
<1>1. CellResult("bts", v, Tested(dst.cell, b))
  BY DEF bts_i
<1>2. b \in 1..Width[4] /\ dst.cell \in Word /\ Width[4] \in Nat
  <2>1. Width[4] \in Nat /\ Width[4] > 0
    BY Words
  <2>2. W \in Nat /\ W > 0 /\ W <= Width[4] /\ dst.cell \in Word
    BY Found
  <2> QED
    BY <2>1, <2>2
<1>3. b = IF dst.kind = "reg" THEN W ELSE Width[4]
  OBVIOUS
<1> HIDE DEF b
<1>4. n \in 0..(Width[4] - 1) /\ m \in Word
      /\ \A i \in 0..(Width[4] - 1) : Bit(m, i) = IF i = n THEN 1 ELSE 0
  BY <1>2, MaskBits
<1>5. \A i \in 0..(Width[4] - 1) : i \in 0..Width[4]
  BY <1>2
<1>6. \A i \in 0..(Width[4] - 1) : Bit(dst.cell, i) \in {0, 1}
  BY <1>2, <1>5, BitValue, Words
<1> HIDE DEF m, n
<1>7. v \in Word /\ \A i \in 0..(Width[4] - 1) :
                      Bit(v, i) = IF Bit(dst.cell, i) = 1 \/ Bit(m, i) = 1 THEN 1 ELSE 0
  BY <1>2, <1>4, OrWord
<1> HIDE DEF v
<1>8. \A i \in 0..(Width[4] - 1) : i # n => Bit(v, i) = Bit(dst.cell, i)
  BY <1>4, <1>6, <1>7
<1>9. Bit(v, n) = 1
  BY <1>4, <1>7
<1> QED
  BY <1>1, <1>2, <1>3, <1>7, <1>8, <1>9, BitsStep DEF n

\* bt_i, bsf_i and bsr_i leave the cell alone.
LEMMA SameCellStep ==
  ASSUME ShiftsTypeOK, bt_i \/ bsf_i \/ bsr_i
  PROVE  ShiftsTypeOK' /\ last'.op \in {"bt", "bsf", "bsr"}
<1>1. {"bt", "bsf", "bsr"} \subseteq Instructions /\ dst.cell \in Word
  BY DEF Instructions, ShiftsTypeOK
<1>2. CASE bt_i
  <2>1. PICK b \in {Width[1], W},
             v \in IF dst.kind = "mem" /\ dst.size = 2 THEN {P, Low(P, 1)} ELSE {dst.cell} :
               CellResult("bt", dst.cell, Tested(v, b))
    BY <1>2 DEF bt_i
  <2> QED
    BY <1>1, <2>1, CellResultStep
<1>3. CASE bsf_i
  BY <1>1, <1>3, CellResultStep DEF bsf_i
<1>4. CASE bsr_i
  BY <1>1, <1>4, CellResultStep DEF bsr_i
<1> QED
  BY <1>2, <1>3, <1>4

---------------------------------------------------------------------------
(* The invariant *)

LEMMA ShiftsInvInitially == Init => ShiftsInv
<1> SUFFICES ASSUME Init PROVE ShiftsInv
  OBVIOUS
<1>1. ShiftsTypeOK
  BY ShiftsAssumption, Words DEF Init, ShiftsTypeOK
<1>2. last.op = "none"
  BY DEF Init, Unexecuted
<1> QED
  BY <1>1, <1>2
     DEF ShiftsInv, Ran, ShiftsExact, RotatesExact, RclNarrowExact, ShrdExact, BitsExact

LEMMA ShiftsInvInductive == ShiftsInv /\ [Next]_vars => ShiftsInv'
<1> SUFFICES ASSUME ShiftsInv, [Next]_vars PROVE ShiftsInv'
  OBVIOUS
<1> USE DEF ShiftsInv
<1>1. CASE sal_i \/ shl_i \/ sar_i \/ shr_i
  <2>1. ShiftsTypeOK' /\ last'.op \in {"sal", "shl", "sar", "shr"} /\ ShiftsExact'
    BY <1>1, LeftStep, SarStep, ShrStep DEF sal_i, shl_i
  <2> QED
    BY <2>1, About
<1>2. CASE shrd_i
  <2>1. ShiftsTypeOK' /\ last'.op = "shrd" /\ ShrdExact'
    BY <1>2, ShrdStep
  <2> QED
    BY <2>1, About
<1>3. CASE rol_i \/ ror_i
  <2>1. ShiftsTypeOK' /\ last'.op \in {"rol", "ror"} /\ RotatesExact'
    BY <1>3, RolStep, RorStep
  <2> QED
    BY <2>1, About
<1>4. CASE rcl_i
  <2>1. ShiftsTypeOK' /\ last'.op = "rcl" /\ RclNarrowExact'
    BY <1>4, RclStep
  <2> QED
    BY <2>1, About
<1>5. CASE rcr_i
  <2>1. ShiftsTypeOK' /\ last'.op = "rcr"
    BY <1>5, RcrStep
  <2> QED
    BY <2>1, About
<1>6. CASE shld_i
  <2>1. ShiftsTypeOK' /\ last'.op = "shld"
    BY <1>6, NopStep DEF shld_i, Instructions
  <2> QED
    BY <2>1, About
<1>7. CASE bt_i \/ bsf_i \/ bsr_i
  <2>1. ShiftsTypeOK' /\ last'.op \in {"bt", "bsf", "bsr"}
    BY <1>7, SameCellStep
  <2> QED
    BY <2>1, About
<1>8. CASE btc_i \/ btr_i \/ bts_i
  <2>1. ShiftsTypeOK' /\ last'.op \in {"btc", "btr", "bts"} /\ BitsExact'
    BY <1>8, BtcStep, BtrStep, BtsStep
  <2> QED
    BY <2>1, About
<1>9. CASE Finished \/ UNCHANGED vars
  <2>1. UNCHANGED <<dst, src, count, eflags, last>>
    BY <1>9 DEF Finished, vars
  <2>2. ShiftsTypeOK' /\ W' = W /\ P' = P /\ Old' = Old
    BY <2>1 DEF ShiftsTypeOK, W, P, Old
  <2>3. ShiftsExact'
    BY <2>1, <2>2 DEF ShiftsExact, Ran, Signed
  <2>4. RotatesExact'
    BY <2>1, <2>2 DEF RotatesExact, Ran
  <2>5. RclNarrowExact'
    BY <2>1, <2>2 DEF RclNarrowExact, Ran, ThroughCarry, OldCarry
  <2>6. ShrdExact'
    BY <2>1, <2>2 DEF ShrdExact, Ran, Cut
  <2>7. BitsExact'
    BY <2>1, <2>2 DEF BitsExact, Ran
  <2> QED
    BY <2>2, <2>3, <2>4, <2>5, <2>6, <2>7
<1> QED
  BY <1>1, <1>2, <1>3, <1>4, <1>5, <1>6, <1>7, <1>8, <1>9 DEF Next

LEMMA ShiftsInvariant == Spec => []ShiftsInv
  BY ShiftsInvInitially, ShiftsInvInductive, PTL DEF Spec

\* SAL, SHL, SHR and SAR multiply or divide a register of any width by a
\* power of two, with the last bit that left in CF, for every count.
THEOREM ShiftsMultiply == Spec => []ShiftsExact
<1>1. ShiftsInv => ShiftsExact
  BY DEF ShiftsInv
<1> QED
  BY <1>1, ShiftsInvariant, PTL

\* ROL and ROR lose no bit and move each by the count, for every width and
\* also where the C shifts of the handlers are by the whole width.
THEOREM RotatesMoveBits == Spec => []RotatesExact
<1>1. ShiftsInv => RotatesExact
  BY DEF ShiftsInv
<1> QED
  BY <1>1, ShiftsInvariant, PTL

\* RCL of an operand narrower than uint32_t leaves in it its own bits and the
\* old carry, rotated together, also for a count of zero, where the handler
\* shifts by -1.  The carry it leaves is the bit that left for a single rotate;
\* for a longer one it is set if that bit was, and also in other cases.
THEOREM RclMovesBits == Spec => []RclNarrowExact
<1>1. ShiftsInv => RclNarrowExact
  BY DEF ShiftsInv
<1> QED
  BY <1>1, ShiftsInvariant, PTL

\* SHRD, put together by the handler from two C shifts and an or, is the
\* division of the pair of source and destination.
THEOREM ShrdShiftsPair == Spec => []ShrdExact
<1>1. ShiftsInv => ShrdExact
  BY DEF ShiftsInv
<1> QED
  BY <1>1, ShiftsInvariant, PTL

\* BTC, BTR and BTS change the bit they name and no other of the whole cell,
\* and CF is clear only if that bit was.
THEOREM BitsChangeOne == Spec => []BitsExact
<1>1. ShiftsInv => BitsExact
  BY DEF ShiftsInv
<1> QED
  BY <1>1, ShiftsInvariant, PTL
=============================================================================
