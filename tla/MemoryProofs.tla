---------------------------- MODULE MemoryProofs ----------------------------
(***************************************************************************)
(* Facts about the accesses of Memory for every radix: a word that is      *)
(* written is read back, and a write leaves words elsewhere alone.         *)
(***************************************************************************)
EXTENDS Memory, TLAPS

\* Euclidean division by Radix, the step of every shift by eight bits.
LEMMA DivMod ==
  ASSUME NEW v \in Nat
  PROVE  /\ v \div Radix \in Nat
         /\ v % Radix \in Byte
         /\ v = Radix * (v \div Radix) + (v % Radix)
  BY RadixAssumption DEF Byte

\* Dividing by Radix divides a bound that is a multiple of Radix.
LEMMA DivBound ==
  ASSUME NEW v \in Nat, NEW K \in Nat, v < Radix * K
  PROVE  v \div Radix \in 0..(K - 1)
<1>1. v = Radix * (v \div Radix) + (v % Radix) /\ v \div Radix \in Nat /\ v % Radix \in Nat
  BY DivMod, RadixAssumption DEF Byte
<1>2. SUFFICES ASSUME v \div Radix >= K PROVE FALSE
  BY <1>1
<1>3. Radix * (v \div Radix) >= Radix * K
  BY <1>1, <1>2, RadixAssumption
<1> QED
  BY <1>1, <1>3, RadixAssumption

\* A digit on top of a number below K is a number below Radix * K.
LEMMA DigitOnTop ==
  ASSUME NEW K \in Nat, NEW b \in Byte, NEW w \in 0..(K - 1)
  PROVE  b + Radix * w \in 0..(Radix * K - 1)
<1>1. Radix * w + Radix = Radix * (w + 1)
  BY RadixAssumption
<1>2. Radix * (w + 1) <= Radix * K
  BY RadixAssumption
<1>3. Radix * w \in Nat
  BY RadixAssumption
<1> QED
  BY <1>1, <1>2, <1>3, RadixAssumption DEF Byte

\* The address space has at least 81 addresses.
LEMMA SpaceSize == N \in Nat /\ N >= 81 /\ Half \in Nat /\ Half >= 9
<1>1. Radix * Radix \in Nat /\ Radix * Radix >= 9
  BY RadixAssumption
<1>2. Radix * (Radix * Radix) \in Nat /\ Radix * (Radix * Radix) >= 27
  BY <1>1, RadixAssumption
<1>3. Radix * (Radix * (Radix * Radix)) \in Nat /\ Radix * (Radix * (Radix * Radix)) >= 81
  BY <1>2, RadixAssumption
<1> QED
  BY <1>1, <1>3 DEF N, Half

\* Half a word is a word.
LEMMA HalfOfWord == N = Half * Half /\ Half <= N
<1>1. N = Half * Half
  BY RadixAssumption DEF N, Half
<1>2. ASSUME NEW h \in Nat, h >= 9 PROVE h <= h * h
  BY <1>2
<1> QED
  BY <1>1, <1>2, SpaceSize

\* Addresses computed modulo the address space are addresses.
LEMMA ModAddr ==
  ASSUME NEW x \in Nat
  PROVE  x % N \in Addr /\ (x < N => x % N = x)
  BY SpaceSize DEF Addr

\* The four bytes of a word in range determine it.
LEMMA ByteSplit ==
  ASSUME NEW v \in Addr
  PROVE  /\ Byte0(v) \in Byte /\ Byte1(v) \in Byte /\ Byte2(v) \in Byte /\ Byte3(v) \in Byte
         /\ v = Byte0(v) + Radix * (Byte1(v) + Radix * (Byte2(v) + Radix * Byte3(v)))
<1> DEFINE q1 == v \div Radix
           q2 == q1 \div Radix
           q3 == q2 \div Radix
<1>1. v \in Nat /\ v < Radix * (Radix * (Radix * Radix))
  BY SpaceSize DEF Addr, N
<1>2. Radix * (Radix * Radix) \in Nat /\ Radix * Radix \in Nat
  BY RadixAssumption
<1>3. q1 \in Nat /\ q1 < Radix * (Radix * Radix)
  BY <1>1, <1>2, DivBound
<1>4. q2 \in Nat /\ q2 < Radix * Radix
  <2> HIDE DEF q1
  <2> QED BY <1>2, <1>3, DivBound
<1>5. q3 \in Nat /\ q3 < Radix
  <2> HIDE DEF q2
  <2> QED BY <1>4, DivBound, RadixAssumption
<1>6. v % Radix \in Byte /\ v = Radix * q1 + (v % Radix)
  BY <1>1, DivMod
<1>7. q1 % Radix \in Byte /\ q1 = Radix * q2 + (q1 % Radix)
  <2> HIDE DEF q1
  <2> QED BY <1>3, DivMod
<1>8. q2 % Radix \in Byte /\ q2 = Radix * q3 + (q2 % Radix)
  <2> HIDE DEF q2
  <2> QED BY <1>4, DivMod
<1>9. q3 % Radix \in Byte /\ q3 % Radix = q3
  <2> HIDE DEF q3
  <2> QED BY <1>5, RadixAssumption DEF Byte
<1>10. Byte0(v) = v % Radix /\ Byte1(v) = q1 % Radix /\ Byte2(v) = q2 % Radix /\ Byte3(v) = q3 % Radix
  BY DEF Byte0, Byte1, Byte2, Byte3
<1> HIDE DEF q1, q2, q3
<1>11. q2 = Byte2(v) + Radix * Byte3(v)
  <2>1. Byte3(v) = q3 /\ q2 = Radix * q3 + Byte2(v)
    BY <1>8, <1>9, <1>10
  <2>2. Byte2(v) \in Nat /\ Radix * q3 \in Nat
    BY <1>5, <1>8, <1>10, RadixAssumption DEF Byte
  <2> QED
    BY <2>1, <2>2
<1>12. q1 = Byte1(v) + Radix * q2
  BY <1>4, <1>7, <1>10, RadixAssumption DEF Byte
<1>13. v = Byte0(v) + Radix * q1
  BY <1>3, <1>6, <1>10, RadixAssumption DEF Byte
<1> QED
  BY <1>6, <1>7, <1>8, <1>9, <1>10, <1>11, <1>12, <1>13

\* The bytes of a word are at four different addresses.
LEMMA AtFacts ==
  ASSUME NEW a \in Addr
  PROVE  /\ At(a, 0) = a
         /\ At(a, 0) \in Addr /\ At(a, 1) \in Addr /\ At(a, 2) \in Addr /\ At(a, 3) \in Addr
         /\ At(a, 0) # At(a, 1) /\ At(a, 0) # At(a, 2) /\ At(a, 0) # At(a, 3)
         /\ At(a, 1) # At(a, 2) /\ At(a, 1) # At(a, 3) /\ At(a, 2) # At(a, 3)
<1>1. N \in Nat /\ N >= 81 /\ a \in Nat /\ a < N
  BY SpaceSize DEF Addr
<1>2. \A k \in 0..3 : At(a, k) = IF a + k < N THEN a + k ELSE a + k - N
  BY <1>1 DEF At
<1> QED
  BY <1>1, <1>2 DEF Addr

\* Writes keep memory a function from addresses to bytes.
LEMMA WriteType ==
  ASSUME NEW m \in [Addr -> Byte], NEW a \in Addr, NEW v \in Addr
  PROVE  write32(m, a, v) \in [Addr -> Byte] /\ write16(m, a, v) \in [Addr -> Byte]
  BY ByteSplit, AtFacts DEF write32, write16

\* Reads return words.
LEMMA ReadType ==
  ASSUME NEW m \in [Addr -> Byte], NEW a \in Addr
  PROVE  read32(m, a) \in Addr /\ read16(m, a) \in 0..(Half - 1)
<1> DEFINE b0 == m[At(a, 0)]  b1 == m[At(a, 1)]  b2 == m[At(a, 2)]  b3 == m[At(a, 3)]
<1>1. b0 \in Byte /\ b1 \in Byte /\ b2 \in Byte /\ b3 \in Byte
  BY AtFacts
<1> HIDE DEF b0, b1, b2, b3
<1>2. b3 \in 0..(Radix - 1) /\ b1 \in 0..(Radix - 1) /\ Radix \in Nat
  BY <1>1, RadixAssumption DEF Byte
<1>3. b2 + Radix * b3 \in 0..(Radix * Radix - 1) /\ b0 + Radix * b1 \in 0..(Radix * Radix - 1)
  BY <1>1, <1>2, DigitOnTop
<1>4. Radix * Radix \in Nat /\ Radix * (Radix * Radix) \in Nat
  BY RadixAssumption
<1>5. b1 + Radix * (b2 + Radix * b3) \in 0..(Radix * (Radix * Radix) - 1)
  BY <1>1, <1>3, <1>4, DigitOnTop
<1>6. b0 + Radix * (b1 + Radix * (b2 + Radix * b3)) \in 0..(Radix * (Radix * (Radix * Radix)) - 1)
  BY <1>1, <1>5, <1>4, DigitOnTop
<1> QED
  BY <1>3, <1>6 DEF b0, b1, b2, b3, read32, read16, Addr, N, Half

\* A word written with write32 is what read32 returns.
LEMMA ReadBack ==
  ASSUME NEW m \in [Addr -> Byte], NEW a \in Addr, NEW v \in Addr
  PROVE  read32(write32(m, a, v), a) = v
<1> DEFINE w == write32(m, a, v)
<1>1. w[At(a, 0)] = Byte0(v) /\ w[At(a, 1)] = Byte1(v) /\ w[At(a, 2)] = Byte2(v) /\ w[At(a, 3)] = Byte3(v)
  BY AtFacts DEF write32
<1> HIDE DEF w
<1>2. read32(w, a) = v
  BY <1>1, ByteSplit DEF read32
<1> QED
  BY <1>2 DEF w

\* Memories that agree on the bytes of a word agree on the word.
LEMMA SameBytes ==
  ASSUME NEW m, NEW w, NEW b, \A x \in Range4(b) : w[x] = m[x]
  PROVE  read32(w, b) = read32(m, b)
<1>1. At(b, 0) \in Range4(b) /\ At(b, 1) \in Range4(b) /\ At(b, 2) \in Range4(b) /\ At(b, 3) \in Range4(b)
  BY DEF Range4
<1> QED
  BY <1>1 DEF read32

\* A write leaves the words it does not overlap alone.
LEMMA ReadElsewhere ==
  ASSUME NEW m \in [Addr -> Byte], NEW a \in Addr, NEW b \in Addr, NEW v \in Addr,
         Range4(a) \cap Range4(b) = {}
  PROVE  read32(write32(m, a, v), b) = read32(m, b)
<1>1. \A x \in Range4(b) : x \in Addr /\ x \notin Range4(a)
  BY AtFacts DEF Range4
<1>2. \A x \in Addr : x \notin Range4(a) => write32(m, a, v)[x] = m[x]
  BY AtFacts DEF Range4, write32
<1> QED
  BY <1>1, <1>2, SameBytes

\* The same for the two bytes write16 touches.
LEMMA ReadElsewhere16 ==
  ASSUME NEW m \in [Addr -> Byte], NEW a \in Addr, NEW b \in Addr, NEW v \in Addr,
         At(a, 0) \notin Range4(b), At(a, 1) \notin Range4(b)
  PROVE  read32(write16(m, a, v), b) = read32(m, b)
<1>1. \A x \in Range4(b) : x \in Addr /\ x # At(a, 0) /\ x # At(a, 1)
  BY AtFacts DEF Range4
<1>2. \A x \in Addr : x # At(a, 0) /\ x # At(a, 1) => write16(m, a, v)[x] = m[x]
  BY AtFacts DEF write16
<1> QED
  BY <1>1, <1>2, SameBytes

\* Away from the top of memory a word's bytes do not wrap.
LEMMA RangeNoWrap ==
  ASSUME NEW a \in Addr, a + 3 < N
  PROVE  Range4(a) = a..(a + 3) /\ At(a, 1) = a + 1
<1>1. N \in Nat /\ a \in Nat
  BY SpaceSize DEF Addr
<1>2. At(a, 0) = a /\ At(a, 1) = a + 1 /\ At(a, 2) = a + 2 /\ At(a, 3) = a + 3
  BY <1>1 DEF At
<1> QED
  BY <1>1, <1>2 DEF Range4
=============================================================================
