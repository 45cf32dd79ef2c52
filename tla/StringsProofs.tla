--------------------------- MODULE StringsProofs ---------------------------
(***************************************************************************)
(* REP MOVS is memmove, REP STOS is memset and a chain of CMPS is memcmp,  *)
(* at every element and for every radix, memory, pointer, count and        *)
(* direction.                                                              *)
(***************************************************************************)
EXTENDS Strings, MemoryProofs

\* Where a pointer that began at p stands after n bytes.
Moved(p, n) == IF df THEN p - n ELSE p + n

\* ecx counts the elements that are left; eip stays while there is one.
StringTypeOK ==
  /\ mem \in [Addr -> Byte] /\ eax \in Addr /\ esi \in Addr /\ edi \in Addr
  /\ insn \in Ops
  /\ start \in [mem : [Addr -> Byte], esi : Pointers, edi : Pointers, ecx : 1..MaxCount]
  /\ ecx \in 0..start.ecx /\ (~retired => ecx > 0)

\* The pointers of a repeated instruction are as far as ecx says.
PointersInv ==
  /\ insn.op \in {"rep movs", "rep stos"} => edi = Moved(start.edi, Done)
  /\ insn.op = "rep movs" => esi = Moved(start.esi, Done)

---------------------------------------------------------------------------

\* What the proofs need of the constants.
LEMMA Constants ==
  /\ MaxCount \in Nat /\ MaxCount > 0 /\ MaxCount < N
  /\ EsBase \in Addr /\ \A p \in Pointers : p \in Addr
<1>1. MaxCount \in 1..(N - 1) /\ EsBase \in Addr /\ Pointers \subseteq Addr
  BY StringsAssumption, Zenon
<1> QED
  BY <1>1, SpaceSize

\* The sizes the instructions have.
LEMMA Sizes ==
  ASSUME StringTypeOK
  PROVE  insn.size \in {1, 2, 4}
  BY StringsAssumption DEF StringTypeOK

\* How much is done and how much there is to do, in bytes.
LEMMA Progress ==
  ASSUME StringTypeOK
  PROVE  /\ Done \in Nat /\ Total \in Nat
         /\ Done % insn.size = 0
         /\ Done <= Total /\ Total <= 4 * MaxCount
         /\ ecx > 0 => Done + insn.size <= Total
         /\ start.ecx = ecx => Done = 0
<1>1. ecx \in Nat /\ start.ecx \in Nat /\ ecx <= start.ecx /\ start.ecx <= MaxCount /\ MaxCount \in Nat
  BY Constants DEF StringTypeOK
<1> DEFINE n == start.ecx  e == ecx  s == insn.size
<1>2. n \in Nat /\ e \in Nat /\ e <= n /\ n <= MaxCount /\ MaxCount \in Nat
  BY <1>1
<1>3. s \in {1, 2, 4}
  BY Sizes
<1> HIDE DEF n, e, s
<1>4. /\ (n - e) * s \in Nat /\ n * s \in Nat /\ ((n - e) * s) % s = 0
      /\ (n - e) * s <= n * s /\ n * s <= 4 * MaxCount
      /\ e > 0 => (n - e) * s + s <= n * s
      /\ n = e => (n - e) * s = 0
  <2>1. CASE s = 1
    BY <1>2, <2>1
  <2>2. CASE s = 2
    BY <1>2, <2>2
  <2>3. CASE s = 4
    BY <1>2, <2>3
  <2> QED
    BY <1>3, <2>1, <2>2, <2>3
<1> QED
  BY <1>4 DEF n, e, s, Done, Total

\* The blocks stay inside the address space.
LEMMA Inside ==
  ASSUME NEW p \in Pointers, NEW n \in Nat, n <= 4 * MaxCount
  PROVE  /\ p \in Nat /\ EsBase \in Nat /\ N \in Nat
         /\ 0 <= p - n /\ EsBase + p + n < N
         /\ MaxCount \in Nat /\ 8 * MaxCount < N
<1>1. p \in Addr /\ EsBase \in Addr /\ MaxCount \in Nat
  BY Constants
<1>2. 4 * MaxCount <= p /\ EsBase + p + 4 * MaxCount < N
  BY BlocksAssumption
<1> QED
  BY <1>1, <1>2, SpaceSize DEF Addr

\* Distances around the address space.
LEMMA AboveIs ==
  ASSUME NEW a \in Addr, NEW b \in Addr
  PROVE  Above(a, b) = IF b <= a THEN a - b ELSE a - b + N
  BY SpaceSize DEF Addr, Above

\* The bytes an element that does not wrap is stored to.
LEMMA ElementBytes ==
  ASSUME NEW a \in Addr, NEW s \in {1, 2, 4}, a + s <= N, NEW x \in Addr
  PROVE  /\ Above(x, a) < s <=> x \in a..(a + s - 1)
         /\ x \in a..(a + s - 1) => Above(x, a) = x - a
<1>1. N \in Nat /\ a \in Nat /\ x \in Nat /\ x < N /\ a < N
  BY SpaceSize DEF Addr
<1> QED
  BY <1>1, AboveIs
---------------------------------------------------------------------------
(* Types *)

\* Any integer reduced to the address space is an address.
LEMMA Wraps ==
  ASSUME NEW i \in Int
  PROVE  i % N \in Addr
  BY SpaceSize DEF Addr

\* A value whose low part is replaced stays in range.
LEMMA LowPart ==
  ASSUME NEW S \in Nat, S > 0, NEW K \in Nat, NEW v \in 0..(S * K - 1), NEW r \in 0..(S - 1)
  PROVE  (v - (v % S)) + r \in 0..(S * K - 1)
<1> DEFINE q == v \div S
<1>1. v \in Nat /\ v % S \in 0..(S - 1) /\ v = S * q + (v % S) /\ q \in Int
  OBVIOUS
<1> HIDE DEF q
<1>2. q \in Nat /\ q < K
  <2>1. S * q < S * K /\ S * q > -S
    BY <1>1
  <2> QED
    BY <2>1, <1>1
<1>3. S * (q + 1) <= S * K
  BY <1>2
<1>4. S * (q + 1) = S * q + S /\ S * q >= 0 /\ S * q \in Int
  BY <1>1, <1>2
<1> QED
  BY <1>1, <1>3, <1>4

\* The numbers of the three sizes divide that of words.
LEMMA SizeDivides ==
  ASSUME NEW s \in {1, 2, 4}
  PROVE  Size(s) \in Nat /\ Size(s) > 0 /\ Size(s) <= N
         /\ \E K \in Nat : N = Size(s) * K
<1>1. CASE s = 1
  <2>1. Radix * (Radix * Radix) \in Nat /\ Radix * (Radix * Radix) > 0
    BY RadixAssumption
  <2>2. Size(s) = Radix /\ N = Radix * (Radix * (Radix * Radix))
    BY <1>1 DEF Size, N
  <2>3. Radix <= Radix * (Radix * (Radix * Radix))
    BY <2>1, RadixAssumption
  <2> QED
    BY <2>1, <2>2, <2>3, RadixAssumption
<1>2. CASE s = 2
  BY <1>2, HalfOfWord, SpaceSize DEF Size
<1>3. CASE s = 4
  <2>1. Size(s) = N /\ N = N * 1
    BY <1>3, SpaceSize DEF Size
  <2> QED
    BY <2>1, SpaceSize
<1> QED
  BY <1>1, <1>2, <1>3

\* Bytes of a word by number.
LEMMA DigitType ==
  ASSUME NEW v \in Addr, NEW k
  PROVE  Digit(v, k) \in Byte
  BY ByteSplit DEF Digit

\* Storing an element keeps memory a function from addresses to bytes.
LEMMA StoreTypes ==
  ASSUME StringTypeOK, NEW s \in {1, 2, 4}
  PROVE  /\ MoveElement(s) => mem' \in [Addr -> Byte] /\ esi' \in Addr /\ edi' \in Addr /\ eax' \in Addr
         /\ StoreElement(s) => mem' \in [Addr -> Byte] /\ esi' \in Addr /\ edi' \in Addr /\ eax' \in Addr
<1>1. /\ mem \in [Addr -> Byte] /\ eax \in Addr /\ esi \in Addr /\ edi \in Addr
      /\ esi \in Int /\ edi \in Int /\ s \in Int
  BY SpaceSize DEF StringTypeOK, Addr
<1>2. Advance(esi, s) \in Addr /\ Advance(edi, s) \in Addr
  BY <1>1, Wraps DEF Advance
<1>3. \A x, a \in Addr : At(esi, Above(x, a)) \in Addr
  <2> TAKE x, a \in Addr
  <2>1. Above(x, a) \in Int
    BY SpaceSize DEF Above, Addr
  <2> QED
    BY <1>1, <2>1, Wraps DEF At
<1>4. ASSUME MoveElement(s) PROVE mem' \in [Addr -> Byte]
  BY <1>1, <1>3, <1>4 DEF MoveElement, Stored
<1>5. ASSUME StoreElement(s) PROVE mem' \in [Addr -> Byte]
  BY <1>1, <1>5, DigitType DEF StoreElement, Stored
<1> QED
  BY <1>1, <1>2, <1>4, <1>5 DEF MoveElement, StoreElement

\* The counter of a repeated instruction.
LEMMA RepeatTypes ==
  ASSUME StringTypeOK, ~retired, Repeat
  PROVE  ecx' = ecx - 1 /\ ecx' \in 0..start.ecx /\ (~retired' => ecx' > 0)
<1>1. ecx \in Nat /\ ecx > 0 /\ start.ecx \in Nat /\ ecx <= start.ecx /\ start.ecx <= MaxCount
  BY Constants DEF StringTypeOK
<1>2. (ecx - 1) % N = ecx - 1
  BY <1>1, SpaceSize, Constants
<1>3. ecx' = ecx - 1
  BY <1>2 DEF Repeat
<1>4. retired' <=> ecx' = 0
  BY DEF Repeat
<1> QED
  BY <1>1, <1>3, <1>4

\* The guests begin with words in the registers and bytes in memory.
LEMMA StringTypeInit == Init => StringTypeOK
<1> SUFFICES ASSUME Init PROVE StringTypeOK
  OBVIOUS
<1>1. mem \in [Addr -> Byte] /\ eax \in Addr /\ esi \in Addr /\ edi \in Addr
  BY StringsAssumption, Zenon DEF Init
<1> QED
  BY <1>1, Constants DEF Init, StringTypeOK

\* Every instruction leaves words and bytes.
LEMMA StringTypeStep == StringTypeOK /\ [Next]_vars => StringTypeOK'
<1> SUFFICES ASSUME StringTypeOK, [Next]_vars PROVE StringTypeOK'
  OBVIOUS
<1>1. insn.size \in {1, 2, 4}
  BY Sizes
<1>2. CASE movs_i
  BY <1>1, <1>2, StoreTypes DEF movs_i, At_eip, Once, StringTypeOK
<1>3. CASE stos_i
  BY <1>1, <1>3, StoreTypes DEF stos_i, At_eip, Once, StringTypeOK
<1>4. CASE rep_movs_i
  BY <1>1, <1>4, StoreTypes, RepeatTypes DEF rep_movs_i, At_eip, StringTypeOK
<1>5. CASE rep_stos_i
  BY <1>1, <1>5, StoreTypes, RepeatTypes DEF rep_stos_i, At_eip, StringTypeOK
<1>6. CASE lods_i
  <2> DEFINE S == Size(insn.size)
             r == read32(mem, esi) % S
  <2>1. PICK K \in Nat : N = S * K /\ S \in Nat /\ S > 0
    BY <1>1, SizeDivides
  <2>2. read32(mem, esi) \in Nat
    BY ReadType, SpaceSize DEF StringTypeOK, Addr
  <2>3. r \in 0..(S - 1)
    BY <2>1, <2>2
  <2>4. eax \in 0..(S * K - 1)
    BY <2>1 DEF StringTypeOK, Addr
  <2>5. eax' = (eax - (eax % S)) + r
    BY <1>6 DEF lods_i
  <2> HIDE DEF S, r
  <2>6. eax' \in Addr
    BY <2>1, <2>3, <2>4, <2>5, LowPart DEF Addr
  <2> QED
    BY <2>6, <1>6 DEF lods_i, At_eip, Once, StringTypeOK
<1>7. CASE cmps_i
  <2>1. Advance(esi, insn.size) \in Addr /\ Advance(edi, insn.size) \in Addr
    <3>1. esi \in Int /\ edi \in Int /\ insn.size \in Int
      BY <1>1, SpaceSize DEF StringTypeOK, Addr
    <3> QED
      BY <3>1, Wraps DEF Advance
  <2> QED
    BY <2>1, <1>7 DEF cmps_i, At_eip, StringTypeOK
<1>8. CASE scas_i
  BY <1>8 DEF scas_i, At_eip, Once, StringTypeOK
<1>9. CASE UNCHANGED vars
  BY <1>9 DEF vars, StringTypeOK
<1> QED
  BY <1>2, <1>3, <1>4, <1>5, <1>6, <1>7, <1>8, <1>9 DEF Next

---------------------------------------------------------------------------
(* One element of a repeated instruction *)

\* The facts about the progress of one element that the two proofs share:
\* the direction and the start stay, ecx is one less, so s more bytes are done.
LEMMA OneElement ==
  ASSUME StringTypeOK, ~retired, Repeat, UNCHANGED <<insn, start, eflags>>
  PROVE  /\ df' = df /\ Total' = Total /\ insn' = insn /\ start' = start
         /\ Done' = Done + insn.size
         /\ Done' <= Total /\ Done' \in Nat
<1>1. ecx' = ecx - 1 /\ ecx \in Nat /\ start.ecx \in Nat /\ ecx > 0
  BY RepeatTypes, Constants DEF StringTypeOK
<1>2. insn.size \in {1, 2, 4}
  BY Sizes
<1>3. Done' = Done + insn.size
  <2> DEFINE n == start.ecx  e == ecx  s == insn.size
  <2>1. Done' = (n - (e - 1)) * s /\ Done = (n - e) * s
    BY <1>1 DEF Done
  <2>2. n \in Nat /\ e \in Nat /\ s \in Nat
    BY <1>1, <1>2
  <2> HIDE DEF n, e, s
  <2>3. (n - (e - 1)) * s = (n - e) * s + s
    BY <2>2
  <2> QED
    BY <2>1, <2>3 DEF s
<1>4. Done \in Nat /\ Total \in Nat /\ Done + insn.size <= Total
  BY <1>1, Progress
<1> QED
  BY <1>1, <1>2, <1>3, <1>4 DEF df, Total

\* A pointer goes on by one element without leaving the address space.
LEMMA PointerGoesOn ==
  ASSUME NEW p \in Pointers, NEW n \in Nat, NEW s \in {1, 2, 4}, n + s <= 4 * MaxCount
  PROVE  /\ Moved(p, n) \in Addr /\ Moved(p, n) + s <= N /\ EsBase + Moved(p, n) + s <= N
         /\ EsBase + Moved(p, n) \in Addr
         /\ Advance(Moved(p, n), s) = Moved(p, n + s)
<1>1. /\ p \in Nat /\ EsBase \in Nat /\ N \in Nat
      /\ 0 <= p - (n + s) /\ EsBase + p + (n + s) < N
  BY Inside
<1>2. CASE df
  <2>1. Moved(p, n) = p - n /\ Moved(p, n + s) = p - (n + s) /\ Advance(Moved(p, n), s) = (p - n - s) % N
    BY <1>2 DEF Moved, Advance
  <2>2. (p - n - s) % N = p - n - s
    BY <1>1
  <2> QED
    BY <1>1, <2>1, <2>2 DEF Addr
<1>3. CASE ~df
  <2>1. Moved(p, n) = p + n /\ Moved(p, n + s) = p + (n + s) /\ Advance(Moved(p, n), s) = (p + n + s) % N
    BY <1>3 DEF Moved, Advance
  <2>2. (p + n + s) % N = p + n + s
    BY <1>1
  <2> QED
    BY <1>1, <2>1, <2>2 DEF Addr
<1> QED
  BY <1>2, <1>3

\* The pointers keep pace with ecx.
LEMMA PointersStep == StringTypeOK /\ PointersInv /\ [Next]_vars => PointersInv'
<1> SUFFICES ASSUME StringTypeOK, PointersInv, [Next]_vars PROVE PointersInv'
  OBVIOUS
<1>1. insn.size \in {1, 2, 4} /\ start.esi \in Pointers /\ start.edi \in Pointers
  BY Sizes DEF StringTypeOK
<1>2. Done \in Nat /\ Total <= 4 * MaxCount /\ Total \in Nat
  BY Progress
<1>3. ASSUME ~retired, Repeat, UNCHANGED <<insn, start, eflags>>
      PROVE  /\ insn' = insn /\ start' = start
             /\ Advance(Moved(start.esi, Done), insn.size) = Moved(start.esi, Done)'
             /\ Advance(Moved(start.edi, Done), insn.size) = Moved(start.edi, Done)'
  <2>1. /\ df' = df /\ insn' = insn /\ start' = start
        /\ Done' = Done + insn.size /\ Done' <= Total
    BY <1>3, OneElement
  <2>2. Done + insn.size <= 4 * MaxCount
    BY <1>1, <1>2, <2>1, Constants
  <2>3. /\ Advance(Moved(start.esi, Done), insn.size) = Moved(start.esi, Done + insn.size)
        /\ Advance(Moved(start.edi, Done), insn.size) = Moved(start.edi, Done + insn.size)
    BY <1>1, <1>2, <2>2, PointerGoesOn
  <2> QED
    BY <2>1, <2>3 DEF Moved
<1>4. CASE rep_movs_i
  <2>1. ~retired /\ Repeat /\ UNCHANGED <<insn, start, eflags>> /\ insn.op = "rep movs"
    BY <1>4 DEF rep_movs_i, At_eip, MoveElement
  <2>2. esi' = Advance(esi, insn.size) /\ edi' = Advance(edi, insn.size)
    BY <1>4 DEF rep_movs_i, MoveElement
  <2>3. esi = Moved(start.esi, Done) /\ edi = Moved(start.edi, Done)
    BY <2>1 DEF PointersInv
  <2> QED
    BY <1>3, <2>1, <2>2, <2>3 DEF PointersInv
<1>5. CASE rep_stos_i
  <2>1. ~retired /\ Repeat /\ UNCHANGED <<insn, start, eflags>> /\ insn.op = "rep stos"
    BY <1>5 DEF rep_stos_i, At_eip, StoreElement
  <2>2. edi' = Advance(edi, insn.size)
    BY <1>5 DEF rep_stos_i, StoreElement
  <2>3. edi = Moved(start.edi, Done)
    BY <2>1 DEF PointersInv
  <2> QED
    BY <1>3, <2>1, <2>2, <2>3 DEF PointersInv
<1>6. CASE movs_i \/ stos_i \/ lods_i \/ cmps_i \/ scas_i
  BY <1>6 DEF movs_i, stos_i, lods_i, cmps_i, scas_i, At_eip, PointersInv
<1>7. CASE UNCHANGED vars
  BY <1>7 DEF vars, PointersInv, Moved, df, Done
<1> QED
  BY <1>4, <1>5, <1>6, <1>7 DEF Next

---------------------------------------------------------------------------
(* REP MOVS *)

\* The element read at esi arrives at edi.
LEMMA MovedElement ==
  ASSUME StringTypeOK, NEW s \in {1, 2, 4}, edi + s <= N, esi + s <= N, MoveElement(s)
  PROVE  \A x \in Addr : mem'[x] = IF x \in edi..(edi + s - 1) THEN mem[esi + (x - edi)] ELSE mem[x]
<1> SUFFICES ASSUME NEW x \in Addr
             PROVE  mem'[x] = IF x \in edi..(edi + s - 1) THEN mem[esi + (x - edi)] ELSE mem[x]
  OBVIOUS
<1>1. esi \in Addr /\ edi \in Addr
  BY DEF StringTypeOK
<1>2. mem'[x] = IF Above(x, edi) < s THEN mem[At(esi, Above(x, edi))] ELSE mem[x]
  BY DEF MoveElement, Stored
<1>3. CASE x \in edi..(edi + s - 1)
  <2>1. Above(x, edi) < s /\ Above(x, edi) = x - edi
    BY <1>1, <1>3, ElementBytes
  <2>2. At(esi, x - edi) = esi + (x - edi)
    BY <1>1, <1>3, SpaceSize DEF At, Addr
  <2> QED
    BY <1>2, <1>3, <2>1, <2>2
<1>4. CASE ~(x \in edi..(edi + s - 1))
  BY <1>1, <1>2, <1>4, ElementBytes
<1> QED
  BY <1>3, <1>4

\* The block moved so far: n bytes, whose lowest ones were at s and are at d.
MovedBlock(m, s, d, n) ==
  \A x \in Addr : m[x] = IF x \in d..(d + n - 1) THEN start.mem[s + (x - d)] ELSE start.mem[x]

\* One more element of w bytes, at either end of the block; the bytes read
\* are still those of the start because the block does not reach them.
LEMMA BlockGrows ==
  ASSUME StringTypeOK, MoveElement(insn.size), edi + insn.size <= N, esi + insn.size <= N,
         NEW s \in Int, NEW d \in Int, NEW n \in Nat, MovedBlock(mem, s, d, n),
         esi - edi = s - d,
         \A y \in esi..(esi + insn.size - 1) : y \notin d..(d + n - 1),
         edi = d + n \/ edi + insn.size = d
  PROVE  /\ edi = d + n => MovedBlock(mem', s, d, n + insn.size)
         /\ edi # d + n => MovedBlock(mem', esi, edi, n + insn.size)
<1> DEFINE a == esi  b == edi  m == mem'  w == insn.size
<1>a. w \in {1, 2, 4} /\ a \in Int /\ b \in Int /\ 0 <= a /\ a + w <= N /\ 0 <= b /\ b + w <= N
  BY Sizes, SpaceSize DEF StringTypeOK, Addr
<1>b. \A x \in Addr : m[x] = IF x \in b..(b + w - 1) THEN mem[a + (x - b)] ELSE mem[x]
  BY Sizes, MovedElement
<1>c. /\ a - b = s - d /\ (b = d + n \/ b + w = d)
      /\ \A y \in a..(a + w - 1) : y \notin d..(d + n - 1)
  OBVIOUS
<1> DEFINE s2 == IF b = d + n THEN s ELSE a
           d2 == IF b = d + n THEN d ELSE b
<1> SUFFICES ASSUME NEW x \in Addr
             PROVE  m[x] = IF x \in d2..(d2 + (n + w) - 1) THEN start.mem[s2 + (x - d2)] ELSE start.mem[x]
  BY DEF MovedBlock
<1> HIDE DEF a, b, m, w
<1>1. s2 \in Int /\ d2 \in Int /\ s2 - d2 = s - d /\ x \in Int /\ N \in Nat
  BY <1>a, <1>c, SpaceSize DEF Addr
<1>2. x \in d2..(d2 + (n + w) - 1) <=> x \in d..(d + n - 1) \/ x \in b..(b + w - 1)
  BY <1>a, <1>c, <1>1
<1>3. CASE x \in b..(b + w - 1)
  <2>1. a + (x - b) \in a..(a + w - 1) /\ a + (x - b) \in Addr
    BY <1>a, <1>1, <1>3 DEF Addr
  <2>2. mem[a + (x - b)] = start.mem[a + (x - b)]
    BY <1>c, <2>1 DEF MovedBlock
  <2>3. a + (x - b) = s2 + (x - d2)
    BY <1>a, <1>c, <1>1
  <2> QED
    BY <1>b, <1>2, <1>3, <2>2, <2>3
<1>4. CASE x \notin b..(b + w - 1) /\ x \in d..(d + n - 1)
  <2>1. mem[x] = start.mem[s + (x - d)] /\ m[x] = mem[x]
    BY <1>b, <1>4 DEF MovedBlock
  <2>2. s + (x - d) = s2 + (x - d2)
    BY <1>a, <1>c, <1>1
  <2> QED
    BY <1>2, <1>4, <2>1, <2>2
<1>5. CASE x \notin b..(b + w - 1) /\ x \notin d..(d + n - 1)
  BY <1>b, <1>2, <1>5 DEF MovedBlock
<1> QED
  BY <1>3, <1>4, <1>5

\* MovesLikeMemmove in terms of the block.
LEMMA MemmoveBlock ==
  ASSUME PointersInv, insn.op = "rep movs", Safe
  PROVE  MovesLikeMemmove
           <=> MovedBlock(mem, Lowest(start.esi, Done), Lowest(start.edi, Done), Done)
  BY DEF MovesLikeMemmove, MovedBlock, PointersInv, Moved

\* REP MOVS moves one more element.
LEMMA MoveStep ==
  ASSUME StringTypeOK, PointersInv, PointersInv', MovesLikeMemmove, rep_movs_i
  PROVE  MovesLikeMemmove'
<1> SUFFICES ASSUME Safe' PROVE MovesLikeMemmove'
  BY DEF MovesLikeMemmove
<1> DEFINE w == insn.size  n == Done  p == start.esi  q == start.edi  T == Total
<1>1. ~retired /\ Repeat /\ UNCHANGED <<insn, start, eflags>> /\ insn.op = "rep movs" /\ MoveElement(w)
  BY DEF rep_movs_i, At_eip, MoveElement
<1>2. df' = df /\ insn' = insn /\ start' = start /\ Done' = n + w /\ Done' <= T /\ Total' = T
  BY <1>1, OneElement
<1>3. Safe
  BY <1>2 DEF Safe, Lowest, df
<1>4. MovedBlock(mem, Lowest(p, n), Lowest(q, n), n)
  BY <1>1, <1>3, MemmoveBlock
<1>5. w \in {1, 2, 4} /\ p \in Pointers /\ q \in Pointers
  BY Sizes DEF StringTypeOK
<1>6. n \in Nat /\ T \in Nat /\ n + w <= T /\ T <= 4 * MaxCount
  BY <1>2, Progress
<1>7. esi = Moved(p, n) /\ edi = Moved(q, n)
  BY <1>1 DEF PointersInv
<1>8. esi \in Addr /\ edi \in Addr /\ esi + w <= N /\ edi + w <= N
  BY <1>5, <1>6, <1>7, PointerGoesOn, Constants
<1>10. p \in Nat /\ q \in Nat /\ 0 <= esi /\ 0 <= edi /\ esi \in Int /\ edi \in Int
  BY <1>5, <1>8, Constants, SpaceSize DEF Addr
<1>11. df \in BOOLEAN
  BY DEF df, test_Flag
<1>12. \/ df /\ Lowest(p, n) = p - (n - w) /\ Lowest(q, n) = q - (n - w) /\ esi = p - n /\ edi = q - n
           /\ Lowest(p, T) = p - (T - w) /\ Lowest(q, T) = q - (T - w)
           /\ Lowest(p, n + w) = p - n /\ Lowest(q, n + w) = q - n
       \/ ~df /\ Lowest(p, n) = p /\ Lowest(q, n) = q /\ esi = p + n /\ edi = q + n
           /\ Lowest(p, T) = p /\ Lowest(q, T) = q
           /\ Lowest(p, n + w) = p /\ Lowest(q, n + w) = q
  <2>1. (n + w) - w = n
    BY <1>5, <1>6
  <2> QED
    BY <2>1, <1>7, <1>11 DEF Lowest, Moved
<1>13. LET s == Lowest(p, T)  d == Lowest(q, T) IN
         d + T <= s \/ s + T <= d \/ (df /\ d >= s) \/ (~df /\ d <= s)
  BY <1>3 DEF Safe
<1> DEFINE s == Lowest(p, n)  d == Lowest(q, n)
<1> HIDE DEF w, n, p, q, T
<1>14. s \in Int /\ d \in Int /\ esi - edi = s - d /\ (edi = d + n \/ edi + w = d)
  BY <1>5, <1>6, <1>10, <1>12
<1>15. \A y \in esi..(esi + w - 1) : y \notin d..(d + n - 1)
  BY <1>5, <1>6, <1>10, <1>12, <1>13
<1>16. /\ Lowest(p, n + w) = IF edi = d + n THEN s ELSE esi
       /\ Lowest(q, n + w) = IF edi = d + n THEN d ELSE edi
  BY <1>5, <1>6, <1>10, <1>12
<1>17. MovedBlock(mem', Lowest(p, n + w), Lowest(q, n + w), n + w)
  <2>1. MovedBlock(mem, s, d, n)
    BY <1>4
  <2> HIDE DEF s, d
  <2>2. /\ edi = d + n => MovedBlock(mem', s, d, n + w)
        /\ edi # d + n => MovedBlock(mem', esi, edi, n + w)
    BY <2>1, <1>1, <1>6, <1>8, <1>14, <1>15, BlockGrows DEF w
  <2> QED
    BY <1>16, <2>2
<1>18. MovedBlock(mem, Lowest(start.esi, Done), Lowest(start.edi, Done), Done)'
  BY <1>2, <1>17 DEF p, q, n, w, MovedBlock, Lowest
<1> QED
  BY <1>1, <1>2, <1>18 DEF MovesLikeMemmove, MovedBlock, PointersInv, Moved

---------------------------------------------------------------------------
(* REP STOS *)

\* The accumulator arrives at es:edi.
LEMMA StoredElement ==
  ASSUME StringTypeOK, NEW s \in {1, 2, 4}, EsBase + edi \in Addr, EsBase + edi + s <= N, StoreElement(s)
  PROVE  LET b == EsBase + edi IN
           \A x \in Addr : mem'[x] = IF x \in b..(b + s - 1) THEN Digit(eax, x - b) ELSE mem[x]
<1> DEFINE b == EsBase + edi
<1>1. At(EsBase, edi) = b
  BY SpaceSize DEF At, Addr
<1> SUFFICES ASSUME NEW x \in Addr
             PROVE  mem'[x] = IF x \in b..(b + s - 1) THEN Digit(eax, x - b) ELSE mem[x]
  OBVIOUS
<1>2. mem'[x] = IF Above(x, b) < s THEN Digit(eax, Above(x, b)) ELSE mem[x]
  BY <1>1 DEF StoreElement, Stored
<1> HIDE DEF b
<1>3. b \in Addr /\ b + s <= N
  BY DEF b
<1> QED
  BY <1>2, <1>3, ElementBytes

\* Offsets in a block of whole elements.
LEMMA Offsets ==
  ASSUME NEW s \in {1, 2, 4}, NEW k \in Int
  PROVE  /\ k \in 0..(s - 1) => k % s = k
         /\ \A n \in Nat : n % s = 0 => (k + n) % s = k % s
         /\ (k + s) % s = k % s
<1>1. CASE s = 1
  BY <1>1
<1>2. CASE s = 2
  BY <1>2
<1>3. CASE s = 4
  BY <1>3
<1> QED
  BY <1>1, <1>2, <1>3

\* REP STOS fills one more element.
LEMMA StoreStep ==
  ASSUME StringTypeOK, PointersInv, FillsLikeMemset, rep_stos_i
  PROVE  FillsLikeMemset'
<1> DEFINE w == insn.size  n == Done  q == start.edi  d == EsBase + Lowest(q, n)  b == EsBase + edi
           d2 == EsBase + Lowest(q, n + w)
<1>1. ~retired /\ Repeat /\ UNCHANGED <<insn, start, eflags, eax>> /\ insn.op = "rep stos" /\ StoreElement(w)
  BY DEF rep_stos_i, At_eip, StoreElement
<1>2. df' = df /\ insn' = insn /\ start' = start /\ Done' = n + w /\ Done' <= Total
  BY <1>1, OneElement
<1>3. w \in {1, 2, 4} /\ q \in Pointers
  BY Sizes DEF StringTypeOK
<1>4. n \in Nat /\ n % w = 0 /\ n + w <= 4 * MaxCount
  BY <1>2, Progress, Constants
<1>5. edi = Moved(q, n)
  BY <1>1 DEF PointersInv
<1>6. b \in Addr /\ b + w <= N
  BY <1>3, <1>4, <1>5, PointerGoesOn
<1>7. q \in Nat /\ EsBase \in Nat
  BY <1>3, Constants, SpaceSize DEF Addr
<1>8. \/ d = EsBase + q - (n - w) /\ b = EsBase + q - n /\ d2 = b
      \/ d = EsBase + q /\ b = d + n /\ d2 = d
  <2>1. (n + w) - w = n
    BY <1>3, <1>4
  <2>2. CASE df
    BY <2>1, <2>2, <1>3, <1>4, <1>5, <1>7 DEF Lowest, Moved
  <2>3. CASE ~df
    BY <2>3, <1>3, <1>4, <1>5, <1>7 DEF Lowest, Moved
  <2> QED
    BY <2>2, <2>3
<1>9. \A x \in Addr : mem'[x] = IF x \in b..(b + w - 1) THEN Digit(eax, x - b) ELSE mem[x]
  BY <1>1, <1>3, <1>6, StoredElement
<1>10. \A x \in Addr : mem[x] = IF x \in d..(d + n - 1) THEN Digit(eax, (x - d) % w) ELSE start.mem[x]
  BY <1>1 DEF FillsLikeMemset
<1>11. ASSUME NEW x \in Addr
       PROVE  mem'[x] = IF x \in d2..(d2 + (n + w) - 1) THEN Digit(eax, (x - d2) % w) ELSE start.mem[x]
  <2> HIDE DEF w, n, q, d, b, d2
  <2>1. x \in Int /\ b \in Int /\ d \in Int /\ d2 \in Int /\ ((b = d + n /\ d2 = d) \/ (b + w = d /\ d2 = b))
    <3>1. x \in Int /\ n \in Int /\ w \in Int
      BY <1>3, <1>4, SpaceSize DEF Addr
    <3> QED
      BY <3>1, <1>7, <1>8
  <2>2. x \in d2..(d2 + (n + w) - 1) <=> x \in d..(d + n - 1) \/ x \in b..(b + w - 1)
    BY <1>3, <1>4, <2>1
  <2>3. x \in b..(b + w - 1) => (x - d2) % w = x - b
    <3> HAVE x \in b..(b + w - 1)
    <3>1. x - b \in 0..(w - 1) /\ x - b \in Int
      BY <2>1, <1>3
    <3>2. (x - b) % w = x - b /\ ((x - b) + n) % w = (x - b) % w
      BY <3>1, <1>3, <1>4, Offsets
    <3>3. x - d2 = x - b \/ x - d2 = (x - b) + n
      BY <2>1, <1>4
    <3> QED
      BY <3>2, <3>3
  <2>4. (x - d2) % w = (x - d) % w
    <3>1. x - d2 = x - d \/ x - d2 = (x - d) + w
      BY <2>1, <1>3
    <3>2. ((x - d) + w) % w = (x - d) % w
      BY <2>1, <1>3, Offsets
    <3> QED
      BY <3>1, <3>2
  <2> QED
    BY <1>9, <1>10, <2>2, <2>3, <2>4
<1> QED
  BY <1>1, <1>2, <1>11 DEF FillsLikeMemset, Lowest, df

---------------------------------------------------------------------------
(* CMPS and SCAS *)

\* What the flags say of a comparison.
Says(a, b) == ("ZF" \in eflags <=> a = b) /\ ("CF" \in eflags <=> a < b)

\* The elements k bytes into the two blocks.
A(k) == Element(Moved(start.esi, k), insn.size)
B(k) == Element(Moved(start.edi, k), insn.size)

\* A chain of CMPS stands n bytes into both blocks.  All elements before the
\* last pair are equal; the last pair is, too, while the chain goes on.
ChainAt(n) ==
  /\ n % insn.size = 0 /\ n <= Total
  /\ esi = Moved(start.esi, n) /\ edi = Moved(start.edi, n)
  /\ ecx = start.ecx
  /\ \A i \in 0..(n - 2 * insn.size) : i % insn.size = 0 => A(i) = B(i)
  /\ n > 0 => Says(A(n - insn.size), B(n - insn.size))
  /\ n > 0 /\ ~retired => A(n - insn.size) = B(n - insn.size)
  /\ ~retired => n < Total
  /\ n > 0 /\ retired /\ n < Total => A(n - insn.size) # B(n - insn.size)

CompareInv ==
  /\ insn.op = "cmps" => \E n \in Nat : ChainAt(n)
  /\ insn.op = "scas" /\ retired => Says(eax % Size(insn.size), Element(edi, insn.size))

\* A flag that is written has the value of its condition, the others are kept.
LEMMA UpdateFlag ==
  ASSUME NEW fl, NEW on, NEW f
  PROVE  /\ f \in DOMAIN on => (f \in Update(fl, on) <=> on[f])
         /\ f \notin DOMAIN on => (f \in Update(fl, on) <=> f \in fl)
  BY DEF Update

\* The flags of CMPS and SCAS, when zero(res) holds exactly for equal operands.
LEMMA ComparedFlags ==
  ASSUME NEW fl, NEW a, NEW b, NEW res, NEW bits
  PROVE  LET u == Update(fl, Compared(a, b, res, bits)) IN
           /\ "ZF" \in u <=> res = 0
           /\ "CF" \in u <=> a < b
           /\ "DF" \in u <=> "DF" \in fl
<1> DEFINE on == Compared(a, b, res, bits)
<1>1. DOMAIN on = {"CF", "OF", "SF", "ZF", "AF", "PF"}
  BY DEF Compared
<1>2. "ZF" \in DOMAIN on /\ "CF" \in DOMAIN on /\ "DF" \notin DOMAIN on
  BY <1>1
<1>3. (on["ZF"] <=> res = 0) /\ (on["CF"] <=> a < b)
  BY DEF Compared, zero
<1> HIDE DEF on
<1>4. /\ "ZF" \in Update(fl, on) <=> on["ZF"]
      /\ "CF" \in Update(fl, on) <=> on["CF"]
      /\ "DF" \in Update(fl, on) <=> "DF" \in fl
  BY <1>2, UpdateFlag
<1> QED
  BY <1>3, <1>4 DEF on

\* A difference of two numbers below S, modulo a multiple of it, is zero only
\* if they are equal.
LEMMA ZeroDifference ==
  ASSUME NEW S \in Nat, NEW M \in Nat, S > 0, S <= M, NEW a \in 0..(S - 1), NEW b \in 0..(S - 1)
  PROVE  (a - b) % M = 0 <=> a = b
  OBVIOUS

\* An element is a number of its size.
LEMMA ElementType ==
  ASSUME mem \in [Addr -> Byte], NEW p \in Addr, NEW s \in {1, 2, 4}
  PROVE  Element(p, s) \in 0..(Size(s) - 1)
<1>1. read32(mem, p) \in Nat
  BY ReadType, SpaceSize DEF Addr
<1> QED
  BY <1>1, SizeDivides DEF Element

\* Multiples of the element size.
LEMMA Multiples ==
  ASSUME StringTypeOK, NEW n \in Nat, n % insn.size = 0
  PROVE  /\ n < Total => n + insn.size <= Total
         /\ (n + insn.size) % insn.size = 0
         /\ n > 0 => n >= insn.size
         /\ \A i \in 0..(n - insn.size) :
              i % insn.size = 0 => i = n - insn.size \/ i \in 0..(n - 2 * insn.size)
<1> DEFINE s == insn.size  c == start.ecx
<1>1. s \in {1, 2, 4} /\ c \in Nat /\ Total = c * s
  BY Sizes, Constants DEF StringTypeOK, Total
<1> HIDE DEF s, c
<1>2. /\ n < c * s => n + s <= c * s
      /\ (n + s) % s = 0
      /\ n > 0 => n >= s
      /\ \A i \in 0..(n - s) : i % s = 0 => i = n - s \/ i \in 0..(n - 2 * s)
  <2>1. CASE s = 1
    BY <1>1, <2>1 DEF s
  <2>2. CASE s = 2
    BY <1>1, <2>2 DEF s
  <2>3. CASE s = 4
    BY <1>1, <2>3 DEF s
  <2> QED
    BY <1>1, <2>1, <2>2, <2>3
<1> QED
  BY <1>1, <1>2 DEF s

\* How far apart a pointer and its start are, in either order.
LEMMA Distance ==
  ASSUME NEW p \in Pointers, NEW n \in Nat, n <= 4 * MaxCount
  PROVE  /\ (IF df THEN Above(p, Moved(p, n)) ELSE Above(Moved(p, n), p)) = n
         /\ n > 0 => (IF df THEN Above(Moved(p, n), p) ELSE Above(p, Moved(p, n))) = N - n
<1>1. p \in Nat /\ EsBase \in Nat /\ N \in Nat /\ 0 <= p - n /\ EsBase + p + n < N
  BY Inside
<1>2. CASE df
  <2>1. Moved(p, n) = p - n /\ p \in Addr /\ p - n \in Addr
    BY <1>1, <1>2 DEF Moved, Addr
  <2> QED
    BY <1>1, <1>2, <2>1, AboveIs
<1>3. CASE ~df
  <2>1. Moved(p, n) = p + n /\ p \in Addr /\ p + n \in Addr
    BY <1>1, <1>3 DEF Moved, Addr
  <2> QED
    BY <1>1, <1>3, <2>1, AboveIs
<1> QED
  BY <1>2, <1>3

\* CMPS compares one more pair.
LEMMA CompareStep ==
  ASSUME StringTypeOK, NEW n \in Nat, ChainAt(n), cmps_i, NEW m \in Nat, m = n + insn.size
  PROVE  ChainAt(m)'
<1> DEFINE s == insn.size  p == start.esi  q == start.edi  a == Element(esi, s)  b == Element(edi, s)
<1>1. ~retired /\ UNCHANGED <<insn, start, mem, eax, ecx>>
  BY DEF cmps_i, At_eip
<1>2. s \in {1, 2, 4} /\ p \in Pointers /\ q \in Pointers /\ mem \in [Addr -> Byte] /\ esi \in Addr /\ edi \in Addr
  BY Sizes DEF StringTypeOK
<1>3. n % s = 0 /\ n < Total /\ ecx = start.ecx /\ esi = Moved(p, n) /\ edi = Moved(q, n)
  BY <1>1 DEF ChainAt
<1>4. /\ n + s <= Total /\ (n + s) % s = 0 /\ (n > 0 => n >= s)
      /\ \A i \in 0..(n - s) : i % s = 0 => i = n - s \/ i \in 0..(n - 2 * s)
  BY <1>3, Multiples
<1>5. Total \in Nat /\ Total <= 4 * MaxCount /\ MaxCount \in Nat
  BY Progress, Constants
<1>6. n + s \in Nat /\ n + s <= 4 * MaxCount /\ n + s > 0
  <2>1. s \in Nat /\ s > 0 /\ n + s <= Total
    BY <1>2, <1>4
  <2> QED
    BY <2>1, <1>5
<1>7. eflags' = Update(eflags, Compared(a, b, (a - b) % Size(s), ByteBits * s))
  BY DEF cmps_i
<1>8. (df' <=> df) /\ ("CF" \in eflags' <=> a < b) /\ ("ZF" \in eflags' <=> (a - b) % Size(s) = 0)
  <2> HIDE DEF a, b
  <2>1. LET u == Update(eflags, Compared(a, b, (a - b) % Size(s), ByteBits * s)) IN
          /\ "ZF" \in u <=> (a - b) % Size(s) = 0
          /\ "CF" \in u <=> a < b
          /\ "DF" \in u <=> "DF" \in eflags
    BY ComparedFlags
  <2> QED
    BY <1>7, <2>1 DEF df, test_Flag
<1>9. (a - b) % Size(s) = 0 <=> a = b
  <2>1. a \in 0..(Size(s) - 1) /\ b \in 0..(Size(s) - 1)
    BY <1>2, ElementType
  <2>2. Size(s) \in Nat /\ Size(s) > 0
    BY <1>2, SizeDivides
  <2> HIDE DEF a, b
  <2> QED
    BY <2>1, <2>2, ZeroDifference
<1>11. a = A(n) /\ b = B(n)
  BY <1>3 DEF A, B
<1>12. esi' = Moved(p, n + s) /\ edi' = Moved(q, n + s)
  <2>1. esi' = Advance(esi, s) /\ edi' = Advance(edi, s)
    BY DEF cmps_i
  <2> QED
    BY <2>1, <1>2, <1>3, <1>6, PointerGoesOn
<1>13. retired' <=> a # b \/ n + s = Total
  <2>1. retired' <=> (a # b \/ Above(esi', p) = ecx * s \/ Above(p, esi') = ecx * s)
    BY DEF cmps_i
  <2>2. ecx * s = Total
    BY <1>3 DEF Total
  <2>3. \/ Above(p, esi') = n + s /\ Above(esi', p) = N - (n + s)
        \/ Above(esi', p) = n + s /\ Above(p, esi') = N - (n + s)
    BY <1>2, <1>6, <1>12, Distance
  <2>4. N - (n + s) # Total
    <3>1. 8 * MaxCount < N /\ N \in Nat
      BY <1>2, <1>6, Inside
    <3> QED
      BY <3>1, <1>2, <1>5, <1>6
  <2> QED
    BY <2>1, <2>2, <2>3, <2>4
<1>14. (n + s) - s = n /\ (n + s) - 2 * s = n - s
  BY <1>2
<1>15. \A i \in 0..(n - s) : i % s = 0 => A(i) = B(i)
  <2> TAKE i \in 0..(n - s)
  <2> HAVE i % s = 0
  <2>1. CASE i = n - s
    BY <2>1, <1>1, <1>2 DEF ChainAt
  <2>2. CASE i \in 0..(n - 2 * s)
    BY <2>2 DEF ChainAt
  <2> QED
    BY <2>1, <2>2, <1>4
<1>17. ~retired' => n + s < Total
  BY <1>2, <1>4, <1>5, <1>13
<1>18. m = n + s /\ m - s = n /\ m - 2 * s = n - s
  BY <1>2
<1> HIDE DEF a, b
<1>19. /\ m % s = 0 /\ m <= Total
       /\ esi' = Moved(p, m) /\ edi' = Moved(q, m)
       /\ ecx = start.ecx
       /\ \A i \in 0..(m - 2 * s) : i % s = 0 => A(i) = B(i)
       /\ ("ZF" \in eflags' <=> A(m - s) = B(m - s)) /\ ("CF" \in eflags' <=> A(m - s) < B(m - s))
       /\ ~retired' => A(m - s) = B(m - s)
       /\ ~retired' => m < Total
       /\ retired' /\ m < Total => A(m - s) # B(m - s)
  BY <1>3, <1>4, <1>8, <1>9, <1>11, <1>12, <1>13, <1>15, <1>17, <1>18
<1> QED
  BY <1>1, <1>8, <1>19 DEF ChainAt, A, B, Moved, Element, Says, Total

\* SCAS compares the accumulator with one element.
LEMMA ScanStep ==
  ASSUME StringTypeOK, scas_i
  PROVE  Says(eax % Size(insn.size), Element(edi, insn.size))'
<1> DEFINE s == insn.size  a == eax % Size(s)  b == Element(edi, s)
<1>1. UNCHANGED <<insn, mem, eax, edi>> /\ eflags' = Update(eflags, Compared(a, b, (a - b) % N, ByteBits * s))
  BY DEF scas_i, At_eip
<1>2. s \in {1, 2, 4} /\ mem \in [Addr -> Byte] /\ edi \in Addr /\ eax \in Nat
  BY Sizes, SpaceSize DEF StringTypeOK, Addr
<1>3. Size(s) \in Nat /\ Size(s) > 0 /\ Size(s) <= N
  BY <1>2, SizeDivides
<1>4. a \in 0..(Size(s) - 1) /\ b \in 0..(Size(s) - 1)
  BY <1>2, <1>3, ElementType
<1>5. a' = a /\ b' = b
  BY <1>1 DEF Element
<1> HIDE DEF a, b
<1>6. (a - b) % N = 0 <=> a = b
  BY <1>3, <1>4, SpaceSize, ZeroDifference
<1>7. LET u == Update(eflags, Compared(a, b, (a - b) % N, ByteBits * s)) IN
        ("ZF" \in u <=> (a - b) % N = 0) /\ ("CF" \in u <=> a < b)
  BY ComparedFlags
<1>8. ("ZF" \in eflags' <=> a' = b') /\ ("CF" \in eflags' <=> a' < b')
  BY <1>1, <1>5, <1>6, <1>7
<1> QED
  BY <1>8 DEF Says, a, b

---------------------------------------------------------------------------
(* The inductive invariant *)

StringInv == StringTypeOK /\ PointersInv /\ MovesLikeMemmove /\ FillsLikeMemset /\ CompareInv

\* Before the instruction nothing is moved, filled or compared.
LEMMA StringInvInit == Init => StringInv
<1> SUFFICES ASSUME Init PROVE StringInv
  OBVIOUS
<1>1. StringTypeOK
  BY StringTypeInit
<1>2. /\ start.mem = mem /\ start.esi = esi /\ start.edi = edi /\ start.ecx = ecx
      /\ retired = FALSE /\ Done = 0 /\ Total \in Nat
  BY <1>1, Progress DEF Init
<1>3. insn.size \in {1, 2, 4} /\ esi \in Int /\ edi \in Int /\ EsBase \in Int /\ ecx \in Nat /\ ecx > 0
  BY <1>1, <1>2, Sizes, Constants, SpaceSize DEF StringTypeOK, Addr
<1>4. Moved(start.esi, 0) = esi /\ Moved(start.edi, 0) = edi
  BY <1>2, <1>3 DEF Moved
<1>5. PointersInv
  BY <1>2, <1>4 DEF PointersInv
<1>6. \A d \in Int : d..(d + 0 - 1) = {}
  OBVIOUS
<1>7. Lowest(start.esi, 0) \in Int /\ Lowest(start.edi, 0) \in Int /\ EsBase + Lowest(start.edi, 0) \in Int
  BY <1>2, <1>3 DEF Lowest
<1>8. MovesLikeMemmove
  <2>1. esi = (IF df THEN start.esi - 0 ELSE start.esi + 0) /\ edi = (IF df THEN start.edi - 0 ELSE start.edi + 0)
    BY <1>2, <1>3
  <2> QED
    BY <2>1, <1>2, <1>6, <1>7 DEF MovesLikeMemmove
<1>9. FillsLikeMemset
  BY <1>2, <1>6, <1>7 DEF FillsLikeMemset
<1>10. ChainAt(0)
  <2>1. 0 % insn.size = 0 /\ 0..(0 - 2 * insn.size) = {}
    BY <1>3
  <2>2. 0 < Total
    <3> DEFINE e == start.ecx  s == insn.size
    <3>1. e \in Nat /\ e > 0 /\ s \in {1, 2, 4}
      BY <1>2, <1>3
    <3> HIDE DEF e, s
    <3>2. e * s > 0
      BY <3>1
    <3> QED
      BY <3>2 DEF e, s, Total
  <2> QED
    BY <2>1, <2>2, <1>2, <1>4 DEF ChainAt
<1>11. CompareInv
  BY <1>2, <1>10 DEF CompareInv
<1> QED
  BY <1>1, <1>5, <1>8, <1>9, <1>11 DEF StringInv

\* Every instruction preserves the invariant.
LEMMA StringInvStep == StringInv /\ [Next]_vars => StringInv'
<1> SUFFICES ASSUME StringInv, [Next]_vars PROVE StringInv'
  OBVIOUS
<1> USE DEF StringInv
<1>1. StringTypeOK'
  BY StringTypeStep
<1>2. PointersInv'
  BY PointersStep
<1>3. CASE rep_movs_i
  <2>1. MovesLikeMemmove'
    BY <1>2, <1>3, MoveStep
  <2>2. insn.op = "rep movs" /\ insn' = insn
    BY <1>3 DEF rep_movs_i, At_eip
  <2> QED
    BY <1>1, <1>2, <2>1, <2>2 DEF FillsLikeMemset, CompareInv
<1>4. CASE rep_stos_i
  <2>1. FillsLikeMemset'
    BY <1>4, StoreStep
  <2>2. insn.op = "rep stos" /\ insn' = insn
    BY <1>4 DEF rep_stos_i, At_eip
  <2> QED
    BY <1>1, <1>2, <2>1, <2>2 DEF MovesLikeMemmove, CompareInv
<1>5. CASE cmps_i
  <2>1. insn.op = "cmps" /\ insn' = insn
    BY <1>5 DEF cmps_i, At_eip
  <2>2. PICK n \in Nat : ChainAt(n)
    BY <2>1 DEF CompareInv
  <2>3. n + insn.size \in Nat
    BY Sizes
  <2>4. \E m \in Nat : ChainAt(m)'
    BY <1>5, <2>2, <2>3, CompareStep
  <2> QED
    BY <1>1, <1>2, <2>1, <2>4 DEF MovesLikeMemmove, FillsLikeMemset, CompareInv
<1>6. CASE scas_i
  <2>1. insn.op = "scas" /\ insn' = insn
    BY <1>6 DEF scas_i, At_eip
  <2> QED
    BY <1>1, <1>2, <1>6, <2>1, ScanStep DEF MovesLikeMemmove, FillsLikeMemset, CompareInv
<1>7. CASE movs_i \/ stos_i \/ lods_i
  <2>1. insn.op \in {"movs", "stos", "lods"} /\ insn' = insn
    BY <1>7 DEF movs_i, stos_i, lods_i, At_eip
  <2> QED
    BY <1>1, <1>2, <2>1 DEF MovesLikeMemmove, FillsLikeMemset, CompareInv
<1>8. CASE UNCHANGED vars
  <2>1. MovesLikeMemmove' /\ FillsLikeMemset'
    BY <1>8 DEF vars, MovesLikeMemmove, FillsLikeMemset, Safe, Lowest, Done, Total, df
  <2>2. CompareInv'
    BY <1>8 DEF vars, CompareInv, ChainAt, A, B, Moved, Says, Element, Total, df
  <2> QED
    BY <1>1, <1>2, <2>1, <2>2
<1> QED
  BY <1>3, <1>4, <1>5, <1>6, <1>7, <1>8 DEF Next

\* The chain and the property speak of the same elements.
LEMMA ChainCompares == StringInv => ComparesLikeMemcmp
<1> SUFFICES ASSUME StringInv PROVE ComparesLikeMemcmp
  OBVIOUS
<1> USE DEF StringInv
<1> DEFINE s == insn.size
           n == IF df THEN Above(start.esi, esi) ELSE Above(esi, start.esi)
           k(i) == IF df THEN -i ELSE i
           P(i) == Element(start.esi + k(i), s)
           Q(i) == Element(start.edi + k(i), s)
<1>1. ASSUME insn.op = "cmps", n > 0
      PROVE  /\ \A i \in 0..(n - 2 * s) : i % s = 0 => P(i) = Q(i)
             /\ ("ZF" \in eflags <=> P(n - s) = Q(n - s)) /\ ("CF" \in eflags <=> P(n - s) < Q(n - s))
             /\ retired /\ n < Total => P(n - s) # Q(n - s)
  <2>1. PICK c \in Nat : ChainAt(c)
    BY <1>1 DEF CompareInv
  <2>2. start.esi \in Pointers /\ start.edi \in Pointers /\ s \in {1, 2, 4}
    BY Sizes DEF StringTypeOK
  <2>3. c <= 4 * MaxCount
    BY <2>1, Progress, Constants DEF ChainAt
  <2>4. n = c
    BY <2>1, <2>2, <2>3, Distance DEF ChainAt
  <2>5. start.esi \in Int /\ start.edi \in Int
    BY <2>2, Constants, SpaceSize DEF Addr
  <2>6. \A i \in Int : start.esi + k(i) = Moved(start.esi, i) /\ start.edi + k(i) = Moved(start.edi, i)
    BY <2>5 DEF Moved
  <2>7. \A i \in Int : P(i) = A(i) /\ Q(i) = B(i)
    BY <2>6 DEF A, B
  <2> HIDE DEF n, k, P, Q
  <2>8. n - s \in Int /\ \A i \in 0..(n - 2 * s) : i \in Int
    BY <2>2, <2>4
  <2> QED
    BY <1>1, <2>1, <2>4, <2>7, <2>8 DEF ChainAt, Says
<1>2. ASSUME insn.op = "scas", retired
      PROVE  ("ZF" \in eflags <=> eax % Size(s) = Element(edi, s)) /\ ("CF" \in eflags <=> eax % Size(s) < Element(edi, s))
  BY <1>2 DEF CompareInv, Says
<1> QED
  BY <1>1, <1>2 DEF ComparesLikeMemcmp

\* At every element REP MOVS has moved exactly the part of the block ecx has
\* counted off, for every pair of blocks memmove could copy in the direction
\* of DF: the loop may be stopped and resumed anywhere.
THEOREM RepMovsIsMemmove == Spec => []MovesLikeMemmove
<1>1. StringInv => MovesLikeMemmove
  BY DEF StringInv
<1> QED
  BY <1>1, StringInvInit, StringInvStep, PTL DEF Spec

\* At every element REP STOS has filled exactly the part of the block that
\* ecx has counted off, element by element with the accumulator.
THEOREM RepStosIsMemset == Spec => []FillsLikeMemset
<1>1. StringInv => FillsLikeMemset
  BY DEF StringInv
<1> QED
  BY <1>1, StringInvInit, StringInvStep, PTL DEF Spec

\* A chain of CMPS left by JNE has passed equal elements only and its flags
\* order the last pair, without sign; so do those of SCAS.
THEOREM CmpsIsMemcmp == Spec => []ComparesLikeMemcmp
  BY ChainCompares, StringInvInit, StringInvStep, PTL DEF Spec
=============================================================================
