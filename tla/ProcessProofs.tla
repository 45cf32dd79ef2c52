---------------------------- MODULE ProcessProofs ---------------------------
(***************************************************************************)
(* The segments for every size of the table, every number of reserved      *)
(* entries and every radix, by themselves and in a process; the pointers   *)
(* of its system calls; the list of symbols the loader sorts; and what the *)
(* loader puts into memory: the image of a file, the stack over it, and    *)
(* that a guest finds both and can pass them on to execve.                 *)
(***************************************************************************)
EXTENDS Process, MemoryProofs, FiniteSetTheorems, WellFoundedInduction

\* The descriptor number of a selector is the entry it was made of.
LEMMA SelectorNumber ==
  ASSUME NEW e \in Entries
  PROVE  /\ Number(Selector(e)) = e
         /\ Number(Selector(e)) % GdtEntries = e
<1>1. e \in Nat /\ e < GdtEntries /\ GdtEntries \in Nat
  BY GdtAssumption DEF Entries
<1>2. (8 * e + 3) \div 8 = e
  BY <1>1
<1>3. e % GdtEntries = e
  BY <1>1
<1> QED
  BY <1>2, <1>3 DEF Number, Selector

\* The low half of a word is its two low bytes.
LEMMA LowHalf ==
  ASSUME NEW v \in Addr
  PROVE  v % Half = Byte0(v) + Radix * Byte1(v) /\ v % Half \in 0..(Half - 1)
<1> DEFINE q == v \div Radix
           r == q \div Radix
<1>1. v \in Nat
  BY SpaceSize DEF Addr
<1>2. v = Radix * q + Byte0(v) /\ q \in Nat /\ Byte0(v) \in Byte
  BY <1>1, DivMod DEF Byte0
<1>3. q = Radix * r + Byte1(v) /\ r \in Nat /\ Byte1(v) \in Byte
  BY <1>2, DivMod DEF Byte1
<1> HIDE DEF q, r
<1> DEFINE low == Byte0(v) + Radix * Byte1(v)
<1>4. v = Half * r + low
  <2>1. Byte0(v) \in Nat /\ Byte1(v) \in Nat /\ Radix \in Nat
    BY <1>2, <1>3, RadixAssumption DEF Byte
  <2>2. Radix * (Radix * r + Byte1(v)) = (Radix * Radix) * r + Radix * Byte1(v)
    BY <2>1, <1>3
  <2> QED
    BY <1>2, <1>3, <2>1, <2>2 DEF Half
<1>5. low \in 0..(Half - 1)
  BY <1>2, <1>3, DigitOnTop, RadixAssumption DEF Byte, Half
<1> HIDE DEF low
<1>6. v % Half = low
  BY <1>3, <1>4, <1>5, SpaceSize
<1> QED
  BY <1>5, <1>6 DEF low

\* Splitting a base and joining the parts gives it back.
LEMMA BaseSplit ==
  ASSUME NEW base \in Addr
  PROVE  base = (base % Half) + Half * (Byte2(base) + Radix * Byte3(base))
<1> DEFINE b0 == Byte0(base)  b1 == Byte1(base)  b2 == Byte2(base)  b3 == Byte3(base)
<1>1. /\ b0 \in Byte /\ b1 \in Byte /\ b2 \in Byte /\ b3 \in Byte
      /\ base = b0 + Radix * (b1 + Radix * (b2 + Radix * b3))
  BY ByteSplit
<1>2. base % Half = b0 + Radix * b1
  BY LowHalf
<1> HIDE DEF b0, b1, b2, b3
<1>3. b0 \in Nat /\ b1 \in Nat /\ b2 \in Nat /\ b3 \in Nat /\ Radix \in Nat
  BY <1>1, RadixAssumption DEF Byte
<1> DEFINE h == b2 + Radix * b3
<1>4. h \in Nat
  BY <1>3
<1>5. base = b0 + Radix * (b1 + Radix * h)
  BY <1>1
<1> HIDE DEF h
<1>6. Radix * (b1 + Radix * h) = Radix * b1 + (Radix * Radix) * h
  BY <1>3, <1>4
<1>7. base = (b0 + Radix * b1) + Half * h
  BY <1>3, <1>4, <1>5, <1>6 DEF Half
<1> QED
  BY <1>2, <1>7 DEF h, b0, b1, b2, b3

\* A descriptor that was made of a base gives it back.
LEMMA DescrFacts ==
  ASSUME NEW base \in Addr, NEW limit \in Addr
  PROVE  /\ Descr(base, limit) \in Descriptor
         /\ Descr(base, limit).used
         /\ Descr(base, limit).base_low
              + Half * (Descr(base, limit).base_mid + Radix * Descr(base, limit).base_high) = base
  BY BaseSplit, LowHalf, ByteSplit DEF Descr, Descriptor

\* A table lies on the places, and its entries have an index.
LEMMA PlaceFacts ==
  ASSUME NEW t \in GdtPlaces
  PROVE  /\ t \in Nat
         /\ \A i \in Indices : t + i \in Places
         /\ Entries \subseteq Indices /\ TlsEntries \subseteq Entries
         /\ 0 \in Entries /\ \A n \in Nat : n % IndexSize \in Indices
<1>1. /\ t \in Nat /\ GdtEntries \in Nat /\ TlsReserved \in Nat /\ IndexSize \in Nat
      /\ 0 < TlsReserved /\ TlsReserved < GdtEntries /\ GdtEntries < IndexSize
  BY GdtAssumption
<1>2. \A i \in Indices : t + i \in Places
  BY DEF Places
<1> QED
  BY <1>1, <1>2 DEF Entries, TlsEntries, Indices

\* The descriptor of a selector, in a table that lies on the places.
LEMMA FoundEntry ==
  ASSUME NEW e \in Entries
  PROVE  Found(Selector(e)) = gdt[gdtr + e] /\ Found(Selector(e))' = gdt'[gdtr' + e]
BY SelectorNumber DEF Found

\* The base in a descriptor.
BaseOf(d) == d.base_low + Half * (d.base_mid + Radix * d.base_high)

\* What is at any place was made of the base asked for there: a table may be
\* moved to it.
PlaceBases == \A p \in Places : BaseOf(gdt[p]) = asked[p]

\* What writing one entry does to the bases at all places.
LEMMA SetEntryBases ==
  ASSUME SegTypeOK, PlaceBases,
         NEW entry, NEW i \in Indices, NEW base \in Addr, NEW limit \in Addr,
         SetEntry(entry, i, base, limit)
  PROVE  SegTypeOK' /\ PlaceBases'
<1> DEFINE d == Descr(base, limit)  q == gdtr + i
<1>1. gdt' = [gdt EXCEPT ![q] = d] /\ asked' = [asked EXCEPT ![q] = base] /\ gs' = gs /\ gdtr' = gdtr
  BY DEF SetEntry
<1>2. d \in Descriptor /\ BaseOf(d) = base
  BY DescrFacts DEF BaseOf
<1>3. q \in Places
  BY PlaceFacts DEF SegTypeOK
<1> HIDE DEF d, q
<1>4. SegTypeOK'
  BY <1>1, <1>2, <1>3 DEF SegTypeOK
<1>5. ASSUME NEW p \in Places PROVE BaseOf(gdt'[p]) = asked'[p]
  <2>1. CASE p = q
    BY <1>1, <1>2, <1>3, <2>1 DEF SegTypeOK
  <2>2. CASE p # q
    <3>1. gdt'[p] = gdt[p] /\ asked'[p] = asked[p]
      BY <1>1, <2>2 DEF SegTypeOK
    <3> QED
      BY <3>1 DEF PlaceBases
  <2> QED
    BY <2>1, <2>2
<1> QED
  BY <1>4, <1>5 DEF PlaceBases

\* A request is refused or writes one entry: the one the guest named, cut to
\* a byte, or a reserved one that was free.
LEMMA AreaRequest ==
  ASSUME SegTypeOK, NEW entry \in Requested, NEW base \in Addr, NEW limit \in Addr,
         do_set_thread_area(entry, base, limit)
  PROVE  \/ UNCHANGED <<gdt, gdtr, gs, asked>>
         \/ \E i \in Indices :
              /\ SetEntry(entry, i, base, limit)
              /\ IF entry = NoEntry THEN i \in TlsEntries /\ ~gdt[gdtr + i].used
                                    ELSE i = entry % IndexSize
<1>0. gdtr \in GdtPlaces
  BY DEF SegTypeOK
<1>1. CASE entry # NoEntry /\ SetEntry(entry, entry % IndexSize, base, limit)
  <2>1. entry \in Nat
    BY <1>1, SpaceSize DEF Requested, Addr
  <2> QED
    BY <1>0, <1>1, <2>1, PlaceFacts
<1>2. CASE entry = NoEntry /\ SetFirstFree(base, limit)
  <2>1. PICK e \in Free : SetEntry(NoEntry, e, base, limit)
    BY <1>2 DEF SetFirstFree
  <2>2. e \in TlsEntries /\ ~gdt[gdtr + e].used
    BY <2>1 DEF Free
  <2>3. e \in Indices
    BY <1>0, <2>2, PlaceFacts
  <2> QED
    BY <1>2, <2>1, <2>2, <2>3
<1>3. CASE UNCHANGED <<gdt, gdtr, gs, asked>>
  BY <1>3
<1> QED
  BY <1>1, <1>2, <1>3 DEF do_set_thread_area

\* The initial memory has flat segments and zeros.
LEMMA SegInitial ==
  ASSUME SegInit
  PROVE  SegTypeOK /\ PlaceBases
<1>1. gdt = init_gdt /\ gdtr = GDT_ADDR /\ gs = 0 /\ asked = [p \in Places |-> 0]
  BY DEF SegInit
<1>2. 0 \in Byte /\ 0 \in 0..(Half - 1) /\ Half - 1 \in 0..(Half - 1) /\ 0 \in Addr
  BY SpaceSize, RadixAssumption DEF Byte, Addr
<1>3. init_gdt \in [Places -> Descriptor]
  BY <1>2 DEF init_gdt, Descriptor
<1>4. SegTypeOK
  BY <1>1, <1>2, <1>3, GdtAssumption DEF SegTypeOK
<1>5. ASSUME NEW p \in Places PROVE BaseOf(gdt[p]) = asked[p]
  <2>1. gdt[p].base_low = 0 /\ gdt[p].base_mid = 0 /\ gdt[p].base_high = 0 /\ asked[p] = 0
    BY <1>1 DEF init_gdt
  <2>2. 0 + Half * (0 + Radix * 0) = 0
    BY SpaceSize, RadixAssumption
  <2> QED
    BY <2>1, <2>2 DEF BaseOf
<1> QED
  BY <1>4, <1>5 DEF PlaceBases

\* Every step keeps the parts of a base together.
LEMMA SegStep ==
  ASSUME SegTypeOK, PlaceBases, [SegNext]_segVars
  PROVE  SegTypeOK' /\ PlaceBases'
<1>1. CASE UNCHANGED <<gdt, gdtr, gs, asked>>
  BY <1>1 DEF SegTypeOK, PlaceBases
<1>2. ASSUME NEW entry \in Requested, NEW base \in Addr, NEW limit \in Addr,
             do_set_thread_area(entry, base, limit)
      PROVE  SegTypeOK' /\ PlaceBases'
  BY <1>1, <1>2, AreaRequest, SetEntryBases
<1>3. ASSUME NEW e \in Entries, mov_gs(Selector(e))
      PROVE  SegTypeOK' /\ PlaceBases'
  BY <1>3 DEF mov_gs, SegTypeOK, PlaceBases
<1>4. ASSUME NEW table \in GdtPlaces, lgdt_i(table)
      PROVE  SegTypeOK' /\ PlaceBases'
  BY <1>4 DEF lgdt_i, SegTypeOK, PlaceBases
<1>5. ASSUME NEW sel \in Selectors, lsl_i(sel) \/ verr_i(sel) \/ verw_i(sel)
      PROVE  UNCHANGED <<gdt, gdtr, gs, asked>>
  BY <1>5 DEF lsl_i, verr_i, verw_i, Looked
<1>6. CASE UNCHANGED segVars
  BY <1>1, <1>6 DEF segVars
<1> QED
  BY <1>1, <1>2, <1>3, <1>4, <1>5, <1>6 DEF SegNext

\* Segment bases survive their split into three parts: whatever entries a
\* guest requests with set_thread_area, reserved or not, and wherever LGDT
\* moves the table, the base get_gdt_base() joins for an entry is the one
\* asked for last at the place of its descriptor, and 0 where none was.
THEOREM SegmentBasesKept == SegSpec => [](SegTypeOK /\ SegmentBases)
<1>1. SegInit => SegTypeOK /\ PlaceBases
  BY SegInitial
<1>2. SegTypeOK /\ PlaceBases /\ [SegNext]_segVars => (SegTypeOK /\ PlaceBases)'
  BY SegStep
<1>3. SegTypeOK /\ PlaceBases => SegmentBases
  <2> SUFFICES ASSUME SegTypeOK, PlaceBases, NEW e \in Entries
               PROVE  get_gdt_base(Selector(e)) = asked[gdtr + e]
    BY DEF SegmentBases
  <2>1. gdtr + e \in Places
    BY PlaceFacts DEF SegTypeOK
  <2>2. Found(Selector(e)) = gdt[gdtr + e]
    BY FoundEntry
  <2> QED
    BY <2>1, <2>2 DEF get_gdt_base, PlaceBases, BaseOf
<1> QED
  BY <1>1, <1>2, <1>3, PTL DEF SegSpec

\* An address formed by eff_addr() with gs is relative to the base asked for
\* at the place of gs's descriptor, also when gs was loaded before.
THEOREM GsReachesTheArea == SegSpec => []GsAddresses
<1>1. SegTypeOK /\ SegmentBases => GsAddresses
  <2> SUFFICES ASSUME SegTypeOK, SegmentBases, NEW disp \in Addr
               PROVE  eff_addr(gs, 0, 0, 1, disp) = (asked[gdtr + Number(gs)] + disp) % N
    BY DEF GsAddresses
  <2>1. gdtr \in GdtPlaces
    BY DEF SegTypeOK
  <2>2. \E e \in Entries : Number(gs) = e /\ Number(Selector(e)) = e
    <3>1. CASE gs = 0
      <4>1. 0 \in Entries /\ Number(0) = 0
        BY <2>1, PlaceFacts DEF Number
      <4> QED
        BY <3>1, <4>1, SelectorNumber
    <3>2. CASE gs # 0
      BY <3>2, SelectorNumber DEF SegTypeOK
    <3> QED
      BY <3>1, <3>2
  <2>3. PICK e \in Entries : Number(gs) = e /\ Number(Selector(e)) = e
    BY <2>2
  <2>4. get_gdt_base(gs) = get_gdt_base(Selector(e))
    BY <2>3 DEF get_gdt_base, Found
  <2>5. get_gdt_base(gs) = asked[gdtr + e]
    BY <2>4 DEF SegmentBases
  <2>6. asked[gdtr + e] \in Nat /\ disp \in Nat /\ N \in Nat
    <3>1. gdtr + e \in Places
      BY <2>1, PlaceFacts
    <3> QED
      BY <3>1, SpaceSize DEF SegTypeOK, Addr
  <2> QED
    BY <2>3, <2>5, <2>6 DEF eff_addr
<1> QED
  BY <1>1, SegmentBasesKept, PTL

\* do_set_thread_area takes a reserved entry that is free when the guest asks
\* for any, writes to the one it names and to no other, and nothing else
\* writes to a table.
THEOREM ThreadAreasApart == SegSpec => AreasApart
<1> DEFINE Apart == \A p \in Places :
       gdt'[p] # gdt[p] =>
         /\ seen'.op = "set" /\ gdt'[p].used
         /\ IF seen'.entry = NoEntry THEN p - gdtr \in TlsEntries /\ ~gdt[p].used
                                     ELSE p = gdtr + (seen'.entry % IndexSize)
<1>1. SegTypeOK /\ [SegNext]_segVars => [Apart]_segVars
  <2> SUFFICES ASSUME SegTypeOK, [SegNext]_segVars PROVE Apart \/ UNCHANGED segVars
    OBVIOUS
  <2>1. CASE UNCHANGED gdt
    BY <2>1
  <2>2. ASSUME NEW entry \in Requested, NEW base \in Addr, NEW limit \in Addr,
               do_set_thread_area(entry, base, limit)
        PROVE  Apart
    <3>1. CASE UNCHANGED gdt
      BY <3>1
    <3>2. ASSUME NEW i \in Indices, SetEntry(entry, i, base, limit),
                 IF entry = NoEntry THEN i \in TlsEntries /\ ~gdt[gdtr + i].used
                                    ELSE i = entry % IndexSize
          PROVE  Apart
      <4>0. gdtr \in Nat /\ gdtr + i \in Places /\ i \in Int
        BY PlaceFacts DEF SegTypeOK, Indices
      <4>1. ASSUME NEW p \in Places, gdt'[p] # gdt[p]
            PROVE  p = gdtr + i
        BY <3>2, <4>1 DEF SetEntry, SegTypeOK
      <4>2. Descr(base, limit).used
        BY DescrFacts
      <4>3. gdt'[gdtr + i].used
        BY <3>2, <4>0, <4>2 DEF SetEntry, SegTypeOK
      <4>4. seen'.op = "set" /\ seen'.entry = entry
        BY <3>2 DEF SetEntry
      <4>5. (gdtr + i) - gdtr = i
        BY <4>0
      <4> QED
        BY <3>2, <4>1, <4>3, <4>4, <4>5
    <3> QED
      BY <2>2, <3>1, <3>2, AreaRequest
  <2>3. ASSUME NEW e \in Entries, mov_gs(Selector(e)) PROVE UNCHANGED gdt
    BY <2>3 DEF mov_gs
  <2>4. ASSUME NEW sel \in Selectors, lsl_i(sel) \/ verr_i(sel) \/ verw_i(sel)
        PROVE  UNCHANGED gdt
    BY <2>4 DEF lsl_i, verr_i, verw_i, Looked
  <2>5. ASSUME NEW table \in GdtPlaces, lgdt_i(table) PROVE UNCHANGED gdt
    BY <2>5 DEF lgdt_i
  <2> QED
    BY <2>1, <2>2, <2>3, <2>4, <2>5 DEF SegNext
<1> QED
  BY <1>1, SegmentBasesKept, PTL DEF AreasApart, SegSpec

---------------------------------------------------------------------------
(* Structures in guest memory *)

\* Positions from an address up, and how far they are from it.
LEMMA Offsets ==
  ASSUME NEW a \in Addr, NEW o \in Addr
  PROVE  /\ At(a, o) \in Addr /\ Below(At(a, o), a) = o
         /\ \A j \in Nat : At(At(a, o), j) = At(a, o + j)
<1>1. N \in Nat /\ N >= 81 /\ a \in Nat /\ a < N /\ o \in Nat /\ o < N
  BY SpaceSize DEF Addr
<1>2. At(a, o) = IF a + o < N THEN a + o ELSE a + o - N
  BY <1>1 DEF At
<1>3. Below(At(a, o), a) = o
  BY <1>1, <1>2 DEF Below
<1>4. ASSUME NEW j \in Nat PROVE At(At(a, o), j) = At(a, o + j)
  <2> DEFINE x == a + o + j
  <2>1. x \in Nat /\ (x - N) % N = x % N
    <3> DEFINE q == x \div N  r == x % N
    <3>1. x \in Nat
      BY <1>1
    <3> HIDE DEF x
    <3>2. q \in Int /\ r \in Int /\ 0 <= r /\ r < N /\ x = N * q + r
      BY <1>1, <3>1
    <3> HIDE DEF q, r
    <3>3. x - N = N * (q - 1) + r /\ q - 1 \in Int /\ x - N \in Int
      BY <1>1, <3>1, <3>2
    <3>4. (x - N) % N = r
      <4> DEFINE y == x - N  p == q - 1
      <4>1. y \in Int /\ p \in Int /\ y = N * p + r
        BY <3>3
      <4> HIDE DEF y, p
      <4>2. y % N = r
        BY <1>1, <3>2, <4>1
      <4> QED
        BY <4>2 DEF y
    <3> QED
      BY <3>1, <3>4 DEF r
  <2>2. CASE a + o < N
    <3>1. At(At(a, o), j) = (a + o + j) % N /\ At(a, o + j) = (a + (o + j)) % N
      BY <1>1, <1>2, <2>2 DEF At
    <3>2. a + (o + j) = a + o + j
      BY <1>1
    <3> QED
      BY <3>1, <3>2
  <2>3. CASE ~(a + o < N)
    <3>1. At(At(a, o), j) = (a + o - N + j) % N /\ At(a, o + j) = (a + (o + j)) % N
      BY <1>1, <1>2, <2>3 DEF At
    <3>2. a + (o + j) = x /\ a + o - N + j = x - N
      BY <1>1
    <3> HIDE DEF x
    <3> QED
      BY <2>1, <3>1, <3>2
  <2> QED
    BY <2>2, <2>3
<1> QED
  BY <1>1, <1>2, <1>3, <1>4 DEF Addr

\* The words a guest stores at Scratch are the ones a wrapper reads there.
LEMMA FilledReads ==
  ASSUME NEW words \in Seq(Addr), 4 * Len(words) <= N, NEW i \in 1..Len(words)
  PROVE  read32(Filled(words), At(Scratch, 4 * (i - 1))) = words[i]
<1> DEFINE n == Len(words)  o == 4 * (i - 1)  a == At(Scratch, o)  m == Filled(words)  v == words[i]
<1>1. n \in Nat /\ i \in Nat /\ 1 <= i /\ i <= n /\ N \in Nat /\ v \in Addr /\ Scratch \in Addr
  BY SpaceSize, ProcessAssumption
<1>2. o \in Nat /\ o + 3 < 4 * n /\ o + 3 < N
  BY <1>1
<1>3. \A j \in 0..3 : /\ o + j \in Addr /\ o + j \in Nat /\ o + j < 4 * n
                      /\ (o + j) \div 4 + 1 = i /\ (o + j) % 4 = j
  BY <1>1, <1>2 DEF Addr
<1>4. \A j \in 0..3 : At(a, j) = At(Scratch, o + j)
  <2>1. o \in Addr
    BY <1>1, <1>2 DEF Addr
  <2> HIDE DEF o
  <2> QED
    BY <1>1, <2>1, Offsets
<1> HIDE DEF o, a, v
<1>5. \A j \in 0..3 : At(Scratch, o + j) \in Addr /\ Below(At(Scratch, o + j), Scratch) = o + j
  BY <1>1, <1>3, Offsets
<1>6. \A j \in 0..3 : m[At(a, j)] = CASE j = 0 -> Byte0(v) [] j = 1 -> Byte1(v)
                                      [] j = 2 -> Byte2(v) [] OTHER -> Byte3(v)
  BY <1>3, <1>4, <1>5 DEF Filled, v
<1> HIDE DEF m
<1>7. m[At(a, 0)] = Byte0(v) /\ m[At(a, 1)] = Byte1(v) /\ m[At(a, 2)] = Byte2(v) /\ m[At(a, 3)] = Byte3(v)
  BY <1>6
<1>8. read32(m, a) = v
  BY <1>1, <1>7, ByteSplit DEF read32
<1> QED
  BY <1>8 DEF m, a, o, v

---------------------------------------------------------------------------
(* A process uses its segments as the component allows *)

\* The request do_set_thread_area takes from a struct user_desc is the guest's.
LEMMA AreaRequested ==
  ASSUME NEW entry \in AreaEntries, NEW base \in AreaBases, NEW limit \in AreaLimits,
         SetThreadArea(entry, base, limit)
  PROVE  entry \in Requested /\ base \in Addr /\ limit \in Addr /\ do_set_thread_area(entry, base, limit)
<1> DEFINE words == <<entry % N, base, limit>>  m == Filled(words)  e == read32(m, Scratch)
<1>1. /\ N \in Nat /\ N >= 81 /\ base \in Addr /\ limit \in Addr /\ Scratch \in Addr
      /\ entry \in Requested
  BY SpaceSize, ProcessAssumption
<1>2. /\ entry % N \in Addr
      /\ entry = NoEntry => entry % N = N - 1
      /\ entry # NoEntry => entry % N = entry /\ entry # N - 1
  <2>2. CASE entry = NoEntry
    <3>1. (-1) % N = N - 1
      BY <1>1
    <3> QED
      BY <1>1, <2>2, <3>1 DEF NoEntry, Addr
  <2>3. CASE entry # NoEntry
    <3>1. entry \in Nat /\ entry < N - 1
      BY <1>1, <2>3 DEF Requested, Addr
    <3> QED
      BY <1>1, <2>3, <3>1 DEF Addr
  <2> QED
    BY <2>2, <2>3
<1>3. words \in Seq(Addr) /\ Len(words) = 3 /\ 4 * Len(words) <= N
      /\ words[1] = entry % N /\ words[2] = base /\ words[3] = limit
  BY <1>1, <1>2
<1> HIDE DEF words
<1>4. \A i \in 1..3 : read32(m, At(Scratch, 4 * (i - 1))) = words[i]
  BY <1>3, FilledReads
<1> HIDE DEF m
<1>5. At(Scratch, 4 * (1 - 1)) = Scratch /\ 4 * (2 - 1) = 4 /\ 4 * (3 - 1) = 8
  BY <1>1, AtFacts
<1>6. e = entry % N /\ read32(m, At(Scratch, 4)) = base /\ read32(m, At(Scratch, 8)) = limit
  BY <1>3, <1>4, <1>5
<1>7. do_set_thread_area(IF e = N - 1 THEN NoEntry ELSE e,
                         read32(m, At(Scratch, 4)), read32(m, At(Scratch, 8)))
  BY DEF SetThreadArea, words, m
<1> HIDE DEF e
<1>8. (IF e = N - 1 THEN NoEntry ELSE e) = entry
  BY <1>2, <1>6
<1> QED
  BY <1>1, <1>6, <1>7, <1>8

LEMMA SegmentsStep == Next => [SegNext]_segVars
<1> SUFFICES ASSUME Next PROVE SegNext \/ UNCHANGED segVars
  OBVIOUS
<1>1. CASE Start
  BY <1>1 DEF Start
<1>2. CASE Forward \/ Chosen
  BY <1>2 DEF Forward, Chosen, Makes
<1>3. CASE Immediate \/ Exit \/ Execve
  BY <1>3 DEF Immediate, Exit, Execve
<1>4. ASSUME NEW iovs \in Iovecs, Writev(iovs) PROVE UNCHANGED segVars
  BY <1>4 DEF Writev
<1>5. ASSUME NEW answers \in Answers, Poll(answers) PROVE UNCHANGED segVars
  BY <1>5 DEF Poll
<1>6. CASE SegmentStep
  <2>1. ASSUME NEW entry \in AreaEntries, NEW base \in AreaBases, NEW limit \in AreaLimits,
               SetThreadArea(entry, base, limit)
        PROVE  SegNext
    BY <2>1, AreaRequested DEF SegNext
  <2>2. ASSUME NEW e \in Entries, mov_gs(Selector(e)) PROVE SegNext
    BY <2>2 DEF SegNext
  <2>3. ASSUME NEW sel \in Selectors, lsl_i(sel) \/ verr_i(sel) \/ verw_i(sel) PROVE SegNext
    BY <2>3 DEF SegNext
  <2>4. ASSUME NEW table \in GdtPlaces, lgdt_i(table) PROVE SegNext
    BY <2>4 DEF SegNext
  <2> QED
    BY <1>6, <2>1, <2>2, <2>3, <2>4 DEF SegmentStep
<1> QED
  BY <1>1, <1>2, <1>3, <1>4, <1>5, <1>6 DEF Next

\* The loader, the wrappers and the guest's structures in memory add nothing
\* to what the segments allow: a process implements the component, so all
\* that is proved of it holds in a process.
THEOREM ProcessUsesSegments == Spec => SegSpec
<1>1. Init => SegInit
  BY DEF Init
<1>2. [Next]_processVars => [SegNext]_segVars
  BY SegmentsStep DEF processVars
<1> QED
  BY <1>1, <1>2, PTL DEF Spec, SegSpec

\* In a process that is loaded, makes system calls, sets up areas from
\* structures in its memory and moves its table, every base comes back whole.
THEOREM ProcessSegmentBases == Spec => []SegmentBases
<1>1. SegTypeOK /\ SegmentBases => SegmentBases
  OBVIOUS
<1> QED
  BY <1>1, ProcessUsesSegments, SegmentBasesKept, PTL

\* The areas of a process stay apart.
THEOREM ProcessAreasApart == Spec => AreasApart
  BY ProcessUsesSegments, ThreadAreasApart, PTL

---------------------------------------------------------------------------
(* Pointers *)

\* A wrapper's entry agrees with its prototype: what is passed as an integer
\* is not a pointer there, and what may be passed as NULL may be NULL there.
Agrees(w, kinds) ==
  \A k \in DOMAIN kinds :
    \/ kinds[k] = HOST
    \/ kinds[k] = INT /\ k \notin Pointers(w)
    \/ kinds[k] = PTR /\ k \in Pointers(w) /\ <<w, k>> \notin Nullable
    \/ kinds[k] = OPT /\ k \in Pointers(w) /\ <<w, k>> \in Nullable

\* Every entry of every table agrees with its prototype.
LEMMA TablesAgree == \A t \in Tables : \A w \in DOMAIN t \ {"fchown", "mremap"} : Agrees(w, t[w])
<1> USE DEF Agrees, Pointers, INT, PTR, OPT, HOST, Nullable, First, Second, Third, Fourth, Fifth
<1>1. \A w \in DOMAIN Read \ {"fchown", "mremap"} : Agrees(w, Read[w])
  BY DEF Read
<1>2. \A w \in DOMAIN Map \ {"fchown", "mremap"} : Agrees(w, Map[w])
  BY DEF Map
<1>3. \A w \in DOMAIN Access \ {"fchown", "mremap"} : Agrees(w, Access[w])
  BY DEF Access
<1>4. \A w \in DOMAIN Dup \ {"fchown", "mremap"} : Agrees(w, Dup[w])
  BY DEF Dup
<1>5. \A w \in DOMAIN Fork \ {"fchown", "mremap"} : Agrees(w, Fork[w])
  BY DEF Fork
<1>6. \A w \in DOMAIN Kill \ {"fchown", "mremap"} : Agrees(w, Kill[w])
  BY DEF Kill
<1>7. \A w \in DOMAIN Truncate \ {"fchown", "mremap"} : Agrees(w, Truncate[w])
  BY DEF Truncate
<1>8. \A w \in DOMAIN Paths \ {"fchown", "mremap"} : Agrees(w, Paths[w])
  BY DEF Paths
<1>9. \A w \in DOMAIN Modes \ {"fchown", "mremap"} : Agrees(w, Modes[w])
  BY DEF Modes
<1>10. \A w \in DOMAIN Ids \ {"fchown", "mremap"} : Agrees(w, Ids[w])
  BY DEF Ids
<1>11. \A w \in DOMAIN MoreIds \ {"fchown", "mremap"} : Agrees(w, MoreIds[w])
  BY DEF MoreIds
<1>12. \A w \in DOMAIN Priorities \ {"fchown", "mremap"} : Agrees(w, Priorities[w])
  BY DEF Priorities
<1>13. \A w \in DOMAIN System \ {"fchown", "mremap"} : Agrees(w, System[w])
  BY DEF System
<1>14. \A w \in DOMAIN Tid \ {"fchown", "mremap"} : Agrees(w, Tid[w])
  BY DEF Tid
<1> HIDE DEF Agrees
<1> QED
  BY <1>1, <1>2, <1>3, <1>4, <1>5, <1>6, <1>7, <1>8, <1>9, <1>10, <1>11, <1>12, <1>13, <1>14 DEF Tables

\* The requests that are not made from a table.
Others == {"none", "immediate", "execve", "poll", "writev", "sysfs", "time", "ioctl", "rt_sigaction"}

LEMMA NotInATable == \A t \in Tables : DOMAIN t \cap (Others \cup {"open"}) = {}
<1>1. DOMAIN Read \cap (Others \cup {"open"}) = {}
  BY DEF Read, Others
<1>2. DOMAIN Map \cap (Others \cup {"open"}) = {}
  BY DEF Map, Others
<1>3. DOMAIN Access \cap (Others \cup {"open"}) = {}
  BY DEF Access, Others
<1>4. DOMAIN Dup \cap (Others \cup {"open"}) = {}
  BY DEF Dup, Others
<1>5. DOMAIN Fork \cap (Others \cup {"open"}) = {}
  BY DEF Fork, Others
<1>6. DOMAIN Kill \cap (Others \cup {"open"}) = {}
  BY DEF Kill, Others
<1>7. DOMAIN Truncate \cap (Others \cup {"open"}) = {}
  BY DEF Truncate, Others
<1>8. DOMAIN Paths \cap (Others \cup {"open"}) = {}
  BY DEF Paths, Others
<1>9. DOMAIN Modes \cap (Others \cup {"open"}) = {}
  BY DEF Modes, Others
<1>10. DOMAIN Ids \cap (Others \cup {"open"}) = {}
  BY DEF Ids, Others
<1>11. DOMAIN MoreIds \cap (Others \cup {"open"}) = {}
  BY DEF MoreIds, Others
<1>12. DOMAIN Priorities \cap (Others \cup {"open"}) = {}
  BY DEF Priorities, Others
<1>13. DOMAIN System \cap (Others \cup {"open"}) = {}
  BY DEF System, Others
<1>14. DOMAIN Tid \cap (Others \cup {"open"}) = {}
  BY DEF Tid, Others
<1> QED
  BY <1>1, <1>2, <1>3, <1>4, <1>5, <1>6, <1>7, <1>8, <1>9, <1>10, <1>11, <1>12, <1>13, <1>14 DEF Tables

\* The arguments of a request made for an entry that agrees.
LEMMA RequestTranslated ==
  ASSUME NEW w, w # "writev", NEW kinds, w \in Plain => Agrees(w, kinds), NEW a,
         host' = Request(w, kinds, a)
  PROVE  PointersTranslated'
<1>1. /\ host'.by = w /\ host'.regs = a /\ DOMAIN host'.args = DOMAIN kinds
      /\ \A k \in DOMAIN kinds : host'.args[k] = Argument(kinds[k], a[k])
  BY DEF Request
<1>2. ASSUME w \in Plain, NEW k \in DOMAIN kinds
      PROVE  LET arg == host'.args[k]
             IN \/ arg.base = "host"
                \/ /\ k \in Pointers(w)
                   /\ arg = IF <<w, k>> \in Nullable /\ a[k] = 0 THEN NULL ELSE Mem(a[k])
                \/ k \notin Pointers(w) /\ arg = Argument(INT, a[k])
  BY <1>1, <1>2 DEF Agrees, Argument, INT, PTR, OPT, HOST
<1> QED
  BY <1>1, <1>2 DEF PointersTranslated

\* A wrapper that is an entry of a table.
LEMMA ForwardTranslated ==
  ASSUME NEW w \in syscalls, NEW a, host' = Forwarded(w, a)
  PROVE  PointersTranslated'
<1> DEFINE t == CHOOSE t \in Tables : w \in DOMAIN t
<1>1. t \in Tables /\ w \in DOMAIN t
  BY DEF syscalls
<1>2. w # "writev" /\ w # "open"
  BY <1>1, NotInATable DEF Others
<1>3. w \in Plain => Agrees(w, t[w])
  BY <1>1, <1>2, TablesAgree DEF Plain
<1>4. host' = Request(w, t[w], a)
  BY DEF Forwarded, Passed
<1> HIDE DEF t
<1> QED
  BY <1>2, <1>3, <1>4, RequestTranslated

\* The wrappers that choose how to pass an argument: open agrees with its
\* prototype in both forms, the others are not plain.
LEMMA ChosenTranslated ==
  ASSUME NEW a, NEW class, NEW h, NEW r,
         \/ host' = do_open(a, CreatBit)
         \/ host' = do_sysfs(a)
         \/ host' = do_time(a)
         \/ host' = do_ioctl(class, a)
         \/ host' = do_rt_sigaction(a, h, r)
  PROVE  PointersTranslated'
<1>1. Agrees("open", <<PTR, INT, INT>>) /\ Agrees("open", <<PTR, INT>>)
  BY DEF Agrees, Pointers, INT, PTR, OPT, HOST, Nullable, First, Second, Third, Fourth, Fifth
<1>2. \A w \in Others : w \notin Plain
  BY NotInATable DEF Plain, syscalls, Others
<1>3. CASE host' = do_open(a, CreatBit)
  BY <1>1, <1>3, RequestTranslated DEF do_open
<1>4. CASE host' = do_sysfs(a)
  BY <1>2, <1>4, RequestTranslated DEF do_sysfs, Others
<1>5. CASE host' = do_time(a)
  BY <1>2, <1>5, RequestTranslated DEF do_time, Others
<1>6. CASE host' = do_ioctl(class, a)
  BY <1>2, <1>6, RequestTranslated DEF do_ioctl, Others
<1>7. CASE host' = do_rt_sigaction(a, h, r)
  <2>1. host'.by = "rt_sigaction"
    BY <1>7 DEF do_rt_sigaction, Request
  <2> QED
    BY <1>2, <2>1 DEF PointersTranslated, Others
<1> QED
  BY <1>3, <1>4, <1>5, <1>6, <1>7

\* The buffers that do_writev reads from the array in memory.
LEMMA WritevTranslated ==
  ASSUME NEW iovs \in Iovecs, Writev(iovs)
  PROVE  PointersTranslated'
<1> DEFINE n == Len(iovs)  words == Pairs(iovs)
<1>1. n \in Nat /\ iovs \in Seq(Addr \X Addr) /\ 8 * n <= N /\ N \in Nat /\ DOMAIN iovs = 1..n
  BY SpaceSize, ProcessAssumption DEF Addr
<1>2. words \in Seq(Addr) /\ Len(words) = 2 * n
  <2>1. \A k \in 1..(2 * n) : (k + 1) \div 2 \in 1..n
    BY <1>1
  <2>2. \A k \in 1..(2 * n) : words[k] \in Addr
    BY <1>1, <2>1 DEF Pairs
  <2>3. words = [k \in 1..(2 * n) |-> words[k]] /\ 2 * n \in Nat
    BY <1>1 DEF Pairs
  <2> HIDE DEF words
  <2> QED
    BY <2>2, <2>3
<1>3. ASSUME NEW i \in 1..n
      PROVE  words[2 * i - 1] = iovs[i][1] /\ words[2 * i] = iovs[i][2]
  <2>1. /\ 2 * i - 1 \in 1..(2 * n) /\ 2 * i \in 1..(2 * n)
        /\ (2 * i - 1 + 1) \div 2 = i /\ (2 * i + 1) \div 2 = i
        /\ (2 * i - 1) % 2 = 1 /\ (2 * i) % 2 # 1
    BY <1>1
  <2> QED
    BY <2>1 DEF Pairs
<1> HIDE DEF words
<1>4. ASSUME NEW i \in 1..n
      PROVE  /\ read32(Filled(words), At(Scratch, 8 * (i - 1))) = iovs[i][1]
             /\ read32(Filled(words), At(Scratch, (8 * (i - 1)) + 4)) = iovs[i][2]
  <2>1. /\ 2 * i - 1 \in 1..Len(words) /\ 2 * i \in 1..Len(words) /\ 4 * Len(words) <= N
        /\ 4 * ((2 * i - 1) - 1) = 8 * (i - 1) /\ 4 * ((2 * i) - 1) = (8 * (i - 1)) + 4
    BY <1>1, <1>2
  <2>2. read32(Filled(words), At(Scratch, 4 * ((2 * i - 1) - 1))) = words[2 * i - 1]
    BY <1>2, <2>1, FilledReads
  <2>3. read32(Filled(words), At(Scratch, 4 * ((2 * i) - 1))) = words[2 * i]
    BY <1>2, <2>1, FilledReads
  <2> QED
    BY <1>3, <2>1, <2>2, <2>3
<1>5. /\ host'.by = "writev" /\ host'.guest = iovs
      /\ host'.iovs = iovecs(Filled(words), Scratch, n)
  BY DEF Writev, words
<1>6. /\ DOMAIN host'.iovs = DOMAIN host'.guest
      /\ \A i \in DOMAIN host'.iovs :
           host'.iovs[i] = [base |-> Mem(host'.guest[i][1]), len |-> host'.guest[i][2]]
  BY <1>1, <1>4, <1>5 DEF iovecs
<1>7. "writev" \notin Plain
  BY NotInATable DEF Plain, syscalls, Others
<1> QED
  BY <1>5, <1>6, <1>7 DEF PointersTranslated

\* Whatever the registers of the guest, the operation of a wrapper and the
\* array passed to writev, no call reaches the host with an address of the
\* guest that was not translated or with a translated integer.
THEOREM PointersReachTheHost == Spec => []PointersTranslated
<1>1. \A w \in Others : w \notin Plain
  BY NotInATable DEF Plain, syscalls, Others
<1>2. Init => PointersTranslated
  BY <1>1 DEF Init, NoRequest, PointersTranslated, Others
<1>3. PointersTranslated /\ [Next]_processVars => PointersTranslated'
  <2> SUFFICES ASSUME PointersTranslated, [Next]_processVars PROVE PointersTranslated'
    OBVIOUS
  <2>1. CASE host' = host
    BY <2>1 DEF PointersTranslated
  <2>2. CASE Forward
    BY <2>2, ForwardTranslated DEF Forward, Makes
  <2>3. CASE Chosen
    BY <2>3, ChosenTranslated DEF Chosen, Makes
  <2>4. CASE Immediate
    <3>1. host'.by = "immediate"
      BY <2>4 DEF Immediate
    <3> QED
      BY <1>1, <3>1 DEF PointersTranslated, Others
  <2>5. CASE Execve
    <3>1. host'.by = "execve"
      BY <2>5 DEF Execve, do_execve
    <3> QED
      BY <1>1, <3>1 DEF PointersTranslated, Others
  <2>6. ASSUME NEW iovs \in Iovecs, Writev(iovs) PROVE PointersTranslated'
    BY <2>6, WritevTranslated
  <2>7. ASSUME NEW answers \in Answers, Poll(answers) PROVE PointersTranslated'
    <3>1. host'.by = "poll"
      BY <2>7 DEF Poll
    <3> QED
      BY <1>1, <3>1 DEF PointersTranslated, Others
  <2>8. CASE Start \/ Exit \/ SegmentStep
    <3>1. host' = host
      BY <2>8 DEF Start, Exit, SegmentStep
    <3> QED
      BY <2>1, <3>1
  <2>9. CASE UNCHANGED processVars
    BY <2>1, <2>9 DEF processVars
  <2> QED
    BY <2>2, <2>3, <2>4, <2>5, <2>6, <2>7, <2>8, <2>9 DEF Next
<1> QED
  BY <1>2, <1>3, PTL DEF Spec

---------------------------------------------------------------------------
(* Symbols *)

\* A set of natural numbers has a least element.
LEMMA LeastElement ==
  ASSUME NEW S, S \subseteq Nat, S # {}
  PROVE  \E n \in S : \A m \in S : n <= m
<1> DEFINE less == OpToRel(<, Nat)
<1>1. IsWellFoundedOn(less, Nat)
  BY NatLessThanWellFounded, Zenon
<1>2. \A x, y \in Nat : x < y => <<x, y>> \in less
  BY DEF OpToRel
<1> HIDE DEF less
<1>3. PICK x \in S : \A y \in S : ~(<<y, x>> \in less)
  BY <1>1, WFMin
<1>4. ASSUME NEW y \in S PROVE x <= y
  <2>1. x \in Nat /\ y \in Nat
    OBVIOUS
  <2>2. ~(y < x)
    BY <1>2, <1>3, <2>1
  <2> QED
    BY <2>1, <2>2
<1> QED
  BY <1>4

\* What holds before the first round and is kept by every round up to m.
LEMMA Counting ==
  ASSUME NEW m \in Nat, NEW A, 0 \in A, \A k \in 0..(m - 1) : k \in A => k + 1 \in A
  PROVE  \A k \in 0..m : k \in A
<1> DEFINE S == {k \in 0..m : k \notin A}
<1> SUFFICES ASSUME S # {} PROVE FALSE
  OBVIOUS
<1>1. PICK n \in S : \A k \in S : n <= k
  <2>1. S \subseteq Nat
    OBVIOUS
  <2> HIDE DEF S
  <2> QED
    BY <2>1, LeastElement
<1>2. n \in 0..m /\ n \notin A /\ n # 0
  OBVIOUS
<1>3. n - 1 \in 0..(m - 1) /\ n - 1 \in 0..m /\ ~(n <= n - 1) /\ (n - 1) + 1 = n
  BY <1>2
<1>4. n - 1 \in A
  BY <1>1, <1>3
<1> QED
  BY <1>2, <1>3, <1>4

\* Every round of a loop leads from a state of S to a state of S.
Closed(step, S, m) == \A x \in S, k \in 1..m : step[<<x, k>>] \in S

\* f has the state before the first round and after each of m rounds.
Runs(f, s, step, S, m) ==
  f \in [0..m -> S] /\ f[0] = s /\ \A k \in 1..m : f[k] = step[<<f[k - 1], k>>]

\* A loop of m rounds has a history: the state before and after every round.
LEMMA History ==
  ASSUME NEW m \in Nat, NEW S, NEW s \in S, NEW step, Closed(step, S, m)
  PROVE  \E f : Runs(f, s, step, S, m)
<1> DEFINE Good(f, k) == f[0] = s /\ \A j \in 1..k : f[j] = step[<<f[j - 1], j>>]
           A == {k \in 0..m : \E f \in [0..k -> S] : Good(f, k)}
<1>1. 0 \in A
  <2> DEFINE f == [j \in 0..0 |-> s]
  <2>1. f \in [0..0 -> S] /\ f[0] = s /\ 1..0 = {} /\ 0 \in 0..m
    OBVIOUS
  <2> HIDE DEF f
  <2> QED
    BY <2>1
<1>2. ASSUME NEW k \in 0..(m - 1), k \in A PROVE k + 1 \in A
  <2>1. PICK f \in [0..k -> S] : Good(f, k)
    BY <1>2
  <2> DEFINE g == [j \in 0..(k + 1) |-> IF j <= k THEN f[j] ELSE step[<<f[k], k + 1>>]]
  <2>2. /\ k \in 0..k /\ k + 1 \in 1..m /\ k + 1 \in 0..m /\ ~(k + 1 <= k) /\ 0 <= k
        /\ \A j \in 0..(k + 1) : j <= k => j \in 0..k
        /\ 0 \in 0..(k + 1) /\ k + 1 \in 0..(k + 1) /\ k \in 0..(k + 1)
    OBVIOUS
  <2>3. step[<<f[k], k + 1>>] \in S
    BY <2>2 DEF Closed
  <2>4. g \in [0..(k + 1) -> S]
    BY <2>2, <2>3
  <2>5. g[0] = s
    BY <2>1, <2>2
  <2>6. ASSUME NEW j \in 1..(k + 1) PROVE g[j] = step[<<g[j - 1], j>>]
    <3>1. j - 1 \in 0..(k + 1) /\ j - 1 <= k /\ j \in 0..(k + 1)
      OBVIOUS
    <3>2. g[j - 1] = f[j - 1]
      BY <3>1
    <3>3. CASE j <= k
      <4>1. j \in 1..k
        BY <3>3
      <4> QED
        BY <2>1, <3>1, <3>2, <3>3, <4>1
    <3>4. CASE ~(j <= k)
      <4>1. j = k + 1 /\ j - 1 = k
        BY <3>4
      <4>2. g[k + 1] = step[<<f[k], k + 1>>]
        BY <2>2
      <4> HIDE DEF g
      <4> QED
        BY <3>2, <4>1, <4>2
    <3> QED
      BY <3>3, <3>4
  <2> HIDE DEF g
  <2> QED
    BY <2>2, <2>4, <2>5, <2>6
<1> HIDE DEF A
<1>3. m \in A
  BY <1>1, <1>2, Counting
<1> QED
  BY <1>3 DEF A, Runs

\* What the loader keeps of a symbol.
Listed == [name : STRING, value : Addr]

\* The elements i and j change places.
Swap(s, i, j) == [s EXCEPT ![i] = s[j], ![j] = s[i]]

\* One round: the first of the smallest from i on exists, and changes places
\* with i.
LEMMA Exchanged ==
  ASSUME NEW s \in Seq(Listed), NEW i \in 1..Len(s)
  PROVE  \E j \in i..Len(s) : /\ \A k \in i..Len(s) : s[j].value <= s[k].value
                              /\ Exchange(s, i) = Swap(s, i, j)
<1> DEFINE n == Len(s)
           Smallest(j) == \A k \in i..n : s[j].value <= s[k].value
           Foremost(j) == \A k \in i..(j - 1) : s[k].value > s[j].value
<1>1. n \in Nat /\ i \in Nat /\ i <= n /\ i..n \subseteq 1..n
  OBVIOUS
<1>2. \A k \in i..n : s[k].value \in Nat
  <2>1. \A k \in i..n : s[k] \in Listed
    BY <1>1
  <2>2. \A r \in Listed : r.value \in Nat
    BY SpaceSize DEF Listed, Addr
  <2> QED
    BY <2>1, <2>2
<1>3. PICK k \in i..n : Smallest(k)
  <2> DEFINE V == {s[k].value : k \in i..n}
  <2>1. V \subseteq Nat /\ i \in i..n
    BY <1>1, <1>2
  <2>2. V # {}
    BY <2>1
  <2> HIDE DEF V
  <2>3. PICK v \in V : \A u \in V : v <= u
    BY <2>1, <2>2, LeastElement
  <2> QED
    BY <2>3 DEF V
<1>4. PICK j \in i..n : Smallest(j) /\ \A l \in i..n : Smallest(l) => j <= l
  <2> DEFINE W == {l \in i..n : Smallest(l)}
  <2>1. W \subseteq Nat /\ W # {}
    BY <1>1, <1>3
  <2> HIDE DEF W
  <2>2. PICK j \in W : \A l \in W : j <= l
    BY <2>1, LeastElement
  <2> QED
    BY <2>2 DEF W
<1>5. Foremost(j)
  <2> SUFFICES ASSUME NEW l \in i..(j - 1) PROVE s[l].value > s[j].value
    OBVIOUS
  <2>1. l \in i..n /\ ~(j <= l) /\ j \in i..n
    BY <1>1
  <2>2. PICK q \in i..n : ~(s[l].value <= s[q].value)
    BY <1>4, <2>1
  <2>3. s[j].value <= s[q].value /\ s[l].value \in Nat /\ s[j].value \in Nat /\ s[q].value \in Nat
    BY <1>2, <1>4, <2>1
  <2> QED
    BY <2>2, <2>3
<1> DEFINE c == CHOOSE x \in i..n : Smallest(x) /\ Foremost(x)
<1>6. c \in i..n /\ Smallest(c) /\ Foremost(c)
  BY <1>4, <1>5
<1>7. Exchange(s, i) = Swap(s, i, c)
  BY DEF Exchange, Swap
<1> HIDE DEF c
<1> QED
  BY <1>6, <1>7

\* How often y is in a list.
Count(s, y) == Cardinality({i \in DOMAIN s : s[i] = y})

\* Two elements that change places: nothing is lost or doubled.
LEMMA SwapCounts ==
  ASSUME NEW s \in Seq(Listed), NEW i \in 1..Len(s), NEW j \in 1..Len(s)
  PROVE  /\ Swap(s, i, j) \in Seq(Listed) /\ Len(Swap(s, i, j)) = Len(s)
         /\ \A y : Count(Swap(s, i, j), y) = Count(s, y)
<1> SUFFICES ASSUME NEW y
             PROVE  /\ Swap(s, i, j) \in Seq(Listed) /\ Len(Swap(s, i, j)) = Len(s)
                    /\ Count(Swap(s, i, j), y) = Count(s, y)
  OBVIOUS
<1> DEFINE n == Len(s)
           t == Swap(s, i, j)
           Other(k) == IF k = i THEN j ELSE IF k = j THEN i ELSE k
           S == {k \in DOMAIN s : s[k] = y}
           T == {k \in DOMAIN t : t[k] = y}
           f == [k \in S |-> Other(k)]
<1>1. n \in Nat /\ DOMAIN s = 1..n /\ DOMAIN t = 1..n /\ t \in [1..n -> Listed]
  BY DEF Swap
<1>2. t \in Seq(Listed) /\ Len(t) = n
  BY <1>1
<1>3. \A k \in 1..n : t[k] = s[Other(k)] /\ Other(k) \in 1..n /\ Other(Other(k)) = k
  BY <1>1 DEF Swap
<1>4. f \in [S -> T]
  BY <1>1, <1>3
<1>5. \A k, l \in S : f[k] = f[l] => k = l
  BY <1>1, <1>3
<1>6. \A l \in T : \E k \in S : f[k] = l
  <2> SUFFICES ASSUME NEW l \in T PROVE \E k \in S : f[k] = l
    OBVIOUS
  <2>1. Other(l) \in S /\ f[Other(l)] = l
    BY <1>1, <1>3
  <2> QED
    BY <2>1
<1>7. IsFiniteSet(S)
  <2>1. IsFiniteSet(1..n)
    BY <1>1, FS_Interval
  <2> QED
    BY <1>1, <2>1, FS_Subset
<1> HIDE DEF f, S, T
<1>8. ExistsBijection(S, T)
  BY <1>4, <1>5, <1>6 DEF ExistsBijection, Bijection, Injection, Surjection, IsInjective
<1>9. Cardinality(T) = Cardinality(S)
  BY <1>7, <1>8, FS_Bijection
<1> QED
  BY <1>2, <1>9 DEF Count, S, T

\* The first k addresses are in order, and none behind them is smaller.
Placed(t, k) == \A i \in 1..k, j \in 1..Len(t) : i < j => t[i].value <= t[j].value

\* A round puts one more address in its place.
LEMMA RoundPlaces ==
  ASSUME NEW t \in Seq(Listed), NEW k \in 0..(Len(t) - 1), Placed(t, k)
  PROVE  LET u == Exchange(t, k + 1)
         IN /\ u \in Seq(Listed) /\ Len(u) = Len(t) /\ Placed(u, k + 1)
            /\ \A y : Count(u, y) = Count(t, y)
<1> DEFINE n == Len(t)  a == k + 1  u == Exchange(t, a)
<1>1. n \in Nat /\ a \in 1..n /\ DOMAIN t = 1..n
  OBVIOUS
<1>2. PICK j \in a..n : /\ \A l \in a..n : t[j].value <= t[l].value
                        /\ u = Swap(t, a, j)
  <2> HIDE DEF a
  <2> QED
    BY <1>1, Exchanged
<1>3. j \in 1..n
  BY <1>1
<1>4. u \in Seq(Listed) /\ Len(u) = n /\ \A y : Count(u, y) = Count(t, y)
  <2> HIDE DEF a, u
  <2> QED
    BY <1>1, <1>2, <1>3, SwapCounts
<1>5. /\ u[a] = t[j]
      /\ \A l \in 1..n : l < a => u[l] = t[l]
      /\ \A l \in a..n : \E q \in a..n : u[l] = t[q]
  <2>1. \A l \in 1..n : u[l] = IF l = j THEN t[a] ELSE IF l = a THEN t[j] ELSE t[l]
    BY <1>1, <1>2, <1>3 DEF Swap
  <2>2. a \in a..n /\ a..n \subseteq 1..n
    BY <1>1
  <2> HIDE DEF u
  <2> QED
    BY <1>1, <1>3, <2>1, <2>2
<1> HIDE DEF u
<1>6. ASSUME NEW i \in 1..a, NEW l \in 1..n, i < l PROVE u[i].value <= u[l].value
  <2>1. CASE i = a
    <3>1. l \in a..n
      BY <2>1, <1>6
    <3> QED
      BY <1>2, <1>5, <2>1, <3>1
  <2>2. CASE i # a /\ l < a
    <3>1. i \in 1..k /\ i \in 1..n /\ i < a
      BY <2>2, <1>1
    <3> QED
      BY <1>5, <1>6, <2>2, <3>1 DEF Placed
  <2>3. CASE i # a /\ ~(l < a)
    <3>1. i \in 1..k /\ i \in 1..n /\ i < a /\ l \in a..n
      BY <2>3, <1>1
    <3>2. PICK q \in a..n : u[l] = t[q]
      BY <1>5, <3>1
    <3>3. q \in 1..n /\ i < q
      BY <1>1, <3>1
    <3> QED
      BY <1>5, <3>1, <3>2, <3>3 DEF Placed
  <2> QED
    BY <2>1, <2>2, <2>3
<1>7. Placed(u, a)
  BY <1>4, <1>6 DEF Placed
<1> QED
  BY <1>4, <1>7 DEF u

\* The selection sort sorts: the addresses are in order, and every symbol is
\* there as often as before.
LEMMA SortSorts ==
  ASSUME NEW s \in Seq(Listed)
  PROVE  LET t == Sort(s)
         IN /\ t \in Seq(Listed) /\ Len(t) = Len(s)
            /\ \A i, j \in DOMAIN t : i < j => t[i].value <= t[j].value
            /\ \A y : Count(t, y) = Count(s, y)
<1> DEFINE n == Len(s)
           S == {t \in Seq(Listed) : Len(t) = n}
           step == [x \in S \X (1..n) |-> Exchange(x[1], x[2])]
           round == CHOOSE f : f = [k \in 0..n |-> IF k = 0 THEN s ELSE Exchange(f[k - 1], k)]
<1>1. n \in Nat /\ s \in S
  OBVIOUS
<1>2. round = [k \in 0..n |-> IF k = 0 THEN s ELSE Exchange(round[k - 1], k)]
  <2>1. ASSUME NEW t \in S, NEW k \in 1..n PROVE Exchange(t, k) \in S
    <3>1. PICK j \in k..n : Exchange(t, k) = Swap(t, k, j)
      BY Exchanged
    <3>2. j \in 1..n
      BY <1>1
    <3> QED
      BY <3>1, <3>2, SwapCounts
  <2>2. \A t \in S, k \in 1..n : step[<<t, k>>] = Exchange(t, k) /\ step[<<t, k>>] \in S
    BY <2>1
  <2> HIDE DEF S, step
  <2>3. PICK f : Runs(f, s, step, S, n)
    <3>1. Closed(step, S, n)
      BY <2>2 DEF Closed
    <3> HIDE DEF n, round
    <3> QED
      BY <1>1, <3>1, History
  <2>4. \A k \in 1..n : f[k] = Exchange(f[k - 1], k)
    <3> SUFFICES ASSUME NEW k \in 1..n PROVE f[k] = Exchange(f[k - 1], k)
      OBVIOUS
    <3>1. k - 1 \in 0..n
      BY <1>1
    <3> QED
      BY <2>2, <2>3, <3>1 DEF Runs
  <2>5. f = [k \in 0..n |-> IF k = 0 THEN s ELSE Exchange(f[k - 1], k)]
    <3>1. \A k \in 0..n : f[k] = IF k = 0 THEN s ELSE Exchange(f[k - 1], k)
      BY <1>1, <2>3, <2>4 DEF Runs
    <3> QED
      BY <2>3, <3>1 DEF Runs
  <2> QED
    BY <2>5
<1>3. Sort(s) = round[IF s = <<>> THEN 0 ELSE n - 1]
  BY DEF Sort
<1> HIDE DEF round, step
<1>4. round[0] = s /\ \A k \in 0..(n - 1) : round[k + 1] = Exchange(round[k], k + 1)
  <2>1. round[0] = s
    BY <1>1, <1>2
  <2>2. ASSUME NEW k \in 0..(n - 1) PROVE round[k + 1] = Exchange(round[k], k + 1)
    <3>1. k + 1 \in 0..n /\ k + 1 # 0 /\ (k + 1) - 1 = k
      BY <1>1
    <3> QED
      BY <1>2, <3>1
  <2> QED
    BY <2>1, <2>2
<1> DEFINE Good(t, k) == /\ t \in Seq(Listed) /\ Len(t) = n /\ Placed(t, k)
                         /\ \A y : Count(t, y) = Count(s, y)
           A == {k \in 0..n : Good(round[k], k)}
<1>5. 0 \in A
  <2>1. Placed(s, 0) /\ 0 \in 0..n
    BY <1>1 DEF Placed
  <2> QED
    BY <1>1, <1>4, <2>1
<1>6. ASSUME NEW k \in 0..(n - 1), k \in A PROVE k + 1 \in A
  <2>1. Good(round[k], k)
    BY <1>6
  <2> DEFINE t == round[k]
  <2>2. k \in 0..(Len(t) - 1) /\ k + 1 \in 0..n
    BY <1>1, <2>1
  <2> HIDE DEF t
  <2>3. t \in Seq(Listed) /\ Len(t) = n /\ Placed(t, k) /\ \A y : Count(t, y) = Count(s, y)
    BY <2>1 DEF t
  <2>4. Good(Exchange(t, k + 1), k + 1)
    BY <2>2, <2>3, RoundPlaces
  <2> QED
    BY <1>4, <2>2, <2>4 DEF t
<1> HIDE DEF A
<1>7. \A k \in 0..n : k \in A
  BY <1>1, <1>5, <1>6, Counting
<1> DEFINE K == IF s = <<>> THEN 0 ELSE n - 1
<1>8. K \in 0..n /\ n <= K + 1
  <2>1. s = <<>> <=> n = 0
    OBVIOUS
  <2> QED
    BY <1>1, <2>1
<1> HIDE DEF K
<1>9. Good(round[K], K)
  BY <1>7, <1>8 DEF A
<1>10. Sort(s) = round[K]
  BY <1>3 DEF K
<1> DEFINE t == Sort(s)
<1>11. t \in Seq(Listed) /\ Len(t) = n /\ Placed(t, K) /\ \A y : Count(t, y) = Count(s, y)
  BY <1>9, <1>10
<1> HIDE DEF t
<1>12. ASSUME NEW i \in DOMAIN t, NEW j \in DOMAIN t, i < j PROVE t[i].value <= t[j].value
  <2>1. i \in 1..n /\ j \in 1..n
    BY <1>11
  <2>2. i \in 1..K
    BY <1>1, <1>8, <1>12, <2>1
  <2> QED
    BY <1>11, <1>12, <2>1, <2>2 DEF Placed
<1> QED
  BY <1>11, <1>12 DEF t

\* A file with a symbol table has a last one.
LEMMA SymtabListed ==
  ASSUME NEW elf \in Files, elf.kind = "ELF32",
         \E i \in DOMAIN elf.shdrs : elf.shdrs[i].type = "SYMTAB"
  PROVE  Symtab(elf) \in Seq(ElfSymbol)
<1> DEFINE n == Len(elf.shdrs)
           T == {i \in DOMAIN elf.shdrs : elf.shdrs[i].type = "SYMTAB"}
           D == {n - i : i \in T}
<1>1. elf.shdrs \in Seq(ElfSection) /\ n \in Nat /\ T \subseteq 1..n /\ T # {}
  BY LoaderAssumption DEF ValidElf
<1> HIDE DEF T
<1>2. D \subseteq Nat /\ D # {}
  <2>1. ASSUME NEW i \in T PROVE n - i \in Nat
    <3>1. i \in 1..n /\ n \in Nat
      BY <1>1
    <3> HIDE DEF n
    <3> QED
      BY <3>1
  <2>2. PICK i : i \in T
    BY <1>1
  <2>3. n - i \in D
    BY <2>2
  <2> QED
    BY <2>1, <2>3
<1>3. PICK d \in D : \A c \in D : d <= c
  <2> HIDE DEF D
  <2> QED
    BY <1>2, LeastElement
<1>4. PICK i \in T : d = n - i
  OBVIOUS
<1>5. \A j \in T : i >= j
  <2> SUFFICES ASSUME NEW j \in T PROVE i >= j
    OBVIOUS
  <2>1. d <= n - j
    BY <1>3
  <2>2. i \in 1..n /\ j \in 1..n
    BY <1>1
  <2> HIDE DEF n
  <2> QED
    BY <1>1, <1>4, <2>1, <2>2
<1>6. Max(T) \in T
  BY <1>4, <1>5 DEF Max
<1>7. elf.shdrs[Max(T)] \in ElfSection
  <2> DEFINE q == elf.shdrs  m == Max(T)
  <2>1. m \in 1..n
    BY <1>1, <1>6
  <2> HIDE DEF q, m
  <2>2. q \in Seq(ElfSection) /\ m \in 1..Len(q)
    BY <1>1, <2>1 DEF q
  <2>3. q[m] \in ElfSection
    BY <2>2
  <2> QED
    BY <2>3 DEF q, m
<1>8. \A h \in ElfSection : h.syms \in Seq(ElfSymbol)
  BY DEF ElfSection
<1>9. Symtab(elf) = elf.shdrs[Max(T)].syms
  BY DEF Symtab, T
<1> QED
  BY <1>7, <1>8, <1>9

\* The symbols found are a list of names and addresses.
LEMMA WantedListed ==
  ASSUME NEW elf \in Files, elf.kind = "ELF32", NEW bits,
         \E i \in DOMAIN elf.shdrs : elf.shdrs[i].type = "SYMTAB"
  PROVE  Wanted(elf, bits) \in Seq(Listed)
<1> DEFINE syms == Symtab(elf)
           n == Len(syms)
           S == Seq(Listed)
           Keep(y) == \/ y.type = "FUNC"
                      \/ y.type = "NOTYPE" /\ y.value >= bits[1] /\ y.value <= bits[2]
           More(t, k) == IF Keep(syms[k])
                         THEN Append(t, [name |-> syms[k].name, value |-> syms[k].value]) ELSE t
           step == [x \in S \X (1..n) |-> More(x[1], x[2])]
           found == CHOOSE f : f = [k \in 0..n |-> IF k = 0 THEN <<>> ELSE More(f[k - 1], k)]
<1>1. syms \in Seq(ElfSymbol) /\ n \in Nat
  BY SymtabListed
<1>2. Wanted(elf, bits) = found[n]
  <2>1. found = CHOOSE f : f = [k \in 0..n |->
                   IF k = 0 THEN <<>>
                   ELSE IF Keep(syms[k])
                        THEN Append(f[k - 1], [name |-> syms[k].name, value |-> syms[k].value])
                        ELSE f[k - 1]]
    OBVIOUS
  <2> QED
    BY <2>1 DEF Wanted
<1> HIDE DEF syms, Keep
<1>3. ASSUME NEW t \in S, NEW k \in 1..n PROVE More(t, k) \in S
  <2>1. syms[k] \in ElfSymbol
    BY <1>1
  <2>2. [name |-> syms[k].name, value |-> syms[k].value] \in Listed
    BY <2>1 DEF ElfSymbol, Listed
  <2> QED
    BY <2>2
<1>4. \A t \in S, k \in 1..n : step[<<t, k>>] = More(t, k)
  OBVIOUS
<1>5. <<>> \in S
  OBVIOUS
<1> HIDE DEF S, step, n, More
<1>6. Closed(step, S, n)
  BY <1>3, <1>4 DEF Closed
<1>7. PICK f : Runs(f, <<>>, step, S, n)
  <2> HIDE DEF found
  <2> QED
    BY <1>1, <1>5, <1>6, History
<1>8. f = [k \in 0..n |-> IF k = 0 THEN <<>> ELSE More(f[k - 1], k)]
  <2>1. \A k \in 1..n : k - 1 \in 0..n
    BY <1>1
  <2>2. \A k \in 1..n : f[k] = More(f[k - 1], k)
    BY <1>4, <1>7, <2>1 DEF Runs
  <2>3. \A k \in 0..n : f[k] = IF k = 0 THEN <<>> ELSE More(f[k - 1], k)
    BY <1>1, <1>7, <2>2 DEF Runs
  <2> QED
    BY <1>7, <2>3 DEF Runs
<1>9. found = [k \in 0..n |-> IF k = 0 THEN <<>> ELSE More(found[k - 1], k)]
  BY <1>8
<1> HIDE DEF found
<1> DEFINE A == {k \in 0..n : found[k] \in S}
<1>10. 0 \in A
  BY <1>1, <1>5, <1>9
<1>11. ASSUME NEW k \in 0..(n - 1), k \in A PROVE k + 1 \in A
  <2>1. k + 1 \in 0..n /\ k + 1 \in 1..n /\ k + 1 # 0 /\ (k + 1) - 1 = k
    BY <1>1
  <2>2. found[k + 1] = More(found[k], k + 1)
    BY <1>9, <2>1
  <2> QED
    BY <1>3, <1>11, <2>1, <2>2
<1> HIDE DEF A
<1>12. n \in A
  <2>1. n \in 0..n
    BY <1>1
  <2> QED
    BY <1>1, <1>10, <1>11, <2>1, Counting
<1> QED
  BY <1>2, <1>12 DEF A, S

\* SymbolsSorted with what main starts from.
SymbolsInv ==
  /\ SymbolsSorted
  /\ status = "start" => given = [line |-> <<>>, file |-> <<>>, auxv |-> <<>>, bits |-> <<>>]

LEMMA MainSortsSymbols ==
  ASSUME NEW c \in CommandLines, main(c), SymbolsInv
  PROVE  SymbolsInv'
<1>1. given = [line |-> <<>>, file |-> <<>>, auxv |-> <<>>, bits |-> <<>>]
  BY DEF main, SymbolsInv
<1>2. ASSUME NEW how, how \notin {"start", "running"}, Ended(c, how) PROVE SymbolsInv'
  BY <1>2 DEF Ended, SymbolsInv, SymbolsSorted
<1>3. CASE Refused(c)
  BY <1>3 DEF Refused, SymbolsInv, SymbolsSorted
<1>4. ASSUME NEW file, NEW n, ShortRead(c, file, n) PROVE SymbolsInv'
  BY <1>4 DEF ShortRead, SymbolsInv, SymbolsSorted
<1>5. ASSUME NEW file, c.mode \in RawModes, read_raw_file(c, file) PROVE SymbolsInv'
  <2>1. status' = "running" /\ given'.line.mode # "-ie"
    BY <1>1, <1>5 DEF read_raw_file, RawModes
  <2> QED
    BY <2>1 DEF SymbolsInv, SymbolsSorted
<1>6. ASSUME NEW elf \in Files, NEW auxv, NEW garbage, read_elf_file(c, elf, auxv, garbage)
      PROVE  SymbolsInv'
  <2> DEFINE bits == progbits(elf, garbage)
             all == Wanted(elf, bits)
  <2>1. status' = "running" /\ given'.line = c /\ given'.file = elf /\ given'.bits = bits
    BY <1>6 DEF read_elf_file
  <2>2. CASE c.mode = "-ie"
    <3>1. elf.kind = "ELF32" /\ \E i \in DOMAIN elf.shdrs : elf.shdrs[i].type = "SYMTAB"
      BY <1>6, <2>2 DEF read_elf_file
    <3>2. symbols' = Sort(all)
      BY <1>6, <2>2 DEF read_elf_file
    <3> HIDE DEF bits
    <3>3. all \in Seq(Listed)
      BY <3>1, WantedListed
    <3> HIDE DEF all
    <3>4. /\ Len(symbols') = Len(all)
          /\ \A i, j \in DOMAIN symbols' : i < j => symbols'[i].value <= symbols'[j].value
          /\ \A y : Count(symbols', y) = Count(all, y)
      BY <3>2, <3>3, SortSorts
    <3>5. SymbolsSorted'
      BY <2>1, <3>4 DEF SymbolsSorted, Count, all
    <3> QED
      BY <2>1, <3>5 DEF SymbolsInv
  <2>3. CASE c.mode # "-ie"
    BY <2>1, <2>3 DEF SymbolsInv, SymbolsSorted
  <2> QED
    BY <2>2, <2>3
<1> QED
  BY <1>2, <1>3, <1>4, <1>5, <1>6 DEF main

\* For every file, symbol table and range of addresses, the list of symbols
\* the debugger gets is sorted and has lost, doubled or renamed none, and
\* nothing the guest does later changes it.
THEOREM SymbolListSorted == Spec => []SymbolsSorted
<1>1. Init => SymbolsInv
  BY DEF Init, LoaderInit, SymbolsInv, SymbolsSorted
<1>2. SymbolsInv /\ [Next]_processVars => SymbolsInv'
  <2> SUFFICES ASSUME SymbolsInv, [Next]_processVars PROVE SymbolsInv'
    OBVIOUS
  <2>1. CASE Start
    BY <2>1, MainSortsSymbols DEF Start
  <2>2. ASSUME status' = status /\ given' = given /\ symbols' = symbols PROVE SymbolsInv'
    BY <2>2 DEF SymbolsInv, SymbolsSorted
  <2>3. CASE Exit
    BY <2>3 DEF Exit, SymbolsInv, SymbolsSorted
  <2>4. CASE Forward \/ Chosen
    BY <2>2, <2>4 DEF Forward, Chosen, Makes, loaderVars
  <2>5. CASE Immediate \/ Execve
    BY <2>2, <2>5 DEF Immediate, Execve, loaderVars
  <2>6. ASSUME NEW iovs \in Iovecs, Writev(iovs) PROVE SymbolsInv'
    BY <2>2, <2>6 DEF Writev
  <2>7. ASSUME NEW answers \in Answers, Poll(answers) PROVE SymbolsInv'
    BY <2>2, <2>7 DEF Poll
  <2>8. CASE SegmentStep
    BY <2>2, <2>8 DEF SegmentStep, loaderVars
  <2>9. CASE UNCHANGED processVars
    BY <2>2, <2>9 DEF processVars, loaderVars
  <2> QED
    BY <2>1, <2>3, <2>4, <2>5, <2>6, <2>7, <2>8, <2>9 DEF Next
<1>3. SymbolsInv => SymbolsSorted
  BY DEF SymbolsInv
<1> QED
  BY <1>1, <1>2, <1>3, PTL DEF Spec

---------------------------------------------------------------------------
(* The stack of a new guest *)

\* What load_stack works on.
Stack == [mem : [Addr -> Byte], esp : Addr, ptrs : Seq(Addr)]

\* Two memories agree from an address up.
SameFrom(m, w, lo) == \A x \in Addr : x >= lo => w[x] = m[x]

\* t is s with n bytes pushed: nothing outside of them is written.
Grown(s, t, n) ==
  /\ t \in Stack /\ t.esp = s.esp - n
  /\ \A x \in Addr : x < t.esp \/ x >= s.esp => t.mem[x] = s.mem[x]

\* A string with its zero lies at p, below the end of memory.
Holds(m, p, str) ==
  /\ p \in Addr /\ p + Len(str) < N
  /\ \A k \in 1..Len(str) : m[p + k - 1] = str[k]
  /\ m[p + Len(str)] = 0

\* The words at a, one after the other.
WordsAt(m, a, words) == \A i \in 1..Len(words) : read32(m, a + 4 * (i - 1)) = words[i]

\* Pushing twice.
LEMMA GrownTwice ==
  ASSUME NEW s \in Stack, NEW t, NEW u, NEW n \in Nat, NEW k \in Nat, Grown(s, t, n), Grown(t, u, k)
  PROVE  Grown(s, u, n + k) /\ SameFrom(s.mem, u.mem, s.esp) /\ SameFrom(t.mem, u.mem, t.esp)
<1>1. s.esp \in Nat /\ t.esp \in Nat /\ u.esp \in Nat /\ u \in Stack /\ \A x \in Addr : x \in Nat
  BY SpaceSize DEF Stack, Grown, Addr
<1>2. t.esp = s.esp - n /\ u.esp = t.esp - k
  BY DEF Grown
<1>3. u.esp = s.esp - (n + k)
  BY <1>1, <1>2
<1>4. ASSUME NEW x \in Addr, x < u.esp \/ x >= s.esp PROVE u.mem[x] = s.mem[x]
  <2>1. (x < u.esp \/ x >= t.esp) /\ (x < t.esp \/ x >= s.esp)
    BY <1>1, <1>2, <1>4
  <2>2. u.mem[x] = t.mem[x]
    BY <2>1 DEF Grown
  <2>3. t.mem[x] = s.mem[x]
    BY <2>1 DEF Grown
  <2> QED
    BY <2>2, <2>3
<1> QED
  BY <1>1, <1>3, <1>4 DEF Grown, SameFrom

\* What was on the stack before is still there.
LEMMA GrownSame ==
  ASSUME NEW s, NEW t, NEW n, Grown(s, t, n)
  PROVE  SameFrom(s.mem, t.mem, s.esp)
  BY DEF Grown, SameFrom

\* A word above every write.
LEMMA SameWord ==
  ASSUME NEW m, NEW w, NEW lo \in Nat, SameFrom(m, w, lo), NEW a \in Nat, a >= lo, a + 3 < N
  PROVE  read32(w, a) = read32(m, a)
<1>1. a \in Addr /\ N \in Nat
  BY SpaceSize DEF Addr
<1>2. \A x \in Range4(a) : x \in Addr /\ x >= lo
  BY <1>1, RangeNoWrap DEF Addr
<1> QED
  BY <1>2, SameBytes DEF SameFrom

\* A string above every write.
LEMMA SameString ==
  ASSUME NEW m, NEW w, NEW lo \in Nat, SameFrom(m, w, lo), NEW str \in Seq(Byte), NEW p,
         Holds(m, p, str), p >= lo
  PROVE  Holds(w, p, str)
<1> DEFINE n == Len(str)
<1>1. p \in Nat /\ n \in Nat /\ N \in Nat /\ p + n < N
  BY SpaceSize DEF Holds, Addr
<1>2. \A k \in 1..(n + 1) : p + k - 1 \in Addr /\ p + k - 1 >= lo
  BY <1>1 DEF Addr
<1>3. \A k \in 1..(n + 1) : w[p + k - 1] = m[p + k - 1]
  BY <1>2 DEF SameFrom
<1>4. \A k \in 1..n : k \in 1..(n + 1)
  BY <1>1
<1>5. n + 1 \in 1..(n + 1) /\ p + (n + 1) - 1 = p + n
  BY <1>1
<1> QED
  BY <1>3, <1>4, <1>5 DEF Holds

\* Subtraction of addresses.
LEMMA BelowValue ==
  ASSUME NEW a \in Addr, NEW b \in Addr
  PROVE  Below(a, b) = IF a >= b THEN a - b ELSE a - b + N
<1> DEFINE y == a + N - b
<1>1. N \in Nat /\ a \in Nat /\ b \in Nat /\ y \in Nat /\ y < N + N
      /\ (a >= b <=> y >= N) /\ y - N = a - b /\ y = a - b + N
  BY SpaceSize DEF Addr
<1> HIDE DEF y
<1>2. y % N = IF y < N THEN y ELSE y - N
  BY <1>1
<1> QED
  BY <1>1, <1>2 DEF Below, y

\* Bytes that are copied lie from a up, and nothing else is written.
LEMMA BytesCopied ==
  ASSUME NEW m \in [Addr -> Byte], NEW a \in Addr, NEW bytes \in Seq(Byte), a + Len(bytes) <= N
  PROVE  LET w == memcpy(m, a, bytes)
         IN /\ \A x \in Addr : x < a \/ x >= a + Len(bytes) => w[x] = m[x]
            /\ \A k \in 1..Len(bytes) : w[a + k - 1] = bytes[k]
<1> DEFINE n == Len(bytes)  w == memcpy(m, a, bytes)
<1>1. n \in Nat /\ a \in Nat /\ N \in Nat
  BY SpaceSize DEF Addr
<1>2. ASSUME NEW x \in Addr
      PROVE  /\ x < a \/ x >= a + n => w[x] = m[x]
             /\ x >= a /\ x < a + n => w[x] = bytes[x - a + 1]
  <2>1. Below(x, a) = IF x >= a THEN x - a ELSE x - a + N
    BY BelowValue
  <2>2. x \in Nat /\ x < N
    BY <1>1 DEF Addr
  <2>3. Below(x, a) < n <=> (x >= a /\ x < a + n)
    BY <1>1, <2>1, <2>2
  <2> QED
    BY <1>1, <2>1, <2>2, <2>3 DEF memcpy
<1>3. \A k \in 1..n : a + k - 1 \in Addr /\ a + k - 1 >= a /\ a + k - 1 < a + n /\ (a + k - 1) - a + 1 = k
  BY <1>1 DEF Addr
<1>4. \A k \in 1..n : w[a + k - 1] = bytes[k]
  BY <1>2, <1>3
<1> QED
  BY <1>2, <1>4

\* Copying keeps memory a function from addresses to bytes, also where it wraps.
LEMMA CopyType ==
  ASSUME NEW m \in [Addr -> Byte], NEW a \in Addr, NEW bytes \in Seq(Byte)
  PROVE  memcpy(m, a, bytes) \in [Addr -> Byte]
<1>1. ASSUME NEW x \in Addr, Below(x, a) < Len(bytes) PROVE Below(x, a) + 1 \in 1..Len(bytes)
  <2>1. x \in Nat /\ a \in Nat /\ N \in Nat /\ x < N /\ a < N
    BY SpaceSize DEF Addr
  <2>2. Below(x, a) = IF x >= a THEN x - a ELSE x - a + N
    BY BelowValue
  <2>3. Below(x, a) \in Nat
    BY <2>1, <2>2
  <2> QED
    BY <1>1, <2>3
<1> QED
  BY <1>1 DEF memcpy

\* Bytes that are pushed lie from the new esp up.
LEMMA BytesPushed ==
  ASSUME NEW s \in Stack, NEW bytes \in Seq(Byte), Len(bytes) <= s.esp
  PROVE  LET t == PushBytes(s, bytes)
         IN /\ Grown(s, t, Len(bytes)) /\ t.ptrs = s.ptrs
            /\ \A k \in 1..Len(bytes) : t.mem[t.esp + k - 1] = bytes[k]
<1> DEFINE n == Len(bytes)  e == s.esp - n  m == memcpy(s.mem, e, bytes)  t == PushBytes(s, bytes)
<1>1. /\ n \in Nat /\ s.esp \in Nat /\ s.esp < N /\ N \in Nat /\ e \in Nat /\ e \in Addr
      /\ e + n = s.esp /\ s.mem \in [Addr -> Byte]
  BY SpaceSize DEF Stack, Addr
<1>2. Below(s.esp, n) = e
  <2>1. n \in Addr /\ s.esp \in Addr /\ s.esp >= n
    BY <1>1 DEF Addr
  <2> QED
    BY <2>1, BelowValue
<1>3. PushBytes(s, bytes) = [s EXCEPT !.mem = m, !.esp = e]
  BY <1>2 DEF PushBytes
<1> HIDE DEF e
<1>4. /\ \A x \in Addr : x < e \/ x >= e + n => m[x] = s.mem[x]
      /\ \A k \in 1..n : m[e + k - 1] = bytes[k]
  <2>1. s.mem \in [Addr -> Byte] /\ e \in Addr /\ e + Len(bytes) <= N
    BY <1>1
  <2> QED
    BY <2>1, BytesCopied
<1>5. m \in [Addr -> Byte]
  BY <1>1, CopyType
<1> HIDE DEF m
<1>6. t \in Stack /\ t.mem = m /\ t.esp = e /\ t.ptrs = s.ptrs
  BY <1>1, <1>3, <1>5 DEF Stack
<1> HIDE DEF t
<1> QED
  BY <1>1, <1>4, <1>6 DEF t, e, Grown

\* Pushing keeps the types, also where it wraps.
LEMMA PushTypes ==
  ASSUME NEW s \in Stack
  PROVE  /\ \A bytes \in Seq(Byte) : PushBytes(s, bytes) \in Stack
         /\ \A v \in Addr : Push(s, v) \in Stack
<1>1. ASSUME NEW bytes \in Seq(Byte) PROVE PushBytes(s, bytes) \in Stack
  <2> DEFINE e == Below(s.esp, Len(bytes))
  <2>1. e \in Addr /\ s.mem \in [Addr -> Byte]
    BY SpaceSize DEF Stack, Addr, Below
  <2> HIDE DEF e
  <2>2. memcpy(s.mem, e, bytes) \in [Addr -> Byte]
    BY <2>1, CopyType
  <2> QED
    BY <2>1, <2>2 DEF PushBytes, Stack, e
<1>2. ASSUME NEW v \in Addr PROVE Push(s, v) \in Stack
  <2>1. Below(s.esp, 4) \in Addr
    BY SpaceSize DEF Stack, Addr, Below
  <2> QED
    BY <2>1, WriteType DEF Push, Stack
<1> QED
  BY <1>1, <1>2

\* A word that is pushed lies at the new esp.
LEMMA WordPushed ==
  ASSUME NEW s \in Stack, NEW v \in Addr, 4 <= s.esp
  PROVE  LET t == Push(s, v)
         IN Grown(s, t, 4) /\ t.ptrs = s.ptrs /\ read32(t.mem, t.esp) = v
<1> DEFINE e == s.esp - 4
<1>1. /\ s.esp \in Nat /\ s.esp < N /\ N \in Nat /\ e \in Nat /\ e \in Addr /\ e + 3 < N
      /\ s.mem \in [Addr -> Byte]
  BY SpaceSize DEF Stack, Addr
<1>2. Below(s.esp, 4) = e
  BY <1>1 DEF Below
<1> DEFINE m == write32(s.mem, e, v)
<1>3. Push(s, v) = [s EXCEPT !.mem = m, !.esp = e]
  BY <1>2 DEF Push
<1>4. m \in [Addr -> Byte] /\ read32(m, e) = v
  BY <1>1, WriteType, ReadBack
<1>5. ASSUME NEW x \in Addr, x < e \/ x >= s.esp PROVE m[x] = s.mem[x]
  <2>1. Range4(e) = e..(e + 3)
    BY <1>1, RangeNoWrap
  <2>2. x \in Nat /\ ~(x >= e /\ x <= e + 3)
    BY <1>1, <1>5, SpaceSize DEF Addr
  <2> HIDE DEF e
  <2>3. x \notin Range4(e)
    BY <1>1, <2>1, <2>2
  <2>4. x # At(e, 0) /\ x # At(e, 1) /\ x # At(e, 2) /\ x # At(e, 3)
    BY <2>3 DEF Range4
  <2> QED
    BY <1>1, <2>4, AtFacts DEF write32
<1> HIDE DEF m
<1> DEFINE t == Push(s, v)
<1>6. t \in Stack /\ t.mem = m /\ t.esp = e /\ t.ptrs = s.ptrs
  BY <1>1, <1>3, <1>4 DEF Stack
<1> HIDE DEF t, e
<1> QED
  BY <1>4, <1>5, <1>6 DEF t, e, Grown

\* The array of addresses may be replaced.
LEMMA PointersSet ==
  ASSUME NEW s \in Stack, NEW q \in Seq(Addr)
  PROVE  LET t == [s EXCEPT !.ptrs = q]
         IN t \in Stack /\ t.mem = s.mem /\ t.esp = s.esp /\ t.ptrs = q
  BY DEF Stack

\* Two histories start alike, and a round that starts alike ends alike.
Alike(f, g, m) == f[0] = g[0] /\ \A k \in 1..m : f[k - 1] = g[k - 1] => f[k] = g[k]

\* Such histories end alike.
LEMMA SameRounds ==
  ASSUME NEW m \in Nat, NEW f, NEW g, Alike(f, g, m)
  PROVE  f[m] = g[m]
<1> DEFINE A == {k \in 0..m : f[k] = g[k]}
<1>1. 0 \in A
  BY DEF Alike
<1>2. ASSUME NEW k \in 0..(m - 1), k \in A PROVE k + 1 \in A
  <2>1. k + 1 \in 1..m /\ k + 1 \in 0..m /\ (k + 1) - 1 = k
    OBVIOUS
  <2>2. f[k + 1] = g[k + 1]
    BY <1>2, <2>1 DEF Alike
  <2> QED
    BY <2>1, <2>2
<1> HIDE DEF A
<1>3. m \in A
  BY <1>1, <1>2, Counting
<1> QED
  BY <1>3 DEF A

\* A string that is pushed with its zero lies at the new esp.
LEMMA TextPushed ==
  ASSUME NEW s \in Stack, NEW str \in Text, Len(str) + 1 <= s.esp
  PROVE  LET t == PushBytes(s, str \o <<0>>)
         IN Grown(s, t, Len(str) + 1) /\ t.ptrs = s.ptrs /\ Holds(t.mem, t.esp, str)
<1> DEFINE b == str \o <<0>>  n == Len(str)  t == PushBytes(s, b)
<1>1. /\ str \in Seq(Byte) /\ 0 \in Byte /\ n \in Nat
      /\ b \in Seq(Byte) /\ Len(b) = n + 1 /\ b[n + 1] = 0 /\ \A k \in 1..n : b[k] = str[k]
  BY RadixAssumption DEF Text, Byte
<1> HIDE DEF b
<1>2. /\ Grown(s, t, n + 1) /\ t.ptrs = s.ptrs
      /\ \A k \in 1..(n + 1) : t.mem[t.esp + k - 1] = b[k]
  BY <1>1, BytesPushed
<1> HIDE DEF t
<1>3. t.esp \in Addr /\ t.esp = s.esp - (n + 1)
  BY <1>2 DEF Grown, Stack
<1>4. Holds(t.mem, t.esp, str)
  <2>1. t.esp \in Nat /\ s.esp \in Nat /\ s.esp < N /\ N \in Nat
    BY <1>3, SpaceSize DEF Stack, Addr
  <2>2. t.esp + n < N /\ t.esp + (n + 1) - 1 = t.esp + n /\ n + 1 \in 1..(n + 1)
    BY <1>1, <1>3, <2>1
  <2>3. t.mem[t.esp + n] = 0
    BY <1>1, <1>2, <2>2
  <2>4. \A k \in 1..n : k \in 1..(n + 1)
    BY <1>1
  <2>5. \A k \in 1..n : t.mem[t.esp + k - 1] = str[k]
    BY <1>1, <1>2, <2>4
  <2> QED
    BY <1>3, <2>2, <2>3, <2>5 DEF Holds
<1> QED
  BY <1>2, <1>4 DEF t, b

\* PushString also notes its address.
LEMMA StringPushed ==
  ASSUME NEW s \in Stack, NEW str \in Text, Len(str) + 1 <= s.esp
  PROVE  LET t == PushString(str, s)
         IN /\ Grown(s, t, Len(str) + 1) /\ t.ptrs = <<t.esp>> \o s.ptrs
            /\ Holds(t.mem, t.esp, str)
<1> DEFINE u == PushBytes(s, str \o <<0>>)  t == PushString(str, s)
<1>1. Grown(s, u, Len(str) + 1) /\ u.ptrs = s.ptrs /\ Holds(u.mem, u.esp, str)
  BY TextPushed
<1>2. t = [u EXCEPT !.ptrs = <<u.esp>> \o s.ptrs]
  BY <1>1 DEF PushString
<1> HIDE DEF u, t
<1>3. u \in Stack /\ u.esp \in Addr /\ s.ptrs \in Seq(Addr)
  BY <1>1 DEF Grown, Stack
<1>4. t \in Stack /\ t.mem = u.mem /\ t.esp = u.esp /\ t.ptrs = <<t.esp>> \o s.ptrs
  <2> DEFINE q == <<u.esp>> \o s.ptrs
  <2>1. q \in Seq(Addr)
    BY <1>3
  <2>2. t = [u EXCEPT !.ptrs = q]
    BY <1>2
  <2> HIDE DEF q
  <2>3. t \in Stack /\ t.mem = u.mem /\ t.esp = u.esp /\ t.ptrs = q
    BY <1>3, <2>1, <2>2, PointersSet
  <2> QED
    BY <2>3 DEF q
<1> QED
  BY <1>1, <1>4 DEF t, Grown

\* The bytes of the last strings, one more in every round.
LEMMA StringSizes ==
  ASSUME NEW strs \in Seq(Text)
  PROVE  \E size \in [0..Len(strs) -> Nat] :
           /\ size[0] = 0 /\ StringBytes(strs) = size[Len(strs)]
           /\ \A k \in 1..Len(strs) : size[k] = size[k - 1] + Len(strs[Len(strs) - k + 1]) + 1
           /\ \A k \in 0..Len(strs) : size[k] <= size[Len(strs)]
<1> DEFINE n == Len(strs)
           More(x, k) == x + Len(strs[n - k + 1]) + 1
           step == [x \in Nat \X (1..n) |-> More(x[1], x[2])]
           size == CHOOSE f : f = [k \in 0..n |-> IF k = 0 THEN 0 ELSE More(f[k - 1], k)]
<1>1. n \in Nat
  OBVIOUS
<1>2. StringBytes(strs) = size[n]
  BY DEF StringBytes
<1>3. ASSUME NEW x \in Nat, NEW k \in 1..n PROVE More(x, k) \in Nat /\ More(x, k) >= x
  <2>1. n - k + 1 \in 1..n
    BY <1>1
  <2>2. strs[n - k + 1] \in Text
    BY <2>1
  <2>3. Len(strs[n - k + 1]) \in Nat
    BY <2>2 DEF Text
  <2> QED
    BY <2>3
<1>4. \A x \in Nat, k \in 1..n : step[<<x, k>>] = More(x, k)
  OBVIOUS
<1> HIDE DEF step, n, More
<1>5. Closed(step, Nat, n)
  BY <1>3, <1>4 DEF Closed
<1>6. PICK f : Runs(f, 0, step, Nat, n)
  <2> HIDE DEF size
  <2> QED
    BY <1>1, <1>5, History
<1>7. f = [k \in 0..n |-> IF k = 0 THEN 0 ELSE More(f[k - 1], k)]
  <2>1. \A k \in 1..n : k - 1 \in 0..n
    BY <1>1
  <2>2. \A k \in 1..n : f[k] = More(f[k - 1], k)
    BY <1>4, <1>6, <2>1 DEF Runs
  <2>3. \A k \in 0..n : f[k] = IF k = 0 THEN 0 ELSE More(f[k - 1], k)
    BY <1>1, <1>6, <2>2 DEF Runs
  <2> QED
    BY <1>6, <2>3 DEF Runs
<1>8. size = [k \in 0..n |-> IF k = 0 THEN 0 ELSE More(size[k - 1], k)]
  BY <1>7
<1> HIDE DEF size
<1>9. size[n] = f[n]
  <2>1. Alike(size, f, n)
    BY <1>1, <1>7, <1>8 DEF Alike
  <2> QED
    BY <1>1, <2>1, SameRounds
<1>10. \A k \in 0..n : f[k] \in Nat
  BY <1>6 DEF Runs
<1>11. f[0] = 0 /\ \A k \in 1..n : f[k] = More(f[k - 1], k)
  BY <1>1, <1>7
<1> DEFINE B == {k \in 0..n : f[n - k] <= f[n]}
<1>12. \A k \in 0..n : f[k] <= f[n]
  <2>1. 0 \in B
    BY <1>1, <1>10
  <2>2. ASSUME NEW k \in 0..(n - 1), k \in B PROVE k + 1 \in B
    <3> DEFINE j == n - k
    <3>1. j \in 1..n /\ j - 1 \in 0..n /\ j \in 0..n /\ n - (k + 1) = j - 1 /\ k + 1 \in 0..n /\ n \in 0..n
      BY <1>1
    <3>2. f[j] <= f[n]
      BY <2>2
    <3> HIDE DEF j
    <3>3. f[j] >= f[j - 1]
      BY <1>3, <1>10, <1>11, <3>1
    <3>4. f[j - 1] <= f[n]
      BY <1>10, <3>1, <3>2, <3>3
    <3> QED
      BY <3>1, <3>4
  <2> HIDE DEF B
  <2>3. \A k \in 0..n : k \in B
    BY <1>1, <2>1, <2>2, Counting
  <2> SUFFICES ASSUME NEW k \in 0..n PROVE f[k] <= f[n]
    OBVIOUS
  <2>4. n - k \in 0..n /\ n - (n - k) = k
    BY <1>1
  <2> QED
    BY <2>3, <2>4 DEF B
<1>13. f \in [0..n -> Nat] /\ StringBytes(strs) = f[n]
  BY <1>2, <1>6, <1>9 DEF Runs
<1> QED
  BY <1>11, <1>12, <1>13 DEF n, More

\* The rounds of PushStrings.
LEMMA StringRounds ==
  ASSUME NEW s \in Stack, NEW strs \in Seq(Text)
  PROVE  \E f \in [0..Len(strs) -> Stack] :
           /\ f[0] = [s EXCEPT !.ptrs = <<>>] /\ PushStrings(s, strs) = f[Len(strs)]
           /\ \A k \in 1..Len(strs) : f[k] = PushString(strs[Len(strs) - k + 1], f[k - 1])
<1> DEFINE n == Len(strs)
           first == [s EXCEPT !.ptrs = <<>>]
           More(x, k) == PushString(strs[n - k + 1], x)
           step == [x \in Stack \X (1..n) |-> More(x[1], x[2])]
           pushed == CHOOSE f : f = [k \in 0..n |-> IF k = 0 THEN first ELSE More(f[k - 1], k)]
<1>1. n \in Nat /\ first \in Stack
  <2>1. <<>> \in Seq(Addr) /\ n \in Nat
    OBVIOUS
  <2>2. first \in Stack
    BY <2>1, PointersSet
  <2> QED
    BY <2>1, <2>2
<1>2. PushStrings(s, strs) = pushed[n]
  BY DEF PushStrings
<1>3. ASSUME NEW x \in Stack, NEW k \in 1..n PROVE More(x, k) \in Stack
  <2> DEFINE str == strs[n - k + 1]  b == str \o <<0>>  u == PushBytes(x, b)
  <2>1. n - k + 1 \in 1..n
    BY <1>1
  <2>2. str \in Text
    BY <2>1
  <2> HIDE DEF str
  <2>3. b \in Seq(Byte)
    BY <2>2, RadixAssumption DEF Text, Byte
  <2> HIDE DEF b
  <2>4. u \in Stack
    BY <2>3, PushTypes
  <2> HIDE DEF u
  <2>5. [u EXCEPT !.ptrs = <<u.esp>> \o u.ptrs] \in Stack
    <3>1. u.esp \in Addr /\ u.ptrs \in Seq(Addr)
      BY <2>4 DEF Stack
    <3>2. <<u.esp>> \o u.ptrs \in Seq(Addr)
      BY <3>1
    <3> QED
      BY <2>4, <3>2, PointersSet
  <2> QED
    BY <2>5 DEF PushString, u, b, str
<1>4. \A x \in Stack, k \in 1..n : step[<<x, k>>] = More(x, k)
  OBVIOUS
<1> HIDE DEF step, n, More, first
<1>5. Closed(step, Stack, n)
  BY <1>3, <1>4 DEF Closed
<1>6. PICK f : Runs(f, first, step, Stack, n)
  <2> HIDE DEF pushed
  <2> QED
    BY <1>1, <1>5, History
<1>7. \A k \in 1..n : f[k] = More(f[k - 1], k)
  <2>1. \A k \in 1..n : k - 1 \in 0..n
    BY <1>1
  <2> QED
    BY <1>4, <1>6, <2>1 DEF Runs
<1>8. f = [k \in 0..n |-> IF k = 0 THEN first ELSE More(f[k - 1], k)]
  <2>1. \A k \in 0..n : f[k] = IF k = 0 THEN first ELSE More(f[k - 1], k)
    BY <1>1, <1>6, <1>7 DEF Runs
  <2> QED
    BY <1>6, <2>1 DEF Runs
<1>9. pushed = [k \in 0..n |-> IF k = 0 THEN first ELSE More(pushed[k - 1], k)]
  BY <1>8
<1> HIDE DEF pushed
<1>10. pushed[n] = f[n]
  <2>1. Alike(pushed, f, n)
    BY <1>1, <1>8, <1>9 DEF Alike
  <2> QED
    BY <1>1, <2>1, SameRounds
<1>11. f \in [0..n -> Stack] /\ f[0] = first /\ PushStrings(s, strs) = f[n]
  BY <1>2, <1>6, <1>10 DEF Runs
<1> QED
  BY <1>7, <1>11 DEF n, More, first

\* The addresses in the array are those of the last strings.
Addressed(t, strs, k) ==
  /\ Len(t.ptrs) = k
  /\ \A i \in 1..k : t.ptrs[i] >= t.esp /\ Holds(t.mem, t.ptrs[i], strs[Len(strs) - k + i])

\* One more string leaves the ones above it alone.
LEMMA OneMoreString ==
  ASSUME NEW s \in Stack, NEW strs \in Seq(Text), NEW k \in 0..(Len(strs) - 1), Addressed(s, strs, k),
         Len(strs[Len(strs) - (k + 1) + 1]) + 1 <= s.esp
  PROVE  Addressed(PushString(strs[Len(strs) - (k + 1) + 1], s), strs, k + 1)
<1> DEFINE n == Len(strs)  str == strs[n - (k + 1) + 1]  t == PushString(str, s)  q == s.ptrs
<1>1. n \in Nat /\ k \in Nat /\ n - (k + 1) + 1 = n - k /\ n - k \in 1..n
  OBVIOUS
<1>2. str \in Text /\ Len(str) \in Nat
  BY <1>1 DEF Text
<1>3. Grown(s, t, Len(str) + 1) /\ t.ptrs = <<t.esp>> \o q /\ Holds(t.mem, t.esp, str)
  <2> HIDE DEF str
  <2> QED
    BY <1>2, StringPushed DEF str
<1> HIDE DEF t, n
<1>4. q \in Seq(Addr) /\ t \in Stack /\ t.esp \in Nat /\ s.esp \in Nat /\ t.esp <= s.esp /\ Len(q) = k
  <2>1. q \in Seq(Addr) /\ t \in Stack /\ t.esp \in Nat /\ s.esp \in Nat /\ t.esp = s.esp - (Len(str) + 1)
    BY <1>3, SpaceSize DEF Stack, Grown, Addr
  <2> HIDE DEF str, q
  <2>2. t.esp <= s.esp
    BY <1>2, <2>1
  <2> QED
    BY <2>1, <2>2 DEF Addressed, q
<1> HIDE DEF q
<1>5. Len(t.ptrs) = k + 1 /\ t.ptrs[1] = t.esp /\ \A i \in 1..k : t.ptrs[i + 1] = q[i]
  BY <1>3, <1>4
<1>6. ASSUME NEW i \in 1..(k + 1)
      PROVE  t.ptrs[i] >= t.esp /\ Holds(t.mem, t.ptrs[i], strs[n - (k + 1) + i])
  <2>1. CASE i = 1
    BY <1>3, <1>4, <1>5, <2>1
  <2>2. CASE i # 1
    <3> DEFINE j == i - 1  y == strs[n - k + j]
    <3>1. j \in 1..k /\ j + 1 = i /\ n - (k + 1) + i = n - k + j /\ n - k + j \in 1..n
      BY <1>1, <2>2
    <3>2. y \in Text
      BY <3>1 DEF n
    <3>3. q[j] >= s.esp /\ Holds(s.mem, q[j], y)
      BY <3>1 DEF Addressed, q, n
    <3>4. t.ptrs[i] = q[j]
      BY <1>5, <3>1
    <3> HIDE DEF y, j
    <3>5. y \in Seq(Byte)
      BY <3>2 DEF Text
    <3>6. Holds(t.mem, q[j], y)
      BY <1>3, <1>4, <3>3, <3>5, GrownSame, SameString
    <3>7. q[j] >= t.esp
      <4>1. q[j] \in Nat
        BY <3>3, SpaceSize DEF Holds, Addr
      <4> QED
        BY <1>4, <3>3, <4>1
    <3> QED
      BY <3>1, <3>4, <3>6, <3>7 DEF y
  <2> QED
    BY <2>1, <2>2
<1> QED
  BY <1>5, <1>6 DEF Addressed, t, n

\* The strings lie one below the other, and the array has their addresses.
LEMMA StringsPushed ==
  ASSUME NEW s \in Stack, NEW strs \in Seq(Text), StringBytes(strs) <= s.esp
  PROVE  LET t == PushStrings(s, strs)
         IN Grown(s, t, StringBytes(strs)) /\ Addressed(t, strs, Len(strs)) /\ StringBytes(strs) \in Nat
<1> DEFINE n == Len(strs)
<1>1. PICK size \in [0..n -> Nat] :
           /\ size[0] = 0 /\ StringBytes(strs) = size[n]
           /\ \A k \in 1..n : size[k] = size[k - 1] + Len(strs[n - k + 1]) + 1
           /\ \A k \in 0..n : size[k] <= size[n]
  BY StringSizes
<1>2. PICK f \in [0..n -> Stack] :
           /\ f[0] = [s EXCEPT !.ptrs = <<>>] /\ PushStrings(s, strs) = f[n]
           /\ \A k \in 1..n : f[k] = PushString(strs[n - k + 1], f[k - 1])
  BY StringRounds
<1>3. n \in Nat /\ n \in 0..n /\ s.esp \in Nat
  BY SpaceSize DEF Stack, Addr
<1> DEFINE Good(k) == Grown(s, f[k], size[k]) /\ Addressed(f[k], strs, k)
           A == {k \in 0..n : Good(k)}
<1>4. 0 \in A
  <2>1. <<>> \in Seq(Addr)
    OBVIOUS
  <2>2. f[0] \in Stack /\ f[0].mem = s.mem /\ f[0].esp = s.esp /\ f[0].ptrs = <<>>
    BY <1>2, <2>1, PointersSet
  <2>3. s.esp = s.esp - 0 /\ Len(<<>>) = 0 /\ 1..0 = {} /\ 0 \in 0..n
    BY <1>3
  <2>4. Grown(s, f[0], 0)
    BY <2>2, <2>3 DEF Grown
  <2>5. Addressed(f[0], strs, 0)
    BY <2>2, <2>3 DEF Addressed
  <2> QED
    BY <1>1, <2>3, <2>4, <2>5
<1>5. ASSUME NEW k \in 0..(n - 1), k \in A PROVE k + 1 \in A
  <2> DEFINE str == strs[n - (k + 1) + 1]  t == f[k]  z == size[k]
  <2>1. k + 1 \in 0..n /\ k + 1 \in 1..n /\ (k + 1) - 1 = k /\ k \in 0..n /\ n - (k + 1) + 1 \in 1..n
    BY <1>3
  <2>2. str \in Text /\ Len(str) \in Nat
    BY <2>1 DEF Text
  <2>3. f[k + 1] = PushString(str, t) /\ size[k + 1] = z + Len(str) + 1 /\ z \in Nat /\ size[k + 1] <= size[n]
        /\ size[n] \in Nat
    BY <1>1, <1>2, <1>3, <2>1
  <2>4. Grown(s, t, z) /\ Addressed(t, strs, k) /\ t \in Stack
    BY <1>2, <1>5, <2>1
  <2>5. t.esp = s.esp - z /\ t.esp \in Nat
    BY <2>4, SpaceSize DEF Grown, Stack, Addr
  <2>6. Len(str) + 1 <= t.esp
    <3> HIDE DEF str, t, z
    <3> QED
      BY <1>1, <1>3, <2>2, <2>3, <2>5
  <2>7. Addressed(PushString(str, t), strs, k + 1)
    <3> HIDE DEF t
    <3> QED
      BY <2>4, <2>6, OneMoreString
  <2>8. Grown(t, PushString(str, t), Len(str) + 1)
    <3> HIDE DEF t, str
    <3> QED
      BY <2>2, <2>4, <2>6, StringPushed
  <2> HIDE DEF str, t, z
  <2>9. Grown(s, PushString(str, t), z + (Len(str) + 1))
    <3>1. Len(str) + 1 \in Nat
      BY <2>2
    <3> QED
      BY <2>3, <2>4, <2>8, <3>1, GrownTwice
  <2>10. size[k + 1] = z + (Len(str) + 1)
    BY <2>2, <2>3
  <2> QED
    BY <2>1, <2>3, <2>7, <2>9, <2>10
<1> HIDE DEF A
<1>6. n \in A
  BY <1>3, <1>4, <1>5, Counting
<1> QED
  BY <1>1, <1>2, <1>3, <1>6 DEF A

\* The rounds of PushWords.
LEMMA WordRounds ==
  ASSUME NEW s \in Stack, NEW words \in Seq(Addr)
  PROVE  \E f \in [0..Len(words) -> Stack] :
           /\ f[0] = s /\ PushWords(s, words) = f[Len(words)]
           /\ \A k \in 1..Len(words) : f[k] = Push(f[k - 1], words[Len(words) - k + 1])
<1> DEFINE n == Len(words)
           More(x, k) == Push(x, words[n - k + 1])
           step == [x \in Stack \X (1..n) |-> More(x[1], x[2])]
           pushed == CHOOSE f : f = [k \in 0..n |-> IF k = 0 THEN s ELSE More(f[k - 1], k)]
<1>1. n \in Nat
  OBVIOUS
<1>2. PushWords(s, words) = pushed[n]
  BY DEF PushWords
<1>3. ASSUME NEW x \in Stack, NEW k \in 1..n PROVE More(x, k) \in Stack
  <2>1. n - k + 1 \in 1..n
    BY <1>1
  <2>2. words[n - k + 1] \in Addr
    BY <2>1
  <2> QED
    BY <2>2, PushTypes
<1>4. \A x \in Stack, k \in 1..n : step[<<x, k>>] = More(x, k)
  OBVIOUS
<1> HIDE DEF step, n, More
<1>5. Closed(step, Stack, n)
  BY <1>3, <1>4 DEF Closed
<1>6. PICK f : Runs(f, s, step, Stack, n)
  <2> HIDE DEF pushed
  <2> QED
    BY <1>1, <1>5, History
<1>7. \A k \in 1..n : f[k] = More(f[k - 1], k)
  <2>1. \A k \in 1..n : k - 1 \in 0..n
    BY <1>1
  <2> QED
    BY <1>4, <1>6, <2>1 DEF Runs
<1>8. f = [k \in 0..n |-> IF k = 0 THEN s ELSE More(f[k - 1], k)]
  <2>1. \A k \in 0..n : f[k] = IF k = 0 THEN s ELSE More(f[k - 1], k)
    BY <1>1, <1>6, <1>7 DEF Runs
  <2> QED
    BY <1>6, <2>1 DEF Runs
<1>9. pushed = [k \in 0..n |-> IF k = 0 THEN s ELSE More(pushed[k - 1], k)]
  BY <1>8
<1> HIDE DEF pushed
<1>10. pushed[n] = f[n]
  <2>1. Alike(pushed, f, n)
    BY <1>1, <1>8, <1>9 DEF Alike
  <2> QED
    BY <1>1, <2>1, SameRounds
<1>11. f \in [0..n -> Stack] /\ f[0] = s /\ PushWords(s, words) = f[n]
  BY <1>2, <1>6, <1>10 DEF Runs
<1> QED
  BY <1>7, <1>11 DEF n, More

\* Words that are pushed lie from the new esp up, in their order.
LEMMA WordsPushed ==
  ASSUME NEW s \in Stack, NEW words \in Seq(Addr), 4 * Len(words) <= s.esp
  PROVE  LET t == PushWords(s, words)
         IN Grown(s, t, 4 * Len(words)) /\ WordsAt(t.mem, t.esp, words)
<1> DEFINE n == Len(words)
<1>1. PICK f \in [0..n -> Stack] :
           /\ f[0] = s /\ PushWords(s, words) = f[n]
           /\ \A k \in 1..n : f[k] = Push(f[k - 1], words[n - k + 1])
  BY WordRounds
<1>2. n \in Nat /\ n \in 0..n /\ s.esp \in Nat /\ s.esp < N /\ N \in Nat
  BY SpaceSize DEF Stack, Addr
<1> DEFINE Last4(t, k) == \A i \in 1..k : read32(t.mem, t.esp + 4 * (i - 1)) = words[n - k + i]
           Good(k) == Grown(s, f[k], 4 * k) /\ Last4(f[k], k)
           A == {k \in 0..n : Good(k)}
<1>3. 0 \in A
  <2>1. s.esp = s.esp - 4 * 0 /\ 1..0 = {} /\ 0 \in 0..n
    BY <1>2
  <2>2. Grown(s, f[0], 4 * 0)
    BY <1>1, <2>1 DEF Grown
  <2> QED
    BY <2>1, <2>2
<1>4. ASSUME NEW k \in 0..(n - 1), k \in A PROVE k + 1 \in A
  <2> DEFINE v == words[n - (k + 1) + 1]  t == f[k]  u == Push(t, v)
  <2>1. /\ k + 1 \in 0..n /\ k + 1 \in 1..n /\ (k + 1) - 1 = k /\ k \in 0..n
        /\ n - (k + 1) + 1 \in 1..n /\ 4 * k \in Nat
    BY <1>2
  <2>2. v \in Addr
    BY <2>1
  <2>3. f[k + 1] = u
    BY <1>1, <2>1
  <2>4. Grown(s, t, 4 * k) /\ Last4(t, k) /\ t \in Stack
    BY <1>1, <1>4, <2>1
  <2> HIDE DEF v, t
  <2>5. t.esp = s.esp - 4 * k /\ t.esp \in Nat
    BY <2>4, SpaceSize DEF Grown, Stack, Addr
  <2>6. 4 <= t.esp /\ t.esp <= s.esp
    BY <1>2, <2>1, <2>5
  <2>7. Grown(t, u, 4) /\ read32(u.mem, u.esp) = v
    BY <2>2, <2>4, <2>6, WordPushed
  <2> HIDE DEF u
  <2>8. u.esp = t.esp - 4 /\ u.esp \in Nat
    BY <2>6, <2>7, <2>5 DEF Grown
  <2>9. Grown(s, u, 4 * (k + 1))
    <3>1. 4 * (k + 1) = 4 * k + 4
      BY <2>1
    <3> QED
      BY <2>1, <2>4, <2>7, <3>1, GrownTwice
  <2>10. ASSUME NEW i \in 1..(k + 1)
         PROVE  read32(u.mem, u.esp + 4 * (i - 1)) = words[n - (k + 1) + i]
    <3>1. CASE i = 1
      <4>1. u.esp + 4 * (i - 1) = u.esp
        BY <2>8, <3>1
      <4> QED
        BY <2>7, <3>1, <4>1 DEF v
    <3>2. CASE i # 1
      <4> DEFINE j == i - 1  a == t.esp + 4 * (j - 1)
      <4>1a. j \in 1..k /\ n - (k + 1) + i = n - k + j
        BY <1>2, <2>1, <3>2
      <4>1b. u.esp + 4 * (i - 1) = a
        BY <2>1, <2>5, <2>8, <3>2
      <4>1. j \in 1..k /\ u.esp + 4 * (i - 1) = a /\ n - (k + 1) + i = n - k + j
        BY <4>1a, <4>1b
      <4>3. read32(t.mem, a) = words[n - k + j]
        BY <2>4, <4>1
      <4> HIDE DEF j
      <4>2. a \in Nat /\ a >= t.esp /\ a + 3 < N
        <5>1. j \in Nat /\ 1 <= j /\ j <= k /\ k \in Nat
          BY <2>1, <4>1
        <5>2. a \in Nat /\ a >= t.esp
          BY <2>5, <5>1
        <5>3. a <= s.esp - 4
          BY <1>2, <2>5, <5>1
        <5> HIDE DEF a
        <5> QED
          BY <1>2, <5>2, <5>3
      <4> HIDE DEF a
      <4>4. read32(u.mem, a) = read32(t.mem, a)
        BY <2>5, <2>7, <4>2, GrownSame, SameWord
      <4> QED
        BY <4>1, <4>3, <4>4
    <3> QED
      BY <3>1, <3>2
  <2> QED
    BY <2>1, <2>3, <2>9, <2>10
<1> HIDE DEF A
<1>5. n \in A
  BY <1>2, <1>3, <1>4, Counting
<1>6. Grown(s, f[n], 4 * n) /\ \A i \in 1..n : read32(f[n].mem, f[n].esp + 4 * (i - 1)) = words[n - n + i]
  BY <1>5 DEF A
<1>7. \A i \in 1..n : n - n + i = i
  BY <1>2
<1> QED
  BY <1>1, <1>6, <1>7 DEF WordsAt

\* Two words, one below the other.
LEMMA TwoPushed ==
  ASSUME NEW s \in Stack, NEW v \in Addr, NEW w \in Addr, 8 <= s.esp
  PROVE  LET t == Push(Push(s, v), w)
         IN Grown(s, t, 8) /\ read32(t.mem, t.esp) = w /\ read32(t.mem, t.esp + 4) = v
<1> DEFINE u == Push(s, v)  t == Push(u, w)
<1>1. s.esp \in Nat /\ s.esp < N /\ N \in Nat /\ 4 <= s.esp
  BY SpaceSize DEF Stack, Addr
<1>2. Grown(s, u, 4) /\ read32(u.mem, u.esp) = v
  BY <1>1, WordPushed
<1> HIDE DEF u
<1>3. u \in Stack /\ u.esp = s.esp - 4 /\ u.esp \in Nat /\ 4 <= u.esp
  BY <1>1, <1>2 DEF Grown
<1>4. Grown(u, t, 4) /\ read32(t.mem, t.esp) = w
  BY <1>3, WordPushed
<1> HIDE DEF t
<1>5. t.esp = u.esp - 4 /\ t.esp + 4 = u.esp /\ u.esp + 3 < N
  BY <1>1, <1>3, <1>4 DEF Grown
<1>6. read32(t.mem, u.esp) = read32(u.mem, u.esp)
  BY <1>3, <1>4, <1>5, GrownSame, SameWord
<1>7. Grown(s, t, 4 + 4)
  BY <1>2, <1>4, GrownTwice
<1> QED
  BY <1>2, <1>4, <1>5, <1>6, <1>7 DEF t, u

\* The globals that the functions in getters[] return.
GlobalWords == [ph_addr : Addr, ph_size : Addr, ph_num : Addr, eip : Addr,
                platform_addr : Addr, rr : Addr]

\* What a function in getters[] returns for an entry is a word.
LEMMA GettersWord ==
  ASSUME NEW x \in AuxvEntry, NEW g \in GlobalWords
  PROVE  x.type \in Addr /\ getters(x, g) \in Addr
<1>1. 0 \in Addr /\ x.val \in Nat /\ x.type \in Addr
  BY SpaceSize DEF Addr, AuxvEntry
<1>2. x.val % N \in Addr
  BY <1>1, ModAddr
<1>3. /\ g.ph_addr \in Addr /\ g.ph_size \in Addr /\ g.ph_num \in Addr /\ g.eip \in Addr
      /\ g.platform_addr \in Addr /\ g.rr \in Addr
  BY DEF GlobalWords
<1> QED
  BY <1>1, <1>2, <1>3 DEF getters

\* The entries that are kept are entries.
LEMMA KeptListed ==
  ASSUME NEW auxv \in Seq(AuxvEntry)
  PROVE  Kept(auxv) \in Seq(AuxvEntry)
<1> DEFINE n == Len(auxv)
           S == Seq(AuxvEntry)
           More(t, k) == IF auxv[k].type \in SysInfo THEN t ELSE Append(t, auxv[k])
           step == [x \in S \X (1..n) |-> More(x[1], x[2])]
           kept == CHOOSE f : f = [k \in 0..n |-> IF k = 0 THEN <<>> ELSE More(f[k - 1], k)]
<1>1. n \in Nat /\ <<>> \in S
  OBVIOUS
<1>2. Kept(auxv) = kept[n]
  <2>1. kept = CHOOSE f : f = [k \in 0..n |->
                   IF k = 0 THEN <<>>
                   ELSE IF auxv[k].type \in SysInfo THEN f[k - 1] ELSE Append(f[k - 1], auxv[k])]
    OBVIOUS
  <2> QED
    BY <2>1 DEF Kept
<1>3. ASSUME NEW t \in S, NEW k \in 1..n PROVE More(t, k) \in S
  <2>1. auxv[k] \in AuxvEntry
    OBVIOUS
  <2> QED
    BY <2>1
<1>4. \A t \in S, k \in 1..n : step[<<t, k>>] = More(t, k)
  OBVIOUS
<1> HIDE DEF step, n, More, S
<1>5. Closed(step, S, n)
  BY <1>3, <1>4 DEF Closed
<1>6. PICK f : Runs(f, <<>>, step, S, n)
  <2> HIDE DEF kept
  <2> QED
    BY <1>1, <1>5, History
<1>7. \A k \in 1..n : f[k] = More(f[k - 1], k)
  <2>1. \A k \in 1..n : k - 1 \in 0..n
    BY <1>1
  <2> QED
    BY <1>4, <1>6, <2>1 DEF Runs
<1>8. f = [k \in 0..n |-> IF k = 0 THEN <<>> ELSE More(f[k - 1], k)]
  <2>1. \A k \in 0..n : f[k] = IF k = 0 THEN <<>> ELSE More(f[k - 1], k)
    BY <1>1, <1>6, <1>7 DEF Runs
  <2> QED
    BY <1>6, <2>1 DEF Runs
<1>9. kept = [k \in 0..n |-> IF k = 0 THEN <<>> ELSE More(kept[k - 1], k)]
  BY <1>8
<1> HIDE DEF kept
<1>10. kept[n] = f[n]
  <2>1. Alike(kept, f, n)
    BY <1>1, <1>8, <1>9 DEF Alike
  <2> QED
    BY <1>1, <2>1, SameRounds
<1>11. f[n] \in S
  BY <1>1, <1>6 DEF Runs
<1> QED
  BY <1>2, <1>10, <1>11 DEF S

\* The rounds of read_auxv.
LEMMA AuxvRounds ==
  ASSUME NEW s \in Stack, NEW g \in GlobalWords, NEW auxv \in Seq(AuxvEntry)
  PROVE  \E f \in [0..Len(Kept(auxv)) -> Stack] :
           /\ f[0] = Push(Push(s, 0), 0) /\ read_auxv(s, g, auxv) = f[Len(Kept(auxv))]
           /\ \A k \in 1..Len(Kept(auxv)) : f[k] = PushEntry(f[k - 1], g, Kept(auxv)[k])
<1> DEFINE kept == Kept(auxv)
           n == Len(kept)
           first == Push(Push(s, 0), 0)
           More(x, k) == PushEntry(x, g, kept[k])
           step == [x \in Stack \X (1..n) |-> More(x[1], x[2])]
           pushed == CHOOSE f : f = [k \in 0..n |-> IF k = 0 THEN first ELSE More(f[k - 1], k)]
<1>1. kept \in Seq(AuxvEntry) /\ first \in Stack
  <2>1. 0 \in Addr
    BY SpaceSize DEF Addr
  <2> QED
    BY <2>1, PushTypes, KeptListed
<1>2. read_auxv(s, g, auxv) = pushed[n]
  BY DEF read_auxv
<1> HIDE DEF kept
<1>3. n \in Nat
  BY <1>1
<1>4. ASSUME NEW x \in Stack, NEW k \in 1..n PROVE More(x, k) \in Stack
  <2>1. kept[k] \in AuxvEntry
    BY <1>1
  <2>2. kept[k].type \in Addr /\ getters(kept[k], g) \in Addr
    BY <2>1, GettersWord
  <2>3. Push(x, getters(kept[k], g)) \in Stack
    BY <2>2, PushTypes
  <2>4. Push(Push(x, getters(kept[k], g)), kept[k].type) \in Stack
    BY <2>2, <2>3, PushTypes
  <2> QED
    BY <2>4 DEF PushEntry
<1>5. \A x \in Stack, k \in 1..n : step[<<x, k>>] = More(x, k)
  OBVIOUS
<1> HIDE DEF step, n, More, first
<1>6. Closed(step, Stack, n)
  BY <1>4, <1>5 DEF Closed
<1>7. PICK f : Runs(f, first, step, Stack, n)
  <2> HIDE DEF pushed
  <2> QED
    BY <1>1, <1>3, <1>6, History
<1>8. \A k \in 1..n : f[k] = More(f[k - 1], k)
  <2>1. \A k \in 1..n : k - 1 \in 0..n
    BY <1>3
  <2> QED
    BY <1>5, <1>7, <2>1 DEF Runs
<1>9. f = [k \in 0..n |-> IF k = 0 THEN first ELSE More(f[k - 1], k)]
  <2>1. \A k \in 0..n : f[k] = IF k = 0 THEN first ELSE More(f[k - 1], k)
    BY <1>3, <1>7, <1>8 DEF Runs
  <2> QED
    BY <1>7, <2>1 DEF Runs
<1>10. pushed = [k \in 0..n |-> IF k = 0 THEN first ELSE More(pushed[k - 1], k)]
  BY <1>9
<1> HIDE DEF pushed
<1>11. pushed[n] = f[n]
  <2>1. Alike(pushed, f, n)
    BY <1>3, <1>9, <1>10 DEF Alike
  <2> QED
    BY <1>3, <2>1, SameRounds
<1>12. f \in [0..n -> Stack] /\ f[0] = first /\ read_auxv(s, g, auxv) = f[n]
  BY <1>2, <1>7, <1>11 DEF Runs
<1> QED
  BY <1>8, <1>12 DEF n, More, first, kept

\* k entries of the vector lie from a up, the last one lowest, over AT_NULL.
Described(m, a, kept, g, k) ==
  /\ read32(m, a + 8 * k) = 0 /\ read32(m, a + 8 * k + 4) = 0
  /\ \A i \in 1..k : /\ read32(m, a + 8 * (k - i)) = kept[i].type
                     /\ read32(m, a + 8 * (k - i) + 4) = getters(kept[i], g)

\* Writes below it leave a vector alone.
LEMMA SameVector ==
  ASSUME NEW m, NEW w, NEW lo \in Nat, SameFrom(m, w, lo), NEW a \in Nat, a >= lo,
         NEW k \in Nat, a + 8 * k + 8 <= N, NEW kept, NEW g, Described(m, a, kept, g, k)
  PROVE  Described(w, a, kept, g, k)
<1>1. ASSUME NEW o \in Nat, o <= 8 * k + 4 PROVE read32(w, a + o) = read32(m, a + o)
  <2>1. a + o \in Nat /\ a + o >= lo /\ a + o + 3 < N
    BY <1>1, SpaceSize
  <2> QED
    BY <2>1, SameWord
<1>2. read32(w, a + 8 * k) = 0 /\ read32(w, a + 8 * k + 4) = 0
  <2>1. 8 * k \in Nat /\ 8 * k <= 8 * k + 4 /\ 8 * k + 4 \in Nat /\ a + 8 * k + 4 = a + (8 * k + 4)
    OBVIOUS
  <2> QED
    BY <1>1, <2>1 DEF Described
<1>3. ASSUME NEW i \in 1..k
      PROVE  /\ read32(w, a + 8 * (k - i)) = kept[i].type
             /\ read32(w, a + 8 * (k - i) + 4) = getters(kept[i], g)
  <2> DEFINE o == 8 * (k - i)
  <2>1. o \in Nat /\ o <= 8 * k + 4 /\ o + 4 \in Nat /\ o + 4 <= 8 * k + 4 /\ a + o + 4 = a + (o + 4)
    OBVIOUS
  <2>2. read32(m, a + o) = kept[i].type /\ read32(m, a + o + 4) = getters(kept[i], g)
    BY DEF Described
  <2> HIDE DEF o
  <2>3. read32(w, a + o) = kept[i].type /\ read32(w, a + o + 4) = getters(kept[i], g)
    BY <1>1, <2>1, <2>2
  <2> QED
    BY <2>3 DEF o
<1> QED
  BY <1>2, <1>3 DEF Described

\* The auxiliary vector lies from the new esp up.
LEMMA AuxvPushed ==
  ASSUME NEW s \in Stack, NEW g \in GlobalWords, NEW auxv \in Seq(AuxvEntry),
         8 * (Len(Kept(auxv)) + 1) <= s.esp
  PROVE  LET t == read_auxv(s, g, auxv)
         IN /\ Grown(s, t, 8 * (Len(Kept(auxv)) + 1))
            /\ Described(t.mem, t.esp, Kept(auxv), g, Len(Kept(auxv)))
<1> DEFINE kept == Kept(auxv)  n == Len(kept)
<1>1. PICK f \in [0..n -> Stack] :
           /\ f[0] = Push(Push(s, 0), 0) /\ read_auxv(s, g, auxv) = f[n]
           /\ \A k \in 1..n : f[k] = PushEntry(f[k - 1], g, kept[k])
  BY AuxvRounds
<1>2. kept \in Seq(AuxvEntry)
  BY KeptListed
<1> HIDE DEF kept
<1>3. n \in Nat /\ n \in 0..n /\ s.esp \in Nat /\ s.esp < N /\ N \in Nat /\ 0 \in Addr
  BY <1>2, SpaceSize DEF Stack, Addr
<1>4. 8 * (n + 1) <= s.esp
  BY DEF kept
<1> DEFINE Good(k) == Grown(s, f[k], 8 * (k + 1)) /\ Described(f[k].mem, f[k].esp, kept, g, k)
           A == {k \in 0..n : Good(k)}
<1> HIDE DEF n
<1>5. 0 \in A
  <2> DEFINE t == f[0]
  <2>1. 8 <= s.esp /\ 8 * (0 + 1) = 8 /\ 0 \in 0..n
    BY <1>3, <1>4
  <2>2. Grown(s, t, 8) /\ read32(t.mem, t.esp) = 0 /\ read32(t.mem, t.esp + 4) = 0
    BY <1>1, <1>3, <2>1, TwoPushed
  <2> HIDE DEF t
  <2>3. t.esp \in Nat
    BY <2>2, SpaceSize DEF Grown, Stack, Addr
  <2>4. t.esp + 8 * 0 = t.esp /\ t.esp + 8 * 0 + 4 = t.esp + 4 /\ 1..0 = {}
    BY <2>3
  <2>5. Described(t.mem, t.esp, kept, g, 0)
    BY <2>2, <2>4 DEF Described
  <2> QED
    BY <2>1, <2>2, <2>5 DEF t
<1>6. ASSUME NEW k \in 0..(n - 1), k \in A PROVE k + 1 \in A
  <2> DEFINE x == kept[k + 1]  t == f[k]  u == PushEntry(t, g, x)  v == getters(x, g)
  <2>1. /\ k + 1 \in 0..n /\ k + 1 \in 1..n /\ (k + 1) - 1 = k /\ k \in 0..n /\ k \in Nat
        /\ 8 * (k + 1) \in Nat
    BY <1>3
  <2>2. x \in AuxvEntry
    BY <1>2, <2>1 DEF n
  <2>3. x.type \in Addr /\ v \in Addr
    BY <2>2, GettersWord
  <2>4. f[k + 1] = u
    BY <1>1, <2>1
  <2>5. Grown(s, t, 8 * (k + 1)) /\ Described(t.mem, t.esp, kept, g, k) /\ t \in Stack
    BY <1>1, <1>6, <2>1
  <2> HIDE DEF x, t
  <2>6. t.esp = s.esp - 8 * (k + 1) /\ t.esp \in Nat
    BY <2>5, SpaceSize DEF Grown, Stack, Addr
  <2>7. 8 <= t.esp /\ t.esp + 8 * k + 8 <= N
    BY <1>3, <1>4, <2>1, <2>6
  <2> HIDE DEF v
  <2>8. Grown(t, u, 8) /\ read32(u.mem, u.esp) = x.type /\ read32(u.mem, u.esp + 4) = v
    BY <2>3, <2>5, <2>7, TwoPushed DEF PushEntry, v
  <2> HIDE DEF u
  <2>9. u.esp = t.esp - 8 /\ u.esp \in Nat
    BY <2>6, <2>7, <2>8 DEF Grown
  <2>10. Grown(s, u, 8 * ((k + 1) + 1))
    <3>1. 8 * ((k + 1) + 1) = 8 * (k + 1) + 8
      BY <2>1
    <3> QED
      BY <2>1, <2>5, <2>8, <3>1, GrownTwice
  <2>11. Described(u.mem, t.esp, kept, g, k)
    <3>1. SameFrom(t.mem, u.mem, t.esp) /\ t.esp >= t.esp
      BY <2>6, <2>8, GrownSame
    <3> QED
      BY <2>1, <2>5, <2>6, <2>7, <3>1, SameVector
  <2>12. Described(u.mem, u.esp, kept, g, k + 1)
    <3> DEFINE a == u.esp
    <3>1. a \in Nat /\ a + 8 * (k + 1) = t.esp + 8 * k /\ a + 8 * (k + 1) + 4 = t.esp + 8 * k + 4
      BY <2>1, <2>6, <2>9
    <3>2. ASSUME NEW i \in 1..(k + 1)
          PROVE  /\ read32(u.mem, a + 8 * ((k + 1) - i)) = kept[i].type
                 /\ read32(u.mem, a + 8 * ((k + 1) - i) + 4) = getters(kept[i], g)
      <4>1. CASE i = k + 1
        <5>1. a + 8 * ((k + 1) - i) = a /\ a + 8 * ((k + 1) - i) + 4 = a + 4
          BY <3>1, <4>1, <2>1
        <5> QED
          BY <2>8, <4>1, <5>1 DEF x, v
      <4>2. CASE i # k + 1
        <5>1. /\ i \in 1..k
              /\ a + 8 * ((k + 1) - i) = t.esp + 8 * (k - i)
              /\ a + 8 * ((k + 1) - i) + 4 = t.esp + 8 * (k - i) + 4
          BY <2>1, <2>6, <2>9, <4>2
        <5> QED
          BY <2>11, <5>1 DEF Described
      <4> QED
        BY <4>1, <4>2
    <3> QED
      BY <2>11, <3>1, <3>2 DEF Described
  <2> QED
    BY <2>1, <2>4, <2>10, <2>12
<1> HIDE DEF A
<1>7. n \in A
  BY <1>3, <1>5, <1>6, Counting
<1> QED
  BY <1>1, <1>7 DEF A, n, kept

---------------------------------------------------------------------------
(* The image *)

\* The rounds of LoadImage.
LEMMA SegmentRounds ==
  ASSUME NEW elf, ValidElf(elf)
  PROVE  \E f \in [0..Len(elf.phdrs) -> [Addr -> Byte]] :
           /\ f[0] = Zeros /\ LoadImage(elf) = f[Len(elf.phdrs)]
           /\ \A k \in 1..Len(elf.phdrs) : f[k] = LoadSegment(f[k - 1], elf, elf.phdrs[k])
<1> DEFINE n == Len(elf.phdrs)
           S == [Addr -> Byte]
           More(x, k) == LoadSegment(x, elf, elf.phdrs[k])
           step == [x \in S \X (1..n) |-> More(x[1], x[2])]
           loaded == CHOOSE f : f = [k \in 0..n |-> IF k = 0 THEN Zeros ELSE More(f[k - 1], k)]
<1>1. n \in Nat /\ Zeros \in S
  BY RadixAssumption, SpaceSize DEF ValidElf, Zeros, Byte, Addr
<1>2. LoadImage(elf) = loaded[n]
  BY DEF LoadImage
<1>3. ASSUME NEW x \in S, NEW k \in 1..n PROVE More(x, k) \in S
  <2> DEFINE h == elf.phdrs[k]  b == SubSeq(elf.bytes, h.offset + 1, h.offset + h.filesz)
  <2>1. /\ h \in ElfSegment /\ elf.bytes \in Seq(Byte)
        /\ h.type = "LOAD" => h.offset + h.filesz <= Len(elf.bytes)
    BY DEF ValidElf
  <2> HIDE DEF h
  <2>2. CASE h.type = "LOAD"
    <3>1. h.offset \in Nat /\ h.filesz \in Nat /\ h.vaddr \in Addr
      BY <2>1 DEF ElfSegment
    <3>2. b \in Seq(Byte)
      BY <2>1, <2>2, <3>1
    <3> HIDE DEF b
    <3> QED
      BY <2>2, <3>1, <3>2, CopyType DEF LoadSegment, h, b
  <2>3. CASE h.type # "LOAD"
    BY <2>3 DEF LoadSegment, h
  <2> QED
    BY <2>2, <2>3
<1>4. \A x \in S, k \in 1..n : step[<<x, k>>] = More(x, k)
  OBVIOUS
<1> HIDE DEF step, n, More, S
<1>5. Closed(step, S, n)
  BY <1>3, <1>4 DEF Closed
<1>6. PICK f : Runs(f, Zeros, step, S, n)
  <2> HIDE DEF loaded
  <2> QED
    BY <1>1, <1>5, History
<1>7. \A k \in 1..n : f[k] = More(f[k - 1], k)
  <2>1. \A k \in 1..n : k - 1 \in 0..n
    BY <1>1
  <2> QED
    BY <1>4, <1>6, <2>1 DEF Runs
<1>8. f = [k \in 0..n |-> IF k = 0 THEN Zeros ELSE More(f[k - 1], k)]
  <2>1. \A k \in 0..n : f[k] = IF k = 0 THEN Zeros ELSE More(f[k - 1], k)
    BY <1>1, <1>6, <1>7 DEF Runs
  <2> QED
    BY <1>6, <2>1 DEF Runs
<1>9. loaded = [k \in 0..n |-> IF k = 0 THEN Zeros ELSE More(loaded[k - 1], k)]
  BY <1>8
<1> HIDE DEF loaded
<1>10. loaded[n] = f[n]
  <2>1. Alike(loaded, f, n)
    BY <1>1, <1>8, <1>9 DEF Alike
  <2> QED
    BY <1>1, <2>1, SameRounds
<1>11. f \in [0..n -> S] /\ f[0] = Zeros /\ LoadImage(elf) = f[n]
  BY <1>2, <1>6, <1>10 DEF Runs
<1> QED
  BY <1>7, <1>11 DEF n, More, S

\* A stretch of the file that is copied.
LEMMA StretchCopied ==
  ASSUME NEW m \in [Addr -> Byte], NEW bytes \in Seq(Byte), NEW v \in Addr, NEW off \in Nat,
         NEW z \in Nat, off + z <= Len(bytes), v + z <= N
  PROVE  LET w == memcpy(m, v, SubSeq(bytes, off + 1, off + z))
         IN /\ \A x \in Addr : x < v \/ x >= v + z => w[x] = m[x]
            /\ \A o \in 0..(z - 1) : w[v + o] = bytes[off + o + 1]
<1> DEFINE b == SubSeq(bytes, off + 1, off + z)  w == memcpy(m, v, b)
<1>1. b \in Seq(Byte) /\ Len(b) = z /\ \A j \in 1..z : b[j] = bytes[off + j]
  OBVIOUS
<1> HIDE DEF b
<1>2. /\ \A x \in Addr : x < v \/ x >= v + z => w[x] = m[x]
      /\ \A j \in 1..z : w[v + j - 1] = b[j]
  BY <1>1, BytesCopied
<1> HIDE DEF w
<1>3. ASSUME NEW o \in 0..(z - 1) PROVE w[v + o] = bytes[off + o + 1]
  <2> DEFINE j == o + 1
  <2>1. j \in 1..z /\ v + j - 1 = v + o /\ off + j = off + o + 1
    BY SpaceSize DEF Addr
  <2> HIDE DEF j
  <2>2. w[v + j - 1] = b[j] /\ b[j] = bytes[off + j]
    BY <1>1, <1>2, <2>1
  <2> QED
    BY <2>1, <2>2
<1> QED
  BY <1>2, <1>3 DEF w, b

\* The same for the stretch a segment names.
LEMMA SegmentCopied ==
  ASSUME NEW m \in [Addr -> Byte], NEW elf, elf.bytes \in Seq(Byte), NEW h \in ElfSegment,
         h.type = "LOAD", h.offset + h.filesz <= Len(elf.bytes), h.vaddr + h.filesz <= N
  PROVE  LET w == LoadSegment(m, elf, h)
         IN /\ \A x \in Addr : x < h.vaddr \/ x >= h.vaddr + h.filesz => w[x] = m[x]
            /\ \A o \in 0..(h.filesz - 1) : w[h.vaddr + o] = elf.bytes[h.offset + o + 1]
<1> DEFINE v == h.vaddr  off == h.offset  z == h.filesz  bytes == elf.bytes
<1>1. v \in Addr /\ off \in Nat /\ z \in Nat /\ bytes \in Seq(Byte)
  BY DEF ElfSegment
<1>2. off + z <= Len(bytes) /\ v + z <= N
  OBVIOUS
<1>3. LoadSegment(m, elf, h) = memcpy(m, v, SubSeq(bytes, off + 1, off + z))
  BY DEF LoadSegment
<1> HIDE DEF v, off, z, bytes
<1> DEFINE w == memcpy(m, v, SubSeq(bytes, off + 1, off + z))
<1>4. /\ \A x \in Addr : x < v \/ x >= v + z => w[x] = m[x]
      /\ \A o \in 0..(z - 1) : w[v + o] = bytes[off + o + 1]
  BY <1>1, <1>2, StretchCopied
<1> HIDE DEF w
<1>5. LoadSegment(m, elf, h) = w
  BY <1>3 DEF w
<1> QED
  BY <1>4, <1>5 DEF v, off, z, bytes

\* A byte of one of two segments that are apart is outside of the other.
LEMMA ApartBytes ==
  ASSUME NEW v1 \in Nat, NEW f1 \in Nat, NEW s1 \in Nat, NEW v2 \in Nat, NEW s2 \in Nat,
         v1 + s1 <= v2 \/ v2 + s2 <= v1, f1 <= s1, v2 + s2 <= N, NEW o \in 0..(s2 - 1)
  PROVE  v2 + o \in Addr /\ (v2 + o < v1 \/ v2 + o >= v1 + f1)
  BY SpaceSize DEF Addr

\* x is a byte that the file has of a segment.
InFile(h, x) == h.type = "LOAD" /\ x >= h.vaddr /\ x < h.vaddr + h.filesz

\* The segments of the first k headers are in memory, and nothing else is.
Imaged(m, elf, k) ==
  /\ \A i \in 1..k :
       LET h == elf.phdrs[i] IN
         h.type = "LOAD" =>
           \A o \in 0..(h.filesz - 1) : m[h.vaddr + o] = elf.bytes[h.offset + o + 1]
  /\ \A x \in Addr : (\A i \in 1..k : ~InFile(elf.phdrs[i], x)) => m[x] = 0

\* A segment that is copied leaves the others alone.
LEMMA OneMoreSegment ==
  ASSUME NEW elf, ValidElf(elf), NEW m \in [Addr -> Byte], NEW k \in 0..(Len(elf.phdrs) - 1),
         Imaged(m, elf, k),
         \A i \in DOMAIN elf.phdrs :
           elf.phdrs[i].type = "LOAD" => elf.phdrs[i].vaddr + elf.phdrs[i].memsz <= N
  PROVE  Imaged(LoadSegment(m, elf, elf.phdrs[k + 1]), elf, k + 1)
<1> DEFINE n == Len(elf.phdrs)  h == elf.phdrs[k + 1]  w == LoadSegment(m, elf, h)
<1>1. n \in Nat /\ k + 1 \in 1..n /\ DOMAIN elf.phdrs = 1..n /\ \A i \in 1..n : elf.phdrs[i] \in ElfSegment
  BY DEF ValidElf
<1>2. h \in ElfSegment
  BY <1>1
<1>3. CASE h.type # "LOAD"
  <2>1. w = m
    BY <1>3 DEF LoadSegment
  <2>2. \A i \in 1..(k + 1) : i \in 1..k \/ i = k + 1
    BY <1>1
  <2>3. \A x : ~InFile(h, x)
    BY <1>3 DEF InFile
  <2>4. \A x : (\A i \in 1..(k + 1) : ~InFile(elf.phdrs[i], x)) => (\A i \in 1..k : ~InFile(elf.phdrs[i], x))
    BY <1>1
  <2> HIDE DEF w
  <2> QED
    BY <1>3, <2>1, <2>2, <2>4 DEF Imaged, w
<1>4. CASE h.type = "LOAD"
  <2>1. h.offset \in Nat /\ h.filesz \in Nat /\ h.memsz \in Nat /\ h.vaddr \in Addr /\ h.vaddr \in Nat
    BY <1>2, SpaceSize DEF ElfSegment, Addr
  <2>2. /\ h.filesz <= h.memsz /\ h.offset + h.filesz <= Len(elf.bytes) /\ h.vaddr + h.memsz <= N
        /\ elf.bytes \in Seq(Byte)
    BY <1>1, <1>4 DEF ValidElf
  <2>4. h.vaddr + h.filesz <= N
    <3>1. \A x, y, z \in Nat : y <= z /\ x + z <= N => x + y <= N
      BY SpaceSize
    <3> HIDE DEF h
    <3> QED
      BY <2>1, <2>2, <3>1
  <2>6. /\ \A x \in Addr : x < h.vaddr \/ x >= h.vaddr + h.filesz => w[x] = m[x]
        /\ \A o \in 0..(h.filesz - 1) : w[h.vaddr + o] = elf.bytes[h.offset + o + 1]
    <3> HIDE DEF h
    <3> QED
      BY <1>2, <1>4, <2>2, <2>4, SegmentCopied
  <2> HIDE DEF w
  <2>7. ASSUME NEW i \in 1..(k + 1), elf.phdrs[i].type = "LOAD",
               NEW o \in 0..(elf.phdrs[i].filesz - 1)
        PROVE  w[elf.phdrs[i].vaddr + o] = elf.bytes[elf.phdrs[i].offset + o + 1]
    <3>1. CASE i = k + 1
      <4>1. o \in 0..(h.filesz - 1)
        BY <2>7, <3>1
      <4> HIDE DEF h
      <4>2. w[h.vaddr + o] = elf.bytes[h.offset + o + 1]
        BY <2>6, <4>1
      <4> QED
        BY <3>1, <4>2 DEF h
    <3>2. CASE i # k + 1
      <4> DEFINE g == elf.phdrs[i]
      <4>1. i \in 1..k /\ i \in 1..n
        BY <1>1, <3>2
      <4>2. m[g.vaddr + o] = elf.bytes[g.offset + o + 1]
        BY <2>7, <4>1 DEF Imaged
      <4>3. g \in ElfSegment
        BY <1>1, <4>1
      <4>4. g.filesz <= g.memsz /\ g.vaddr + g.memsz <= N
        BY <1>1, <2>7, <4>1 DEF ValidElf
      <4>5. h.vaddr + h.memsz <= g.vaddr \/ g.vaddr + g.memsz <= h.vaddr
        BY <1>1, <1>4, <2>7, <3>2, <4>1 DEF ValidElf
      <4>6. o \in 0..(g.filesz - 1)
        BY <2>7
      <4> HIDE DEF g, h
      <4>7. g.vaddr \in Nat /\ g.filesz \in Nat /\ g.memsz \in Nat /\ N \in Nat
        BY <4>3, SpaceSize DEF ElfSegment, Addr
      <4>8. g.vaddr + o \in Addr /\ (g.vaddr + o < h.vaddr \/ g.vaddr + o >= h.vaddr + h.filesz)
        <5>1. \A y, z \in Nat : y <= z => \A j \in 0..(y - 1) : j \in 0..(z - 1)
          OBVIOUS
        <5>2. o \in 0..(g.memsz - 1)
          BY <4>4, <4>6, <4>7, <5>1
        <5> QED
          BY <2>1, <2>2, <4>4, <4>5, <4>7, <5>2, ApartBytes
      <4>9. w[g.vaddr + o] = m[g.vaddr + o]
        BY <2>6, <4>8
      <4> QED
        BY <4>2, <4>9 DEF g
    <3> QED
      BY <3>1, <3>2
  <2>8. ASSUME NEW x \in Addr, \A i \in 1..(k + 1) : ~InFile(elf.phdrs[i], x) PROVE w[x] = 0
    <3>1. ~InFile(h, x) /\ \A i \in 1..k : i \in 1..(k + 1)
      BY <1>1, <2>8
    <3>2. m[x] = 0
      BY <2>8, <3>1 DEF Imaged
    <3>3. x < h.vaddr \/ x >= h.vaddr + h.filesz
      <4>1. x \in Nat
        BY SpaceSize DEF Addr
      <4> HIDE DEF h
      <4> QED
        BY <1>4, <2>1, <3>1, <4>1 DEF InFile
    <3> QED
      BY <2>6, <3>2, <3>3
  <2> QED
    BY <2>7, <2>8 DEF Imaged, w
<1> QED
  BY <1>3, <1>4

\* After the last header memory is the image.
LEMMA ImageLoaded ==
  ASSUME NEW elf, ValidElf(elf),
         \A i \in DOMAIN elf.phdrs :
           elf.phdrs[i].type = "LOAD" => elf.phdrs[i].vaddr + elf.phdrs[i].memsz <= N
  PROVE  LoadImage(elf) \in [Addr -> Byte] /\ Imaged(LoadImage(elf), elf, Len(elf.phdrs))
<1> DEFINE n == Len(elf.phdrs)
<1>1. PICK f \in [0..n -> [Addr -> Byte]] :
           /\ f[0] = Zeros /\ LoadImage(elf) = f[n]
           /\ \A k \in 1..n : f[k] = LoadSegment(f[k - 1], elf, elf.phdrs[k])
  BY SegmentRounds
<1>2. n \in Nat /\ n \in 0..n
  BY DEF ValidElf
<1> DEFINE A == {k \in 0..n : Imaged(f[k], elf, k)}
<1>3. 0 \in A
  <2>1. 1..0 = {} /\ 0 \in 0..n
    BY <1>2
  <2>2. Imaged(Zeros, elf, 0)
    BY <2>1 DEF Imaged, Zeros
  <2> QED
    BY <1>1, <2>1, <2>2
<1>4. ASSUME NEW k \in 0..(n - 1), k \in A PROVE k + 1 \in A
  <2>1. k + 1 \in 0..n /\ k + 1 \in 1..n /\ (k + 1) - 1 = k /\ k \in 0..n
    BY <1>2
  <2>2. f[k + 1] = LoadSegment(f[k], elf, elf.phdrs[k + 1]) /\ f[k] \in [Addr -> Byte] /\ Imaged(f[k], elf, k)
    BY <1>1, <1>4, <2>1
  <2>3. Imaged(f[k + 1], elf, k + 1)
    BY <2>2, OneMoreSegment
  <2> QED
    BY <2>1, <2>3
<1> HIDE DEF A
<1>5. n \in A
  BY <1>2, <1>3, <1>4, Counting
<1> QED
  BY <1>1, <1>2, <1>5 DEF A

---------------------------------------------------------------------------
(* What load_stack builds *)

\* The strings at the addresses in p, all of them from e up.
Strung(m, e, p, strs) ==
  /\ p \in Seq(Addr) /\ Len(p) = Len(strs)
  /\ \A i \in 1..Len(strs) : p[i] >= e /\ Holds(m, p[i], strs[i])

\* From e up: argc, the arrays of the arguments p and of the environment q with
\* their null pointers, and the auxiliary vector made of g.
Arrays(m, e, argv1, p, q, kept, g) ==
  /\ read32(m, e) = Len(p) + 1
  /\ WordsAt(m, e + 4, <<argv1>> \o p \o <<0>>)
  /\ WordsAt(m, e + 4 * (Len(p) + 3), q \o <<0>>)
  /\ Described(m, e + 4 * (Len(p) + Len(q) + 4), kept, g, Len(kept))

\* A guest's stack: the arrays and, above them, what they point to.
Built(m, e, args, env, kept, g, p, q, argv1) ==
  /\ e \in Nat /\ e % 4 = 0
  /\ e + 4 * (Len(args) + Len(env) + 4) + 8 * (Len(kept) + 1) <= STACK_BOTTOM
  /\ Arrays(m, e, argv1, p, q, kept, g)
  /\ Strung(m, e, p, args) /\ Strung(m, e, q, env)
  /\ g.platform_addr >= e /\ Holds(m, g.platform_addr, Platform)
  /\ g.rr >= e /\ g.rr < STACK_BOTTOM

\* Writes below a stack leave it alone.
LEMMA SameStrings ==
  ASSUME NEW m, NEW w, NEW lo \in Nat, SameFrom(m, w, lo), NEW strs \in Seq(Text), NEW p,
         Strung(m, lo, p, strs), NEW e \in Nat, e <= lo
  PROVE  Strung(w, e, p, strs)
<1>1. ASSUME NEW i \in 1..Len(strs) PROVE p[i] >= e /\ Holds(w, p[i], strs[i])
  <2>1. p[i] >= lo /\ Holds(m, p[i], strs[i])
    BY DEF Strung
  <2>2. strs[i] \in Seq(Byte)
    BY DEF Text
  <2>3. Holds(w, p[i], strs[i])
    BY <2>1, <2>2, SameString
  <2>4. p[i] \in Nat
    BY <2>1, SpaceSize DEF Holds, Addr
  <2> QED
    BY <2>1, <2>3, <2>4
<1> QED
  BY <1>1 DEF Strung

\* An array above every write.
LEMMA SameWords ==
  ASSUME NEW m, NEW w, NEW lo \in Nat, SameFrom(m, w, lo), NEW a \in Nat, a >= lo,
         NEW words \in Seq(Addr), a + 4 * Len(words) <= N, WordsAt(m, a, words)
  PROVE  WordsAt(w, a, words)
<1>1. ASSUME NEW i \in 1..Len(words) PROVE read32(w, a + 4 * (i - 1)) = words[i]
  <2> DEFINE b == a + 4 * (i - 1)
  <2>1. b \in Nat /\ b >= lo /\ b + 3 < N
    BY SpaceSize
  <2>2. read32(m, b) = words[i]
    BY DEF WordsAt
  <2> HIDE DEF b
  <2>3. read32(w, b) = words[i]
    BY <2>1, <2>2, SameWord
  <2> QED
    BY <2>3 DEF b
<1> QED
  BY <1>1 DEF WordsAt

\* The arrays of pointers as sequences of words.
LEMMA ArrayWords ==
  ASSUME NEW p \in Seq(Addr), NEW v \in Addr
  PROVE  /\ p \o <<0>> \in Seq(Addr) /\ Len(p \o <<0>>) = Len(p) + 1
         /\ (p \o <<0>>)[Len(p) + 1] = 0 /\ \A i \in 1..Len(p) : (p \o <<0>>)[i] = p[i]
         /\ <<v>> \o p \o <<0>> \in Seq(Addr) /\ Len(<<v>> \o p \o <<0>>) = Len(p) + 2
         /\ (<<v>> \o p \o <<0>>)[Len(p) + 2] = 0
         /\ \A i \in 1..Len(p) : (<<v>> \o p \o <<0>>)[i + 1] = p[i]
<1>1. 0 \in Addr
  BY SpaceSize DEF Addr
<1>2. /\ p \o <<0>> \in Seq(Addr) /\ Len(p \o <<0>>) = Len(p) + 1
      /\ (p \o <<0>>)[Len(p) + 1] = 0 /\ \A i \in 1..Len(p) : (p \o <<0>>)[i] = p[i]
  BY <1>1
<1> DEFINE u == <<v>> \o p
<1>3. /\ u \in Seq(Addr) /\ Len(u) = Len(p) + 1
      /\ \A i \in 1..Len(p) : u[i + 1] = p[i] /\ i + 1 \in 1..(Len(p) + 1)
  OBVIOUS
<1> HIDE DEF u
<1>4. /\ u \o <<0>> \in Seq(Addr) /\ Len(u \o <<0>>) = Len(p) + 2
      /\ (u \o <<0>>)[Len(p) + 2] = 0
      /\ \A i \in 1..(Len(p) + 1) : (u \o <<0>>)[i] = u[i]
  BY <1>1, <1>3
<1> QED
  BY <1>2, <1>3, <1>4 DEF u

\* Padding moves esp to a multiple of four.
LEMMA Aligned ==
  ASSUME NEW s \in Stack
  PROVE  LET t == [s EXCEPT !.esp = s.esp - (s.esp % 4)]
         IN /\ s.esp % 4 \in 0..3 /\ s.esp % 4 <= s.esp /\ t.esp % 4 = 0 /\ Grown(s, t, s.esp % 4)
<1> DEFINE t == [s EXCEPT !.esp = s.esp - (s.esp % 4)]  d == s.esp % 4
<1>1. s.esp \in Nat /\ s.esp < N /\ N \in Nat
  BY SpaceSize DEF Stack, Addr
<1>2. d \in 0..3 /\ d <= s.esp /\ (s.esp - d) % 4 = 0
  BY <1>1
<1> HIDE DEF d
<1>3. s.esp - d \in Addr
  BY <1>1, <1>2 DEF Addr
<1>4. t \in Stack /\ t.mem = s.mem /\ t.esp = s.esp - d
  BY <1>3 DEF Stack, d
<1> HIDE DEF t
<1>5. Grown(s, t, d)
  BY <1>4 DEF Grown
<1> QED
  BY <1>2, <1>4, <1>5 DEF t, d

\* load_stack builds the arrays over the strings, and writes nothing else.
LEMMA StackBuilt ==
  ASSUME NEW s \in Stack, s.esp = STACK_BOTTOM, NEW args \in Seq(Text), NEW env \in Seq(Text),
         NEW auxv \in Seq(AuxvEntry), NEW g0 \in GlobalWords, NEW r1 \in Addr, NEW r2 \in Addr,
         NEW v1 \in Addr, StackSize(args, env, auxv) <= s.esp
  PROVE  LET t == load_stack(s, args, env, auxv, g0, <<r1, r2>>, v1)
         IN /\ \E pa, rr \in Addr, p, q \in Seq(Addr) :
                 Built(t.mem, t.esp, args, env, Kept(auxv),
                       [g0 EXCEPT !.platform_addr = pa, !.rr = rr], p, q, v1)
            /\ \E n \in Nat : n <= StackSize(args, env, auxv) /\ Grown(s, t, n)
<1> DEFINE e == PushStrings(s, env)
           a == PushStrings(e, args)
           p == PushBytes(a, Platform \o <<0>>)
           r == Push(Push(p, r1), r2)
           y == [r EXCEPT !.esp = r.esp - (r.esp % 4)]
           g == [g0 EXCEPT !.platform_addr = p.esp, !.rr = r.esp]
           x == read_auxv(y, g, auxv)
           qs == e.ptrs \o <<0>>
           v == PushWords(x, qs)
           ps == <<v1>> \o a.ptrs \o <<0>>
           w == PushWords(v, ps)
           t == Push(w, Len(args) + 1)
           kept == Kept(auxv)
           dE == StringBytes(env)  dA == StringBytes(args)  dP == Len(Platform) + 1
           L == Len(args)  E == Len(env)  n == Len(kept)
           pad == r.esp % 4
<1>1. load_stack(s, args, env, auxv, g0, <<r1, r2>>, v1) = t
  BY DEF load_stack
<1>2. /\ L \in Nat /\ E \in Nat /\ kept \in Seq(AuxvEntry) /\ n \in Nat /\ dP \in Nat
      /\ Platform \in Text /\ s.esp \in Nat /\ s.esp < N /\ N \in Nat
  <2>1. kept \in Seq(AuxvEntry)
    BY KeptListed
  <2>2. n \in Nat
    <3> HIDE DEF kept
    <3> QED BY <2>1
  <2>3. Platform \in Text /\ dP \in Nat
    BY LoaderAssumption DEF Text
  <2> HIDE DEF n, kept, dP
  <2> QED
    BY <2>1, <2>2, <2>3, SpaceSize DEF Stack, Addr
<1>3. dE \in Nat /\ dA \in Nat
  <2>1. ASSUME NEW strs \in Seq(Text) PROVE StringBytes(strs) \in Nat
    <3>1. PICK size \in [0..Len(strs) -> Nat] : StringBytes(strs) = size[Len(strs)]
      BY <2>1, StringSizes
    <3>2. Len(strs) \in 0..Len(strs)
      BY <2>1
    <3> QED
      BY <3>1, <3>2
  <2> QED
    BY <2>1
<1>4. StackSize(args, env, auxv) = dE + dA + dP + 11 + 8 * (n + 1) + 4 * (E + 1) + 4 * (L + 2) + 4
  <2>1. Len(Platform) \in Nat
    BY <1>2 DEF Text
  <2>2. StackSize(args, env, auxv)
          = dE + dA + Len(Platform) + 12 + 8 * (n + 1) + 4 * (E + 1) + 4 * (L + 2) + 4
    BY DEF StackSize
  <2> HIDE DEF dE, dA, n, E, L, kept
  <2> QED
    BY <1>2, <1>3, <2>1, <2>2
<1> DEFINE cX == 8 * (n + 1)  cV == 4 * (E + 1)  cW == 4 * (L + 2)
           Z == dE + dA + dP + 11 + cX + cV + cW + 4
<1> HIDE DEF dE, dA, dP, L, E, n, kept
<1>5a. cX \in Nat /\ cV \in Nat /\ cW \in Nat /\ dP \in Nat /\ s.esp \in Nat /\ L + 1 < cW
  BY <1>2
<1>5. Z <= s.esp
  BY <1>4
<1> HIDE DEF cX, cV, cW
<1>6. Grown(s, e, dE) /\ Addressed(e, env, E)
  <2>1. dE <= s.esp
    BY <1>3, <1>5, <1>5a
  <2> QED
    BY <2>1, StringsPushed DEF dE, E
<1> HIDE DEF e
<1>7. e \in Stack /\ e.esp = s.esp - dE /\ e.esp \in Nat
  BY <1>6, SpaceSize DEF Grown, Stack, Addr
<1>7a. dA + dP + 11 + cX + cV + cW + 4 <= e.esp
  BY <1>3, <1>5, <1>5a, <1>7
<1>8. Grown(e, a, dA) /\ Addressed(a, args, L)
  <2>1. dA <= e.esp
    BY <1>3, <1>5a, <1>7, <1>7a
  <2> QED
    BY <1>7, <2>1, StringsPushed DEF dA, L
<1> HIDE DEF a
<1>9. a \in Stack /\ a.esp = e.esp - dA /\ a.esp \in Nat
  BY <1>8, SpaceSize DEF Grown, Stack, Addr
<1>9a. dP + 11 + cX + cV + cW + 4 <= a.esp
  BY <1>3, <1>5a, <1>7, <1>7a, <1>9
<1>10. Grown(a, p, dP) /\ Holds(p.mem, p.esp, Platform)
  <2>1. dP <= a.esp
    BY <1>5a, <1>9, <1>9a
  <2> QED
    BY <1>2, <1>9, <2>1, TextPushed DEF dP
<1> HIDE DEF p
<1>11. p \in Stack /\ p.esp = a.esp - dP /\ p.esp \in Nat /\ p.esp \in Addr
  BY <1>10, SpaceSize DEF Grown, Stack, Addr
<1>11a. 11 + cX + cV + cW + 4 <= p.esp
  BY <1>5a, <1>9, <1>9a, <1>11
<1>12. Grown(p, r, 8)
  <2>1. 8 <= p.esp
    BY <1>5a, <1>11, <1>11a
  <2> QED
    BY <1>11, <2>1, TwoPushed
<1> HIDE DEF r
<1>13. r \in Stack /\ r.esp = p.esp - 8 /\ r.esp \in Nat /\ r.esp \in Addr
  BY <1>12, SpaceSize DEF Grown, Stack, Addr
<1>13a. 3 + cX + cV + cW + 4 <= r.esp
  BY <1>5a, <1>11, <1>11a, <1>13
<1>14. pad \in 0..3 /\ Grown(r, y, pad) /\ y.esp % 4 = 0
  BY <1>13, Aligned
<1> HIDE DEF y, pad
<1>15. y \in Stack /\ y.esp = r.esp - pad /\ y.esp \in Nat
  BY <1>14, SpaceSize DEF Grown, Stack, Addr
<1>15a. cX + cV + cW + 4 <= y.esp /\ y.esp <= r.esp /\ pad \in Nat /\ pad <= 3
  <2>1. pad \in Nat /\ pad <= 3 /\ y.esp = r.esp - pad
    BY <1>14, <1>15
  <2>2. r.esp \in Nat /\ cX \in Nat /\ cV \in Nat /\ cW \in Nat
    BY <1>5a, <1>13
  <2>3. y.esp <= r.esp
    BY <2>1, <2>2
  <2> QED
    BY <1>13a, <2>1, <2>2, <2>3
<1>16. g \in GlobalWords
  BY <1>11, <1>13 DEF GlobalWords
<1>17. g.platform_addr = p.esp /\ g.rr = r.esp
  BY DEF GlobalWords
<1> HIDE DEF g
<1>18. Grown(y, x, cX) /\ Described(x.mem, x.esp, kept, g, n)
  <2>1. cX <= y.esp
    BY <1>5a, <1>15, <1>15a
  <2> QED
    BY <1>15, <1>16, <2>1, AuxvPushed DEF cX, n, kept
<1> HIDE DEF x
<1>19. x \in Stack /\ x.esp = y.esp - cX /\ x.esp \in Nat
  BY <1>18, SpaceSize DEF Grown, Stack, Addr
<1>19a. cV + cW + 4 <= x.esp
  BY <1>5a, <1>15, <1>15a, <1>19
<1>20. e.ptrs \in Seq(Addr) /\ Len(e.ptrs) = E /\ a.ptrs \in Seq(Addr) /\ Len(a.ptrs) = L
  BY <1>6, <1>7, <1>8, <1>9 DEF Addressed, Stack
<1>21. qs \in Seq(Addr) /\ Len(qs) = E + 1 /\ ps \in Seq(Addr) /\ Len(ps) = L + 2
  BY <1>20, ArrayWords
<1> HIDE DEF qs, ps
<1>22. Grown(x, v, cV) /\ WordsAt(v.mem, v.esp, qs)
  <2>1. cV <= x.esp
    BY <1>5a, <1>19, <1>19a
  <2> QED
    BY <1>19, <1>21, <2>1, WordsPushed DEF cV
<1> HIDE DEF v
<1>23. v \in Stack /\ v.esp = x.esp - cV /\ v.esp \in Nat
  BY <1>22, SpaceSize DEF Grown, Stack, Addr
<1>23a. cW + 4 <= v.esp
  BY <1>5a, <1>19, <1>19a, <1>23
<1>24. Grown(v, w, cW) /\ WordsAt(w.mem, w.esp, ps)
  <2>1. cW <= v.esp
    BY <1>5a, <1>23, <1>23a
  <2> QED
    BY <1>21, <1>23, <2>1, WordsPushed DEF cW
<1> HIDE DEF w
<1>25. w \in Stack /\ w.esp = v.esp - cW /\ w.esp \in Nat
  BY <1>24, SpaceSize DEF Grown, Stack, Addr
<1>26. Grown(w, t, 4) /\ read32(t.mem, t.esp) = L + 1
  <2>1. 4 <= w.esp
    BY <1>5a, <1>23, <1>23a, <1>25
  <2>2. L + 1 \in Addr
    <3>1. cW <= Z /\ L + 1 < N
      BY <1>2, <1>3, <1>5, <1>5a
    <3> QED
      BY <1>2, <3>1 DEF Addr
  <2> QED
    BY <1>25, <2>1, <2>2, WordPushed DEF L
<1> HIDE DEF t
<1>27. t \in Stack /\ t.esp = w.esp - 4 /\ t.esp \in Nat
  BY <1>26, SpaceSize DEF Grown, Stack, Addr
\* How much was pushed after each step, and that it is still there.
<1> DEFINE k3 == cW + 4
           k4 == cV + k3
           k5 == cX + k4
           k6 == pad + k5
           k7 == 8 + k6
           k8 == dP + k7
           k9 == dA + k8
<1>28. /\ k3 \in Nat /\ k4 \in Nat /\ k5 \in Nat /\ k6 \in Nat /\ k7 \in Nat /\ k8 \in Nat /\ k9 \in Nat
  BY <1>3, <1>5a, <1>15a
<1>29. dE + k9 <= Z /\ dE + k9 \in Nat
  BY <1>3, <1>5a, <1>15a
<1> HIDE DEF k3, k4, k5, k6, k7, k8, k9, Z
<1>30a. t.esp + 4 = w.esp
  BY <1>25, <1>27
<1>30b. w.esp + cW = v.esp
  BY <1>5a, <1>23, <1>25
<1>30c. v.esp + cV = x.esp
  BY <1>5a, <1>19, <1>23
<1>30d. x.esp + cX = y.esp
  BY <1>5a, <1>15, <1>19
<1>30e. t.esp <= x.esp /\ v.esp <= x.esp /\ w.esp <= v.esp
  <2>1. v.esp <= x.esp
    BY <1>5a, <1>19, <1>23, <1>30c
  <2>2. w.esp <= v.esp
    BY <1>5a, <1>23, <1>25, <1>30b
  <2>3. t.esp <= w.esp
    BY <1>25, <1>27, <1>30a
  <2> QED
    BY <1>19, <1>23, <1>25, <1>27, <2>1, <2>2, <2>3
<1>30f. t.esp <= y.esp
  BY <1>5a, <1>15, <1>19, <1>27, <1>30d, <1>30e
<1>30g. t.esp <= r.esp
  BY <1>13, <1>15, <1>15a, <1>27, <1>30f
<1>30h. t.esp <= p.esp
  BY <1>11, <1>13, <1>27, <1>30g
<1>30i. t.esp <= a.esp /\ p.esp <= a.esp
  BY <1>5a, <1>9, <1>11, <1>27, <1>30h
<1>30j. t.esp <= e.esp /\ a.esp <= e.esp
  BY <1>3, <1>7, <1>9, <1>27, <1>30i
<1>30k. e.esp <= s.esp
  BY <1>3, <1>5a, <1>7
<1>30l. r.esp < s.esp
  BY <1>5a, <1>7, <1>9, <1>11, <1>13, <1>30i, <1>30j, <1>30k
<1>30m. y.esp <= s.esp
  BY <1>5a, <1>13, <1>15, <1>15a, <1>30l
<1>30n. cW = 4 * L + 8 /\ cV = 4 * E + 4 /\ cX = 8 * n + 8
  BY <1>2 DEF cW, cV, cX
<1>30o. t.esp + 4 * (L + 3) = v.esp
  BY <1>2, <1>23, <1>25, <1>27, <1>30a, <1>30b, <1>30n
<1>30p. t.esp + 4 * (L + E + 4) = x.esp
  BY <1>2, <1>19, <1>23, <1>27, <1>30o, <1>30c, <1>30n
<1>30q. x.esp + 8 * (n + 1) = y.esp
  BY <1>2, <1>15, <1>19, <1>30d, <1>30n
<1>30r. x.esp <= N /\ v.esp <= N
  <2>1. x.esp <= y.esp
    BY <1>5a, <1>15, <1>19, <1>30d
  <2>2. x.esp <= s.esp /\ v.esp <= s.esp
    BY <1>5a, <1>15, <1>19, <1>23, <1>30e, <1>30m, <2>1
  <2> QED
    BY <1>2, <1>19, <1>23, <2>2
<1>31. t.esp % 4 = 0
  <2> DEFINE z == 2 * (n + 1) + (E + 1) + (L + 2) + 1
  <2>1. t.esp = y.esp - 4 * z /\ z \in Nat
    BY <1>2, <1>15, <1>19, <1>27, <1>30p, <1>30q
  <2> HIDE DEF z
  <2> QED
    BY <1>14, <1>15, <1>27, <2>1
<1>32. Grown(v, t, k3) /\ SameFrom(v.mem, t.mem, v.esp) /\ SameFrom(w.mem, t.mem, w.esp)
  BY <1>5a, <1>15a, <1>23, <1>24, <1>26, <1>28, GrownTwice DEF k3
<1>33. Grown(x, t, k4) /\ SameFrom(x.mem, t.mem, x.esp)
  BY <1>5a, <1>15a, <1>19, <1>22, <1>28, <1>32, GrownTwice DEF k4
<1>34. Grown(y, t, k5)
  BY <1>5a, <1>15a, <1>15, <1>18, <1>28, <1>33, GrownTwice DEF k5
<1>35. Grown(r, t, k6)
  BY <1>5a, <1>15a, <1>13, <1>14, <1>28, <1>34, GrownTwice DEF k6
<1>36. Grown(p, t, k7) /\ SameFrom(p.mem, t.mem, p.esp)
  BY <1>11, <1>12, <1>28, <1>35, GrownTwice DEF k7
<1>37. Grown(a, t, k8) /\ SameFrom(a.mem, t.mem, a.esp)
  BY <1>2, <1>9, <1>10, <1>28, <1>36, GrownTwice DEF k8
<1>38. Grown(e, t, k9) /\ SameFrom(e.mem, t.mem, e.esp)
  BY <1>3, <1>7, <1>8, <1>28, <1>37, GrownTwice DEF k9
<1>39. Grown(s, t, dE + k9)
  BY <1>3, <1>6, <1>28, <1>38, GrownTwice
<1>40. Arrays(t.mem, t.esp, v1, a.ptrs, e.ptrs, kept, g)
  <2>1. WordsAt(t.mem, w.esp, ps)
    <3>1. w.esp >= w.esp /\ w.esp + 4 * Len(ps) <= N
      <4>1. 4 * Len(ps) = cW
        BY <1>2, <1>21 DEF cW
      <4> QED
        BY <1>25, <1>30b, <1>30r, <4>1
    <3> QED
      BY <1>21, <1>24, <1>25, <1>32, <3>1, SameWords
  <2>2. WordsAt(t.mem, v.esp, qs)
    <3>1. v.esp >= v.esp /\ v.esp + 4 * Len(qs) <= N
      <4>1. 4 * Len(qs) = cV
        BY <1>2, <1>21 DEF cV
      <4> QED
        BY <1>23, <1>30c, <1>30r, <4>1
    <3> QED
      BY <1>21, <1>22, <1>23, <1>32, <3>1, SameWords
  <2>3. Described(t.mem, x.esp, kept, g, n)
    <3>1. x.esp >= x.esp /\ x.esp + 8 * n + 8 <= N
      BY <1>2, <1>15, <1>19, <1>30m, <1>30q
    <3> QED
      BY <1>2, <1>18, <1>19, <1>33, <3>1, SameVector
  <2> QED
    BY <1>20, <1>26, <1>30a, <1>30o, <1>30p, <2>1, <2>2, <2>3 DEF Arrays, n, ps, qs
<1>41. ASSUME NEW u, u \in Stack, NEW strs \in Seq(Text), Addressed(u, strs, Len(strs))
       PROVE  Strung(u.mem, u.esp, u.ptrs, strs)
  <2>1. u.ptrs \in Seq(Addr) /\ \A i \in 1..Len(strs) : Len(strs) - Len(strs) + i = i
    BY <1>41 DEF Stack
  <2> QED
    BY <1>41, <2>1 DEF Addressed, Strung
<1>42. Strung(t.mem, t.esp, a.ptrs, args)
  <2>1. Strung(a.mem, a.esp, a.ptrs, args)
    BY <1>8, <1>9, <1>41 DEF L
  <2> QED
    BY <1>9, <1>27, <1>30i, <1>37, <2>1, SameStrings
<1>43. Strung(t.mem, t.esp, e.ptrs, env)
  <2>1. Strung(e.mem, e.esp, e.ptrs, env)
    BY <1>6, <1>7, <1>41 DEF E
  <2> QED
    BY <1>7, <1>27, <1>30j, <1>38, <2>1, SameStrings
<1>44. Holds(t.mem, p.esp, Platform)
  <2>1. Platform \in Seq(Byte) /\ p.esp >= p.esp
    BY <1>2, <1>11 DEF Text
  <2> QED
    BY <1>10, <1>11, <1>36, <2>1, SameString
<1>45. t.esp + 4 * (L + E + 4) + 8 * (n + 1) <= STACK_BOTTOM
  BY <1>30m, <1>30p, <1>30q
<1>46. Built(t.mem, t.esp, args, env, kept, g, a.ptrs, e.ptrs, v1)
  <2>1. g.platform_addr >= t.esp /\ g.rr >= t.esp /\ g.rr < STACK_BOTTOM
    BY <1>11, <1>13, <1>17, <1>27, <1>30g, <1>30h, <1>30l
  <2> QED
    BY <1>17, <1>27, <1>31, <1>40, <1>42, <1>43, <1>44, <1>45, <2>1 DEF Built, L, E, n
<1>47. \E pa, rr \in Addr, pp, qq \in Seq(Addr) :
         Built(t.mem, t.esp, args, env, kept, [g0 EXCEPT !.platform_addr = pa, !.rr = rr], pp, qq, v1)
  BY <1>11, <1>13, <1>20, <1>46 DEF g
<1>48. \E k \in Nat : k <= StackSize(args, env, auxv) /\ Grown(s, t, k)
  <2>1. StackSize(args, env, auxv) = Z
    BY <1>4 DEF Z, cX, cV, cW
  <2> QED
    BY <1>29, <1>39, <2>1
<1> QED
  BY <1>1, <1>47, <1>48 DEF kept

\* Writes below a stack leave all of it alone.
LEMMA BuiltSame ==
  ASSUME NEW m, NEW w, NEW e, NEW args \in Seq(Text), NEW env \in Seq(Text), NEW kept \in Seq(AuxvEntry),
         NEW g, NEW p \in Seq(Addr), NEW q \in Seq(Addr), NEW v1 \in Addr,
         Built(m, e, args, env, kept, g, p, q, v1), SameFrom(m, w, e)
  PROVE  Built(w, e, args, env, kept, g, p, q, v1)
<1> DEFINE L == Len(args)  E == Len(env)  n == Len(kept)
<1>1. /\ e \in Nat /\ L \in Nat /\ E \in Nat /\ n \in Nat /\ N \in Nat /\ STACK_BOTTOM \in Nat
      /\ STACK_BOTTOM < N /\ e + 4 * (L + E + 4) + 8 * (n + 1) <= STACK_BOTTOM /\ e >= e /\ e <= e
  BY SpaceSize, LoaderAssumption DEF Built, Addr
<1>2. Len(p) = L /\ Len(q) = E
  BY DEF Built, Strung
<1> HIDE DEF L, E, n
<1>3. Strung(w, e, p, args) /\ Strung(w, e, q, env)
  <2>1. Strung(m, e, p, args) /\ Strung(m, e, q, env)
    BY DEF Built
  <2>2. Strung(w, e, p, args)
    BY <1>1, <2>1, SameStrings
  <2>3. Strung(w, e, q, env)
    BY <1>1, <2>1, SameStrings
  <2> QED
    BY <2>2, <2>3
<1>4. Holds(w, g.platform_addr, Platform)
  <2>1. Platform \in Seq(Byte)
    BY LoaderAssumption DEF Text
  <2>2. g.platform_addr >= e /\ Holds(m, g.platform_addr, Platform)
    BY DEF Built
  <2> QED
    BY <1>1, <2>1, <2>2, SameString
<1>5. Arrays(w, e, v1, p, q, kept, g)
  <2> DEFINE ps == <<v1>> \o p \o <<0>>  qs == q \o <<0>>
             b1 == e + 4  b2 == e + 4 * (L + 3)  b3 == e + 4 * (L + E + 4)
  <2>1. /\ read32(m, e) = L + 1 /\ WordsAt(m, b1, ps) /\ WordsAt(m, b2, qs)
        /\ Described(m, b3, kept, g, n)
    BY <1>2 DEF Built, Arrays, n
  <2>2. ps \in Seq(Addr) /\ Len(ps) = L + 2 /\ qs \in Seq(Addr) /\ Len(qs) = E + 1
    BY <1>2, ArrayWords
  <2> HIDE DEF ps, qs
  <2>3. /\ b1 \in Nat /\ b2 \in Nat /\ b3 \in Nat /\ b1 >= e /\ b2 >= e /\ b3 >= e
        /\ b1 + 4 * (L + 2) <= N /\ b2 + 4 * (E + 1) <= N /\ b3 + 8 * n + 8 <= N /\ e + 3 < N
    BY <1>1
  <2> HIDE DEF b1, b2, b3
  <2>4. read32(w, e) = L + 1
    BY <1>1, <2>1, <2>3, SameWord
  <2>5. WordsAt(w, b1, ps)
    BY <1>1, <2>1, <2>2, <2>3, SameWords
  <2>6. WordsAt(w, b2, qs)
    BY <1>1, <2>1, <2>2, <2>3, SameWords
  <2>7. Described(w, b3, kept, g, n)
    BY <1>1, <2>1, <2>3, SameVector
  <2> QED
    BY <1>2, <2>4, <2>5, <2>6, <2>7 DEF Arrays, ps, qs, b1, b2, b3, n
<1> QED
  BY <1>3, <1>4, <1>5 DEF Built

\* The bytes before the first zero are the string that was copied.
LEMMA StringFound ==
  ASSUME NEW m, NEW p, NEW str \in Text, Holds(m, p, str)
  PROVE  StringAt(m, p) = str
<1> DEFINE n == Len(str)
           Ends(k) == m[At(p, k)] = 0 /\ \A j \in 0..(k - 1) : m[At(p, j)] # 0
<1>1. /\ n \in Nat /\ p \in Nat /\ N \in Nat /\ p + n < N /\ n \in Addr
      /\ str = [k \in 1..n |-> str[k]] /\ \A k \in 1..n : str[k] # 0
  <2>1. n \in Nat /\ p \in Nat /\ N \in Nat /\ p + n < N
    BY SpaceSize DEF Holds, Addr, Text
  <2>2. str = [k \in 1..n |-> str[k]] /\ \A k \in 1..n : str[k] # 0
    BY DEF Text
  <2> HIDE DEF n
  <2>3. n \in Addr
    BY <2>1 DEF Addr
  <2> QED
    BY <2>1, <2>2, <2>3
<1>2. \A k \in 0..n : At(p, k) = p + k
  BY <1>1 DEF At
<1>3. m[At(p, n)] = 0
  <2>1. n \in 0..n
    BY <1>1
  <2> QED
    BY <1>2, <2>1 DEF Holds
<1>4. \A k \in 1..n : m[At(p, k - 1)] = str[k]
  <2> SUFFICES ASSUME NEW k \in 1..n PROVE m[At(p, k - 1)] = str[k]
    OBVIOUS
  <2>1. k - 1 \in 0..n /\ p + (k - 1) = p + k - 1
    BY <1>1
  <2>2. m[p + k - 1] = str[k]
    BY DEF Holds
  <2> QED
    BY <1>2, <2>1, <2>2
<1> HIDE DEF n
<1>5. \A j \in 0..(n - 1) : m[At(p, j)] # 0
  <2> SUFFICES ASSUME NEW j \in 0..(n - 1) PROVE m[At(p, j)] # 0
    OBVIOUS
  <2> DEFINE k == j + 1
  <2>1. k \in 1..n /\ k - 1 = j
    BY <1>1
  <2> HIDE DEF k
  <2>2. m[At(p, k - 1)] = str[k] /\ str[k] # 0
    BY <1>1, <1>4, <2>1
  <2> QED
    BY <2>1, <2>2
<1>6. ASSUME NEW k \in Addr, Ends(k) PROVE k = n
  <2>1. k \in Nat
    BY SpaceSize DEF Addr
  <2>2. ~(k < n)
    <3> SUFFICES ASSUME k < n PROVE FALSE
      OBVIOUS
    <3>1. k \in 0..(n - 1)
      BY <1>1, <2>1
    <3> QED
      BY <1>5, <1>6, <3>1
  <2>3. ~(n < k)
    <3> SUFFICES ASSUME n < k PROVE FALSE
      OBVIOUS
    <3>1. n \in 0..(k - 1)
      BY <1>1, <2>1
    <3> QED
      BY <1>3, <1>6, <3>1
  <2> QED
    BY <1>1, <2>1, <2>2, <2>3
<1>7. (CHOOSE k \in Addr : Ends(k)) = n
  <2>1. n \in Addr /\ Ends(n)
    BY <1>1, <1>3, <1>5
  <2> HIDE DEF Ends
  <2> QED
    BY <1>6, <2>1
<1>8. StringAt(m, p) = [k \in 1..n |-> m[At(p, k - 1)]]
  BY <1>7 DEF StringAt
<1>9. [k \in 1..n |-> m[At(p, k - 1)]] = [k \in 1..n |-> str[k]]
  BY <1>4
<1> QED
  BY <1>1, <1>8, <1>9

---------------------------------------------------------------------------
(* What a guest reads *)

\* The words a guest reads from esp up, of L arguments and E strings of the
\* environment.
Reads(L, E, n, p, q) ==
  /\ argc = L + 1
  /\ \A i \in 1..L : Argv(i) = p[i]
  /\ Argv(L + 1) = 0
  /\ \A i \in 1..E : Envp(i - 1) = q[i]
  /\ Envp(E) = 0
  /\ \A k \in 0..(2 * n + 1) : Word(4 + L + E + k) = read32(mem, esp + 4 * (L + E + 4) + 4 * k)

\* The words from esp up are those of the arrays.
LEMMA WordsRead ==
  ASSUME NEW args \in Seq(Text), NEW env \in Seq(Text), NEW kept \in Seq(AuxvEntry),
         NEW g, NEW p \in Seq(Addr), NEW q \in Seq(Addr), NEW v1 \in Addr,
         Built(mem, esp, args, env, kept, g, p, q, v1)
  PROVE  Reads(Len(args), Len(env), Len(kept), p, q)
<1> DEFINE L == Len(args)  E == Len(env)  n == Len(kept)
           ps == <<v1>> \o p \o <<0>>  qs == q \o <<0>>
           b1 == esp + 4  b2 == esp + 4 * (L + 3)  b3 == esp + 4 * (L + E + 4)
<1>1. /\ esp \in Nat /\ L \in Nat /\ E \in Nat /\ n \in Nat /\ N \in Nat /\ STACK_BOTTOM \in Nat
      /\ STACK_BOTTOM < N /\ esp + 4 * (L + E + 4) + 8 * (n + 1) <= STACK_BOTTOM
  BY SpaceSize, LoaderAssumption DEF Built, Addr
<1>2. Len(p) = L /\ Len(q) = E
  BY DEF Built, Strung
<1>3. read32(mem, esp) = L + 1 /\ WordsAt(mem, b1, ps) /\ WordsAt(mem, b2, qs)
  BY <1>2 DEF Built, Arrays
<1>4. /\ ps \in Seq(Addr) /\ Len(ps) = L + 2 /\ qs \in Seq(Addr) /\ Len(qs) = E + 1
      /\ qs[E + 1] = 0 /\ \A i \in 1..E : qs[i] = q[i]
      /\ ps[L + 2] = 0 /\ \A i \in 1..L : ps[i + 1] = p[i]
  <2> HIDE DEF L, E
  <2>1. ps \in Seq(Addr) /\ Len(ps) = L + 2 /\ ps[L + 2] = 0 /\ \A i \in 1..L : ps[i + 1] = p[i]
    BY <1>2, ArrayWords
  <2>2. qs \in Seq(Addr) /\ Len(qs) = E + 1 /\ qs[E + 1] = 0 /\ \A i \in 1..E : qs[i] = q[i]
    BY <1>2, ArrayWords
  <2> QED
    BY <2>1, <2>2
<1> HIDE DEF L, E, n, ps, qs
<1>5. ASSUME NEW k \in Nat, k <= L + E + 5 + 2 * n PROVE Word(k) = read32(mem, esp + 4 * k)
  <2>1. esp + 4 * k \in Nat /\ esp + 4 * k < N
    BY <1>1, <1>5
  <2> DEFINE y == esp + 4 * k
  <2> HIDE DEF y
  <2>2. y \in Nat /\ y < N
    BY <2>1 DEF y
  <2>2a. y % N = y
    BY <2>2, ModAddr
  <2>3. At(esp, 4 * k) = y
    BY <2>2a DEF At, y
  <2> QED
    BY <2>3 DEF Word, y
<1>6. argc = L + 1
  <2>1. 0 <= L + E + 5 + 2 * n /\ esp + 4 * 0 = esp
    BY <1>1
  <2> QED
    BY <1>3, <1>5, <2>1 DEF argc
<1>7. ASSUME NEW i \in 1..(L + 1) PROVE Argv(i) = ps[i + 1]
  <2> DEFINE k == 1 + i  j == i + 1
  <2>1. k \in Nat /\ k <= L + E + 5 + 2 * n /\ j \in 1..(L + 2) /\ esp + 4 * k = b1 + 4 * (j - 1)
    BY <1>1
  <2> HIDE DEF k, j, b1
  <2>2. Word(k) = read32(mem, esp + 4 * k)
    BY <1>5, <2>1
  <2>3. read32(mem, b1 + 4 * (j - 1)) = ps[j]
    BY <1>3, <1>4, <2>1 DEF WordsAt
  <2>4. Word(k) = ps[j]
    BY <2>1, <2>2, <2>3
  <2> QED
    BY <2>4 DEF Argv, k, j
<1>8. ASSUME NEW i \in 0..E PROVE Envp(i) = qs[i + 1]
  <2> DEFINE k == 2 + (L + 1) + i  j == i + 1
  <2>1. k \in Nat /\ k <= L + E + 5 + 2 * n /\ j \in 1..(E + 1) /\ esp + 4 * k = b2 + 4 * (j - 1)
    BY <1>1
  <2> HIDE DEF k, j, b2
  <2>2. Word(k) = read32(mem, esp + 4 * k)
    BY <1>5, <2>1
  <2>3. read32(mem, b2 + 4 * (j - 1)) = qs[j]
    BY <1>3, <1>4, <2>1 DEF WordsAt
  <2>4. Word(k) = qs[j]
    BY <2>1, <2>2, <2>3
  <2> QED
    BY <1>6, <2>4 DEF Envp, k, j
<1>9. ASSUME NEW k \in 0..(2 * n + 1) PROVE Word(4 + L + E + k) = read32(mem, b3 + 4 * k)
  <2> DEFINE j == 4 + L + E + k
  <2>1. j \in Nat /\ j <= L + E + 5 + 2 * n /\ esp + 4 * j = b3 + 4 * k
    BY <1>1
  <2> HIDE DEF j, b3
  <2>2. Word(j) = read32(mem, esp + 4 * j)
    BY <1>5, <2>1
  <2>3. Word(j) = read32(mem, b3 + 4 * k)
    BY <2>1, <2>2
  <2> QED
    BY <2>3 DEF j
<1>10. (\A i \in 1..L : Argv(i) = p[i]) /\ Argv(L + 1) = 0
  <2>1. L + 1 \in 1..(L + 1) /\ (L + 1) + 1 = L + 2 /\ \A i \in 1..L : i \in 1..(L + 1)
    BY <1>1
  <2>2. \A i \in 1..L : Argv(i) = p[i]
    BY <1>4, <1>7, <2>1
  <2>3. Argv(L + 1) = ps[(L + 1) + 1]
    BY <1>7, <2>1
  <2> QED
    BY <1>4, <2>1, <2>2, <2>3
<1>11. (\A i \in 1..E : Envp(i - 1) = q[i]) /\ Envp(E) = 0
  <2>1. E \in 0..E
    BY <1>1
  <2>2. ASSUME NEW i \in 1..E PROVE Envp(i - 1) = q[i]
    <3> DEFINE j == i - 1
    <3>1. j \in 0..E /\ j + 1 = i
      BY <1>1
    <3> HIDE DEF j
    <3>2. Envp(j) = qs[i]
      BY <1>8, <3>1
    <3> QED
      BY <1>4, <3>2 DEF j
  <2> QED
    BY <1>4, <1>8, <2>1, <2>2
<1>12. Reads(L, E, n, p, q)
  BY <1>6, <1>9, <1>10, <1>11 DEF Reads
<1> QED
  BY <1>12 DEF L, E, n

\* The globals once the string and the random bytes have their places.
GuestGlobals(elf, pa, rr) == [Globals(elf) EXCEPT !.platform_addr = pa, !.rr = rr]

\* The loader has built the stack of an ELF guest, above its structures.
GuestBuilt ==
  /\ given.file \in Files /\ given.file.kind = "ELF32"
  /\ given.line \in CommandLines /\ given.line.mode \in ElfModes /\ given.line.args # <<>>
  /\ given.auxv \in Auxvs /\ eip = given.file.entry
  /\ esp >= Scratch + ScratchSize
  /\ \E v1, pa, rr \in Addr, p, q \in Seq(Addr) :
       Built(mem, esp, given.line.args, given.line.env, Kept(given.auxv),
             GuestGlobals(given.file, pa, rr), p, q, v1)

\* What the guest was started with.
LEMMA GuestTypes ==
  ASSUME GuestBuilt
  PROVE  /\ given.line.args \in Seq(Text) /\ given.line.env \in Seq(Text)
         /\ given.auxv \in Seq(AuxvEntry) /\ Kept(given.auxv) \in Seq(AuxvEntry)
         /\ ValidElf(given.file) /\ esp \in Nat
<1>1. /\ given.line.args \in Seq(Text) /\ given.line.env \in Seq(Text)
      /\ given.auxv \in Seq(AuxvEntry) /\ ValidElf(given.file)
  BY LoaderAssumption DEF GuestBuilt
<1>2. Kept(given.auxv) \in Seq(AuxvEntry)
  BY <1>1, KeptListed
<1>3. esp \in Nat
  BY DEF GuestBuilt, Built
<1> QED
  BY <1>1, <1>2, <1>3

\* Arguments and environment are found through the arrays.
LEMMA ArgumentsFound ==
  ASSUME GuestBuilt
  PROVE  GuestFindsArguments
<1> DEFINE args == given.line.args  env == given.line.env  kept == Kept(given.auxv)
<1>1. args \in Seq(Text) /\ env \in Seq(Text) /\ kept \in Seq(AuxvEntry)
  BY GuestTypes
<1>2. PICK v1, pa, rr \in Addr, p, q \in Seq(Addr) :
        Built(mem, esp, args, env, kept, GuestGlobals(given.file, pa, rr), p, q, v1)
  BY DEF GuestBuilt
<1> DEFINE g == GuestGlobals(given.file, pa, rr)
<1> HIDE DEF args, env, kept, g
<1>3. Built(mem, esp, args, env, kept, g, p, q, v1) /\ v1 \in Addr /\ p \in Seq(Addr) /\ q \in Seq(Addr)
  BY <1>2 DEF g
<1>4. Reads(Len(args), Len(env), Len(kept), p, q)
  BY <1>1, <1>3, WordsRead
<1>5. esp % 4 = 0
  BY <1>3 DEF Built
<1>6. \A i \in 1..Len(args) : StringAt(mem, p[i]) = args[i]
  <2>1. \A i \in 1..Len(args) : Holds(mem, p[i], args[i]) /\ args[i] \in Text
    BY <1>1, <1>3 DEF Built, Strung
  <2> QED
    BY <2>1, StringFound
<1>7. \A i \in 1..Len(env) : StringAt(mem, q[i]) = env[i]
  <2>1. \A i \in 1..Len(env) : Holds(mem, q[i], env[i]) /\ env[i] \in Text
    BY <1>1, <1>3 DEF Built, Strung
  <2> QED
    BY <2>1, StringFound
<1>8. DOMAIN args = 1..Len(args) /\ DOMAIN env = 1..Len(env)
  BY <1>1
<1>9. /\ Argv(argc) = 0
      /\ \A i \in DOMAIN args : StringAt(mem, Argv(i)) = args[i]
      /\ \A i \in DOMAIN env : StringAt(mem, Envp(i - 1)) = env[i]
  BY <1>4, <1>6, <1>7, <1>8 DEF Reads
<1> QED
  BY <1>4, <1>5, <1>9 DEF GuestFindsArguments, Reads, args, env

\* What load_stack puts into the globals.
LEMMA GlobalsPlaced ==
  ASSUME NEW elf, ValidElf(elf), NEW pa \in Addr, NEW rr \in Addr
  PROVE  /\ Globals(elf) \in GlobalWords /\ GuestGlobals(elf, pa, rr) \in GlobalWords
         /\ GuestGlobals(elf, pa, rr).ph_addr = Globals(elf).ph_addr
         /\ GuestGlobals(elf, pa, rr).ph_size = elf.phentsize
         /\ GuestGlobals(elf, pa, rr).ph_num = Len(elf.phdrs)
         /\ GuestGlobals(elf, pa, rr).eip = elf.entry
         /\ GuestGlobals(elf, pa, rr).platform_addr = pa
         /\ GuestGlobals(elf, pa, rr).rr = rr
<1> DEFINE first == IF elf.phdrs # <<>> /\ elf.phdrs[1].type = "LOAD"
                      THEN (elf.phdrs[1].vaddr + elf.phoff) % N ELSE 0
<1>1. /\ elf.entry \in Addr /\ elf.phoff \in Nat /\ elf.phentsize \in Addr /\ Len(elf.phdrs) \in Addr
      /\ elf.phdrs \in Seq(ElfSegment)
  BY DEF ValidElf
<1>2. ASSUME NEW v \in Addr, NEW o \in Nat PROVE (v + o) % N \in Addr
  <2>1. v + o \in Nat
    BY SpaceSize DEF Addr
  <2> QED
    BY <2>1, ModAddr
<1>3. ASSUME elf.phdrs # <<>> PROVE elf.phdrs[1].vaddr \in Addr
  <2>1. elf.phdrs[1] \in ElfSegment
    BY <1>1, <1>3
  <2> QED
    BY <2>1 DEF ElfSegment
<1>4. first \in Addr
  <2>1. 0 \in Addr
    BY SpaceSize DEF Addr
  <2> QED
    BY <1>1, <1>2, <1>3, <2>1
<1>5. Globals(elf) = [ph_addr |-> first, ph_size |-> elf.phentsize, ph_num |-> Len(elf.phdrs),
                      eip |-> elf.entry, platform_addr |-> 0, rr |-> 0]
  BY DEF Globals
<1> HIDE DEF first
<1>6. 0 \in Addr
  BY SpaceSize DEF Addr
<1>7. Globals(elf) \in GlobalWords
  BY <1>1, <1>4, <1>5, <1>6 DEF GlobalWords
<1>9. /\ Globals(elf).ph_size = elf.phentsize
      /\ Globals(elf).ph_num = Len(elf.phdrs) /\ Globals(elf).eip = elf.entry
  BY <1>5
<1> DEFINE g0 == Globals(elf)  w0 == [g0 EXCEPT !.platform_addr = pa, !.rr = rr]
<1> HIDE DEF g0
<1>10. g0 \in GlobalWords
  BY <1>7 DEF g0
<1>11. /\ w0 \in GlobalWords /\ w0.ph_num = g0.ph_num /\ w0.eip = g0.eip
       /\ w0.ph_addr = g0.ph_addr /\ w0.ph_size = g0.ph_size
       /\ w0.platform_addr = pa /\ w0.rr = rr
  BY <1>10 DEF GlobalWords
<1>12. GuestGlobals(elf, pa, rr) = w0
  BY DEF GuestGlobals, g0
<1> HIDE DEF w0
<1> QED
  BY <1>7, <1>9, <1>11, <1>12 DEF g0

\* What the guest has to find for an entry x, as GuestFindsAuxv states it.
Describes(x, type, val) ==
  /\ type = x.type
  /\ type = 3 => HeadersAt(val)
  /\ type = 4 => val = given.file.phentsize
  /\ type \in {7, 31} => val = 0
  /\ type = 5 => val = Len(given.file.phdrs)
  /\ type = 9 => val = eip
  /\ type \in {15, 24} => StringAt(mem, val) = Platform
  /\ type = 25 => Below(val, esp) < Below(STACK_BOTTOM, esp)
  /\ type \notin {3, 4, 5, 7, 9, 15, 24, 25, 31} => val = x.val % N

\* The value of an entry describes the guest.
LEMMA EntryDescribes ==
  ASSUME NEW x \in AuxvEntry, NEW elf, ValidElf(elf), elf = given.file, eip = elf.entry,
         NEW pa \in Addr, NEW rr \in Addr, Holds(mem, pa, Platform),
         esp \in Nat, esp <= rr, rr < STACK_BOTTOM, HeadersAt(Globals(elf).ph_addr)
  PROVE  Describes(x, x.type, getters(x, GuestGlobals(elf, pa, rr)))
<1> DEFINE g == GuestGlobals(elf, pa, rr)
<1>1. /\ g.ph_num = Len(elf.phdrs) /\ g.eip = elf.entry /\ g.platform_addr = pa /\ g.rr = rr
      /\ g.ph_addr = Globals(elf).ph_addr /\ g.ph_size = elf.phentsize
  BY GlobalsPlaced
<1>2. StringAt(mem, pa) = Platform
  <2>1. Platform \in Text
    BY LoaderAssumption
  <2> QED
    BY <2>1, StringFound
<1>3. Below(rr, esp) < Below(STACK_BOTTOM, esp)
  <2>0. STACK_BOTTOM \in Addr
    BY LoaderAssumption
  <2>1. esp \in Addr /\ STACK_BOTTOM \in Addr /\ rr \in Nat /\ STACK_BOTTOM \in Nat /\ N \in Nat
        /\ esp <= STACK_BOTTOM
    BY <2>0, SpaceSize DEF Addr
  <2>2. Below(rr, esp) = rr - esp
    BY <2>1, BelowValue
  <2>3. Below(STACK_BOTTOM, esp) = STACK_BOTTOM - esp
    BY <2>1, BelowValue
  <2> QED
    BY <2>1, <2>2, <2>3
<1> HIDE DEF g
<1>4. x.type = 5 => getters(x, g) = Len(given.file.phdrs)
  BY <1>1 DEF getters
<1>5. x.type = 9 => getters(x, g) = eip
  BY <1>1 DEF getters
<1>6. x.type \in {15, 24} => getters(x, g) = pa
  BY <1>1 DEF getters
<1>7. x.type = 25 => getters(x, g) = rr
  BY <1>1 DEF getters
<1>8. x.type \notin {3, 4, 5, 7, 9, 15, 24, 25, 31} => getters(x, g) = x.val % N
  BY DEF getters
<1>9. x.type = 3 => getters(x, g) = Globals(elf).ph_addr
  BY <1>1 DEF getters
<1>10. /\ x.type = 4 => getters(x, g) = given.file.phentsize
       /\ x.type \in {7, 31} => getters(x, g) = 0
  BY <1>1 DEF getters
<1> QED
  BY <1>2, <1>3, <1>4, <1>5, <1>6, <1>7, <1>8, <1>9, <1>10 DEF Describes, g

\* The words of the vector, from the one behind envp up.
LEMMA AuxvFound ==
  ASSUME GuestBuilt, HeadersAt(Globals(given.file).ph_addr)
  PROVE  GuestFindsAuxv
<1> DEFINE args == given.line.args  env == given.line.env  kept == Kept(given.auxv)  elf == given.file
<1>1. args \in Seq(Text) /\ env \in Seq(Text) /\ kept \in Seq(AuxvEntry) /\ ValidElf(elf) /\ esp \in Nat
  BY GuestTypes
<1>2. PICK v1, pa, rr \in Addr, p, q \in Seq(Addr) :
        Built(mem, esp, args, env, kept, GuestGlobals(elf, pa, rr), p, q, v1)
  BY DEF GuestBuilt
<1>2a. eip = elf.entry
  BY DEF GuestBuilt
<1> DEFINE g == GuestGlobals(elf, pa, rr)
           L == Len(args)  E == Len(env)  n == Len(kept)  b == esp + 4 * (L + E + 4)
<1> HIDE DEF args, env, kept, elf, g
<1>3. Built(mem, esp, args, env, kept, g, p, q, v1) /\ v1 \in Addr /\ p \in Seq(Addr) /\ q \in Seq(Addr)
  BY <1>2 DEF g
<1>4. Reads(L, E, n, p, q)
  BY <1>1, <1>3, WordsRead
<1>5. L \in Nat /\ E \in Nat /\ n \in Nat
  BY <1>1
<1>6. Described(mem, b, kept, g, n)
  BY <1>3 DEF Built, Arrays, Strung
<1>7. g.platform_addr = pa /\ g.rr = rr
  BY <1>1, <1>2, GlobalsPlaced DEF g
<1>8. Holds(mem, pa, Platform) /\ esp <= rr /\ rr < STACK_BOTTOM
  <2>1. Holds(mem, pa, Platform) /\ rr >= esp /\ rr < STACK_BOTTOM
    BY <1>3, <1>7 DEF Built
  <2>2. rr \in Nat
    BY <1>2, SpaceSize DEF Addr
  <2> QED
    BY <1>1, <2>1, <2>2
<1>9. \A i \in 1..n : kept[i] \in AuxvEntry
  BY <1>1
<1>10. \A i \in 1..n : Describes(kept[i], kept[i].type, getters(kept[i], g))
  BY <1>1, <1>2, <1>2a, <1>8, <1>9, EntryDescribes DEF elf, g
<1> HIDE DEF L, E, n
<1>11. ASSUME NEW k \in 0..(2 * n + 1) PROVE Auxv(k) = read32(mem, b + 4 * k)
  <2>1. argc = L + 1 /\ Word(4 + L + E + k) = read32(mem, b + 4 * k)
    BY <1>4 DEF Reads
  <2>2. 3 + (L + 1) + E + k = 4 + L + E + k
    BY <1>5
  <2>3. Auxv(k) = Word(3 + (L + 1) + E + k)
    BY <2>1 DEF Auxv, E, env
  <2> QED
    BY <2>1, <2>2, <2>3
<1> HIDE DEF b
<1>12. b \in Nat
  BY <1>1, <1>5 DEF b
<1>13. Auxv(2 * n) = 0 /\ Auxv((2 * n) + 1) = 0
  <2>1. 2 * n \in 0..(2 * n + 1) /\ (2 * n) + 1 \in 0..(2 * n + 1)
        /\ 4 * (2 * n) = 8 * n /\ b + 4 * ((2 * n) + 1) = b + 8 * n + 4
    BY <1>5, <1>12
  <2>2. read32(mem, b + 8 * n) = 0 /\ read32(mem, b + 8 * n + 4) = 0
    BY <1>6 DEF Described
  <2> QED
    BY <1>11, <2>1, <2>2
<1>14. ASSUME NEW i \in 1..n
       PROVE  Describes(kept[i], Auxv(2 * (n - i)), Auxv(2 * (n - i) + 1))
  <2> DEFINE k == 2 * (n - i)
  <2>1. k \in 0..(2 * n + 1) /\ k + 1 \in 0..(2 * n + 1)
        /\ b + 4 * k = b + 8 * (n - i) /\ b + 4 * (k + 1) = b + 8 * (n - i) + 4
    BY <1>5, <1>12
  <2>2. /\ read32(mem, b + 8 * (n - i)) = kept[i].type
        /\ read32(mem, b + 8 * (n - i) + 4) = getters(kept[i], g)
    BY <1>6 DEF Described
  <2> HIDE DEF k
  <2>3. Auxv(k) = kept[i].type /\ Auxv(k + 1) = getters(kept[i], g)
    BY <1>11, <2>1, <2>2
  <2>4. Describes(kept[i], Auxv(k), Auxv(k + 1))
    BY <1>10, <2>3
  <2> QED
    BY <2>4 DEF k
<1> QED
  BY <1>13, <1>14 DEF GuestFindsAuxv, Describes, n, kept

---------------------------------------------------------------------------
(* What a running guest writes *)

\* The memories agree but for the structures of the guest.
Beside(m, w) == \A x \in Addr : x < Scratch \/ x >= Scratch + ScratchSize => w[x] = m[x]

\* The memories, with bytes in T, that agree with m but for the structures.
Besides(m, T) == {w \in [Addr -> T] : Beside(m, w)}

\* The words a guest stores at Scratch.
LEMMA FilledBeside ==
  ASSUME NEW words, Len(words) \in Nat, 4 * Len(words) <= ScratchSize
  PROVE  Beside(mem, Filled(words))
<1> DEFINE n == Len(words)
<1>1. ScratchSize \in Nat /\ Scratch \in Addr /\ Scratch + ScratchSize <= N
  BY ProcessAssumption
<1>2. ASSUME NEW x \in Addr, x < Scratch \/ x >= Scratch + ScratchSize PROVE ~(Below(x, Scratch) < 4 * n)
  <2>1. x \in Nat /\ Scratch \in Nat /\ N \in Nat
    BY <1>1, SpaceSize DEF Addr
  <2>2. Below(x, Scratch) = IF x >= Scratch THEN x - Scratch ELSE x - Scratch + N
    BY <1>1, BelowValue
  <2> QED
    BY <1>1, <1>2, <2>1, <2>2
<1> HIDE DEF n
<1>3. ASSUME NEW x \in Addr, ~(Below(x, Scratch) < 4 * n) PROVE Filled(words)[x] = mem[x]
  BY <1>3 DEF Filled, n
<1> QED
  BY <1>2, <1>3 DEF Beside

\* A write of 16 bits beside neither.
LEMMA WriteBeside16 ==
  ASSUME NEW m, NEW T, Byte \subseteq T, NEW w \in Besides(m, T),
         NEW o \in Nat, o + 1 < ScratchSize, NEW v \in Addr
  PROVE  write16(w, At(Scratch, o), v) \in Besides(m, T)
<1> DEFINE a == Scratch + o
<1>0. w \in [Addr -> T] /\ Beside(m, w)
  BY DEF Besides
<1>1. ScratchSize \in Nat /\ Scratch \in Addr /\ Scratch + ScratchSize <= N
  BY ProcessAssumption
<1>2. Scratch \in Nat /\ N \in Nat
  BY <1>1, SpaceSize DEF Addr
<1>3. a \in Nat /\ a >= Scratch /\ a + 1 < Scratch + ScratchSize /\ a + 1 < N /\ a < N /\ a + 1 \in Nat
  BY <1>1, <1>2
<1>4. At(Scratch, o) = a
  BY <1>3, ModAddr DEF At
<1> HIDE DEF a
<1>5. At(a, 0) = a /\ At(a, 1) = a + 1
  <2>1. a + 0 = a
    BY <1>3
  <2> QED
    BY <1>3, <2>1, ModAddr DEF At
<1>6. Byte0(v) \in T /\ Byte1(v) \in T
  BY ByteSplit
<1>7. write16(w, a, v) = [w EXCEPT ![a] = Byte0(v), ![a + 1] = Byte1(v)]
  BY <1>5 DEF write16
<1>8. write16(w, a, v) \in [Addr -> T]
  BY <1>0, <1>6, <1>7
<1>9. ASSUME NEW x \in Addr, x < Scratch \/ x >= Scratch + ScratchSize PROVE write16(w, a, v)[x] = m[x]
  <2>1. x # a /\ x # a + 1
    BY <1>1, <1>2, <1>3, <1>9, SpaceSize DEF Addr
  <2> QED
    BY <1>0, <1>7, <1>9, <2>1 DEF Beside
<1> QED
  BY <1>4, <1>8, <1>9 DEF Beside, Besides

\* The answers of poll.
LEMMA ReventsBeside ==
  ASSUME NEW m, NEW w, DOMAIN w = Addr, w = [x \in Addr |-> w[x]], Beside(m, w), NEW answers \in Answers
  PROVE  Beside(m, revents(w, Scratch, answers))
<1> DEFINE n == Len(answers)
           T == {w[x] : x \in Addr} \cup Byte
           S == Besides(m, T)
           More(u, i) == write16(u, At(Scratch, (8 * (i - 1)) + 6), answers[i])
           step == [x \in S \X (1..n) |-> More(x[1], x[2])]
           copied == CHOOSE f : f = [i \in 0..n |-> IF i = 0 THEN w ELSE More(f[i - 1], i)]
<1>1. answers \in Seq(Addr) /\ n \in Nat /\ 8 * n <= ScratchSize /\ ScratchSize \in Nat
  BY ProcessAssumption
<1>2. revents(w, Scratch, answers) = copied[n]
  BY DEF revents
<1>3. w \in S
  BY DEF Besides
<1>4. ASSUME NEW u \in S, NEW i \in 1..n PROVE More(u, i) \in S
  <2> DEFINE o == (8 * (i - 1)) + 6
  <2>1. o \in Nat /\ o + 1 < ScratchSize /\ answers[i] \in Addr
    BY <1>1
  <2>2. Byte \subseteq T
    OBVIOUS
  <2> HIDE DEF o, T
  <2> DEFINE v == answers[i]  z == write16(u, At(Scratch, o), v)
  <2>3. v \in Addr
    BY <2>1
  <2> HIDE DEF v
  <2>4. z \in Besides(m, T)
    BY <2>1, <2>2, <2>3, WriteBeside16
  <2> QED
    BY <2>4 DEF o, v
<1>5. \A x \in S, k \in 1..n : step[<<x, k>>] = More(x, k)
  OBVIOUS
<1> HIDE DEF step, n, More, S, T, copied
<1>6. Closed(step, S, n)
  BY <1>4, <1>5 DEF Closed
<1>7. PICK f : Runs(f, w, step, S, n)
  BY <1>1, <1>3, <1>6, History
<1>8. \A k \in 1..n : f[k] = More(f[k - 1], k)
  <2>1. \A k \in 1..n : k - 1 \in 0..n
    BY <1>1
  <2> QED
    BY <1>5, <1>7, <2>1 DEF Runs
<1>9. f = [k \in 0..n |-> IF k = 0 THEN w ELSE More(f[k - 1], k)]
  <2>1. \A k \in 0..n : f[k] = IF k = 0 THEN w ELSE More(f[k - 1], k)
    BY <1>1, <1>7, <1>8 DEF Runs
  <2> QED
    BY <1>7, <2>1 DEF Runs
<1>10. copied = [k \in 0..n |-> IF k = 0 THEN w ELSE More(copied[k - 1], k)]
  BY <1>9 DEF copied
<1>11. copied[n] = f[n]
  <2>1. Alike(copied, f, n)
    <3>1. copied[0] = w /\ f[0] = w
      BY <1>1, <1>9, <1>10
    <3>2. ASSUME NEW k \in 1..n PROVE copied[k] = More(copied[k - 1], k)
      <4>1. k \in 0..n /\ k # 0
        BY <1>1
      <4> QED
        BY <1>10, <4>1
    <3> QED
      BY <1>8, <3>1, <3>2 DEF Alike
  <2> QED
    BY <1>1, <2>1, SameRounds
<1>12. f[n] \in S
  BY <1>1, <1>7 DEF Runs
<1> QED
  BY <1>2, <1>11, <1>12 DEF S, Besides

\* The number of the descriptor, which do_set_thread_area writes back.
LEMMA WriteBeside32 ==
  ASSUME NEW m, NEW w, w = [x \in Addr |-> w[x]], Beside(m, w), NEW v
  PROVE  Beside(m, write32(w, Scratch, v))
<1> DEFINE u == write32(w, Scratch, v)
<1>1. ScratchSize \in Nat /\ Scratch \in Addr /\ Scratch + ScratchSize <= N /\ 12 <= ScratchSize
  BY ProcessAssumption
<1>2. Scratch \in Nat /\ N \in Nat
  BY <1>1, SpaceSize DEF Addr
<1>3. Range4(Scratch) = Scratch..(Scratch + 3)
  BY <1>1, <1>2, RangeNoWrap
<1>4. ASSUME NEW x \in Addr, x < Scratch \/ x >= Scratch + ScratchSize PROVE x \notin Range4(Scratch)
  BY <1>1, <1>2, <1>3, <1>4, SpaceSize DEF Addr
<1>5. ASSUME NEW x \in Addr, x \notin Range4(Scratch) PROVE u[x] = w[x]
  BY <1>1, <1>5, AtFacts DEF Range4, write32
<1> HIDE DEF u
<1>6. ASSUME NEW x \in Addr, x < Scratch \/ x >= Scratch + ScratchSize PROVE u[x] = m[x]
  BY <1>4, <1>5, <1>6 DEF Beside
<1> QED
  BY <1>6 DEF Beside, u

\* What Filled returns is a memory.
LEMMA FilledMemory ==
  ASSUME NEW words
  PROVE  DOMAIN Filled(words) = Addr /\ Filled(words) = [x \in Addr |-> Filled(words)[x]]
  BY DEF Filled

\* The steps of a guest that write to memory write to its structures only.
LEMMA WritevBeside ==
  ASSUME NEW iovs \in Iovecs, Writev(iovs)
  PROVE  Beside(mem, mem')
<1> DEFINE n == Len(iovs)  words == Pairs(iovs)
<1>1. n \in Nat /\ 8 * n <= ScratchSize /\ ScratchSize \in Nat
  BY ProcessAssumption
<1>2. Len(words) = 2 * n
  <2>1. words = [k \in 1..(2 * n) |-> words[k]] /\ 2 * n \in Nat
    BY <1>1 DEF Pairs
  <2> HIDE DEF words
  <2> QED
    BY <2>1
<1>3. mem' = Filled(words)
  BY DEF Writev
<1> HIDE DEF words
<1>4. Len(words) \in Nat /\ 4 * Len(words) <= ScratchSize
  BY <1>1, <1>2
<1> QED
  BY <1>3, <1>4, FilledBeside

\* poll fills an array and writes its answers into it.
LEMMA PollBeside ==
  ASSUME NEW answers \in Answers, Poll(answers)
  PROVE  Beside(mem, mem')
<1> DEFINE n == Len(answers)  words == [i \in 1..(2 * n) |-> 1]  m == Filled(words)
<1>1. n \in Nat /\ 8 * n <= ScratchSize /\ ScratchSize \in Nat
  BY ProcessAssumption
<1>2. Len(words) = 2 * n
  BY <1>1
<1>3. mem' = revents(m, Scratch, answers) \/ mem' = m
  BY DEF Poll
<1> HIDE DEF words
<1>4. Len(words) \in Nat /\ 4 * Len(words) <= ScratchSize
  BY <1>1, <1>2
<1>5. Beside(mem, m) /\ DOMAIN m = Addr /\ m = [x \in Addr |-> m[x]]
  BY <1>4, FilledBeside, FilledMemory
<1> HIDE DEF m
<1>6. Beside(mem, revents(m, Scratch, answers))
  BY <1>5, ReventsBeside
<1> QED
  BY <1>3, <1>5, <1>6

\* set_thread_area fills a structure and writes one word of it back.
LEMMA AreaBeside ==
  ASSUME NEW entry, NEW base, NEW limit, SetThreadArea(entry, base, limit)
  PROVE  Beside(mem, mem')
<1> DEFINE words == <<entry % N, base, limit>>  m == Filled(words)
<1>1. Len(words) = 3
  OBVIOUS
<1>2. mem' = m \/ mem' = write32(m, Scratch, seen'.index)
  BY DEF SetThreadArea
<1> HIDE DEF words
<1>3. Len(words) \in Nat /\ 4 * Len(words) <= ScratchSize
  BY <1>1, ProcessAssumption
<1>4. Beside(mem, m) /\ m = [x \in Addr |-> m[x]]
  BY <1>3, FilledBeside, FilledMemory
<1> HIDE DEF m
<1>5. Beside(mem, write32(m, Scratch, seen'.index))
  BY <1>4, WriteBeside32
<1> QED
  BY <1>2, <1>4, <1>5

---------------------------------------------------------------------------
(* The image of a guest *)

\* The segments lie below the structures of the guest.
LowSegments(elf) ==
  \A i \in DOMAIN elf.phdrs :
    elf.phdrs[i].type = "LOAD" => elf.phdrs[i].vaddr + elf.phdrs[i].memsz <= Scratch

\* What ImageIntact says of a memory.
Whole(m, elf) ==
  \A i \in DOMAIN elf.phdrs :
    LET h == elf.phdrs[i] IN
      h.type = "LOAD" =>
        \A k \in 0..(h.memsz - 1) :
          m[h.vaddr + k] = IF k < h.filesz THEN elf.bytes[h.offset + k + 1] ELSE 0

\* The address of a byte of a segment.
LEMMA SegmentByte ==
  ASSUME NEW v \in Nat, NEW s \in Nat, v + s <= Scratch, NEW k \in 0..(s - 1)
  PROVE  v + k \in Addr /\ v + k < Scratch
<1>1. Scratch \in Nat /\ Scratch < N /\ N \in Nat
  BY ProcessAssumption, SpaceSize DEF Addr
<1> QED
  BY <1>1 DEF Addr

\* What is not in the file of a segment is in the file of no other.
LEMMA ImageWhole ==
  ASSUME NEW elf, ValidElf(elf), LowSegments(elf), NEW m, Imaged(m, elf, Len(elf.phdrs))
  PROVE  Whole(m, elf)
<1> DEFINE n == Len(elf.phdrs)
<1>1. n \in Nat /\ DOMAIN elf.phdrs = 1..n /\ \A i \in 1..n : elf.phdrs[i] \in ElfSegment
  BY DEF ValidElf
<1> HIDE DEF n
<1>2. ASSUME NEW i \in 1..n, elf.phdrs[i].type = "LOAD", NEW k \in 0..(elf.phdrs[i].memsz - 1)
      PROVE  LET h == elf.phdrs[i]
             IN m[h.vaddr + k] = IF k < h.filesz THEN elf.bytes[h.offset + k + 1] ELSE 0
  <2> DEFINE h == elf.phdrs[i]  x == h.vaddr + k
  <2>1. h \in ElfSegment /\ h.type = "LOAD" /\ k \in 0..(h.memsz - 1)
    BY <1>1, <1>2
  <2>2. h.filesz <= h.memsz /\ h.vaddr + h.memsz <= Scratch
    BY <1>1, <2>1 DEF ValidElf, LowSegments
  <2>3. k < h.filesz => \A o \in 0..(h.filesz - 1) : m[h.vaddr + o] = elf.bytes[h.offset + o + 1]
    BY <1>1, <2>1 DEF Imaged, n
  <2>4. \A j \in 1..n : /\ elf.phdrs[j] \in ElfSegment
                        /\ elf.phdrs[j].type = "LOAD" => elf.phdrs[j].filesz <= elf.phdrs[j].memsz
    BY <1>1 DEF ValidElf
  <2>5. \A j \in 1..n : elf.phdrs[j].type = "LOAD" /\ j # i =>
          h.vaddr + h.memsz <= elf.phdrs[j].vaddr \/ elf.phdrs[j].vaddr + elf.phdrs[j].memsz <= h.vaddr
    BY <1>1, <2>1 DEF ValidElf
  <2>6. \A y \in Addr : (\A j \in 1..n : ~InFile(elf.phdrs[j], y)) => m[y] = 0
    BY DEF Imaged, n
  <2>7. ASSUME NEW j \in 1..n, j = i PROVE elf.phdrs[j] = h
    BY <2>7
  <2> HIDE DEF h
  <2>8. h.vaddr \in Nat /\ h.memsz \in Nat /\ h.filesz \in Nat /\ k \in Nat /\ k < h.memsz
    BY <2>1, SpaceSize DEF ElfSegment, Addr
  <2>9. x \in Addr
    BY <2>1, <2>2, <2>8, SegmentByte
  <2>10. CASE k < h.filesz
    <3>1. k \in 0..(h.filesz - 1)
      BY <2>8, <2>10
    <3> QED
      BY <2>3, <2>10, <3>1 DEF h
  <2>11. CASE ~(k < h.filesz)
    <3>1. ~InFile(h, x)
      <4>1. \A v, f \in Nat : ~(k < f) => ~(v + k < v + f)
        BY <2>8
      <4> QED
        BY <2>8, <2>11, <4>1 DEF InFile
    <3>2. ASSUME NEW j \in 1..n PROVE ~InFile(elf.phdrs[j], x)
      <4>1. CASE j = i
        BY <2>7, <3>1, <4>1
      <4>2. CASE j # i /\ elf.phdrs[j].type = "LOAD"
        <5> DEFINE g == elf.phdrs[j]
        <5>1. g \in ElfSegment /\ g.filesz <= g.memsz
              /\ (h.vaddr + h.memsz <= g.vaddr \/ g.vaddr + g.memsz <= h.vaddr)
          BY <2>4, <2>5, <4>2
        <5> HIDE DEF g
        <5>2. g.vaddr \in Nat /\ g.filesz \in Nat /\ g.memsz \in Nat
          BY <5>1, SpaceSize DEF ElfSegment, Addr
        <5>3. \A v, s, w, f, z \in Nat : (v + s <= w \/ w + z <= v) /\ f <= z /\ k < s =>
                ~(v + k >= w /\ v + k < w + f)
          BY <2>8
        <5>4. ~(h.vaddr + k >= g.vaddr /\ h.vaddr + k < g.vaddr + g.filesz)
          BY <2>8, <5>1, <5>2, <5>3
        <5> QED
          BY <5>4 DEF InFile, g
      <4>3. CASE elf.phdrs[j].type # "LOAD"
        BY <4>3 DEF InFile
      <4> QED
        BY <4>1, <4>2, <4>3
    <3>3. m[x] = 0
      BY <2>6, <2>9, <3>2
    <3> QED
      BY <2>11, <3>3 DEF h
  <2> QED
    BY <2>10, <2>11
<1> QED
  BY <1>1, <1>2 DEF Whole

\* A write above the segments leaves them alone.
LEMMA WholeSame ==
  ASSUME NEW elf, ValidElf(elf), LowSegments(elf), NEW m, NEW w, Whole(m, elf),
         \A x \in Addr : x < Scratch => w[x] = m[x]
  PROVE  Whole(w, elf)
<1> DEFINE n == Len(elf.phdrs)
<1>1. n \in Nat /\ DOMAIN elf.phdrs = 1..n /\ \A i \in 1..n : elf.phdrs[i] \in ElfSegment
  BY DEF ValidElf
<1> HIDE DEF n
<1>2. ASSUME NEW i \in 1..n, elf.phdrs[i].type = "LOAD", NEW k \in 0..(elf.phdrs[i].memsz - 1)
      PROVE  w[elf.phdrs[i].vaddr + k] = m[elf.phdrs[i].vaddr + k]
  <2> DEFINE h == elf.phdrs[i]
  <2>1. h \in ElfSegment /\ k \in 0..(h.memsz - 1) /\ h.vaddr + h.memsz <= Scratch
    BY <1>1, <1>2 DEF LowSegments
  <2> HIDE DEF h
  <2>2. h.vaddr \in Nat /\ h.memsz \in Nat
    BY <2>1, SpaceSize DEF ElfSegment, Addr
  <2>3. h.vaddr + k \in Addr /\ h.vaddr + k < Scratch
    BY <2>1, <2>2, SegmentByte
  <2>4. w[h.vaddr + k] = m[h.vaddr + k]
    BY <2>3
  <2> QED
    BY <2>4 DEF h
<1> QED
  BY <1>1, <1>2 DEF Whole

---------------------------------------------------------------------------
(* The guest that main starts *)

\* The size of a stack is a number of bytes.
LEMMA SizeNatural ==
  ASSUME NEW args \in Seq(Text), NEW env \in Seq(Text), NEW auxv \in Seq(AuxvEntry)
  PROVE  StackSize(args, env, auxv) \in Nat
<1>1. ASSUME NEW strs \in Seq(Text) PROVE StringBytes(strs) \in Nat
  <2>1. PICK size \in [0..Len(strs) -> Nat] : StringBytes(strs) = size[Len(strs)]
    BY StringSizes
  <2>2. Len(strs) \in 0..Len(strs)
    OBVIOUS
  <2> QED
    BY <2>1, <2>2
<1>2. StringBytes(args) \in Nat /\ StringBytes(env) \in Nat
  BY <1>1
<1>3. Len(args) \in Nat /\ Len(env) \in Nat
  OBVIOUS
<1>4. Len(Kept(auxv)) \in Nat
  <2>1. Kept(auxv) \in Seq(AuxvEntry)
    BY KeptListed
  <2> QED
    BY <2>1
<1>5. Len(Platform) \in Nat
  BY LoaderAssumption DEF Text
<1>6. \A a, b, d, k, e, l \in Nat : a + b + d + 12 + 8 * (k + 1) + 4 * (e + 1) + 4 * (l + 2) + 4 \in Nat
  OBVIOUS
<1> QED
  BY <1>2, <1>3, <1>4, <1>5, <1>6 DEF StackSize

\* What read_elf_file leaves.
StackOf(elf, c, auxv, garbage) ==
  load_stack([mem |-> LoadImage(elf), esp |-> STACK_BOTTOM, ptrs |-> <<>>],
             c.args, c.env, auxv, Globals(elf), <<garbage, garbage>>, garbage)

\* The image is whole and the stack is built, above the structures.
Ready(m, e, elf, c, auxv) ==
  /\ Whole(m, elf) /\ e >= Scratch + ScratchSize
  /\ \E v1, pa, rr \in Addr, p, q \in Seq(Addr) :
       Built(m, e, c.args, c.env, Kept(auxv), GuestGlobals(elf, pa, rr), p, q, v1)

\* load_stack over the image of a file.
LEMMA GuestLoaded ==
  ASSUME NEW elf \in Files, NEW c \in CommandLines, NEW auxv \in Auxvs, NEW garbage \in Garbage,
         elf.kind = "ELF32", c.mode \in ElfModes
  PROVE  LET t == StackOf(elf, c, auxv, garbage) IN Ready(t.mem, t.esp, elf, c, auxv)
<1> DEFINE m == LoadImage(elf)
           s == [mem |-> m, esp |-> STACK_BOTTOM, ptrs |-> <<>>]
           args == c.args  env == c.env  g0 == Globals(elf)
           t == load_stack(s, args, env, auxv, g0, <<garbage, garbage>>, garbage)
           size == StackSize(args, env, auxv)
<1>1. /\ ValidElf(elf) /\ args \in Seq(Text) /\ env \in Seq(Text) /\ auxv \in Seq(AuxvEntry)
      /\ STACK_BOTTOM \in Addr /\ garbage \in Addr
  BY LoaderAssumption
<1>2. LowSegments(elf) /\ Scratch + ScratchSize + size <= STACK_BOTTOM
  BY LayoutAssumption DEF LowSegments
<1>3. Scratch \in Addr /\ ScratchSize \in Nat
  BY ProcessAssumption
<1>4. \A i \in DOMAIN elf.phdrs :
        elf.phdrs[i].type = "LOAD" => elf.phdrs[i].vaddr + elf.phdrs[i].memsz <= N
  <2>1. ASSUME NEW i \in DOMAIN elf.phdrs, elf.phdrs[i].type = "LOAD"
        PROVE  elf.phdrs[i].vaddr + elf.phdrs[i].memsz <= N
    <3> DEFINE h == elf.phdrs[i]
    <3>1. h \in ElfSegment /\ h.vaddr + h.memsz <= Scratch
      BY <1>1, <1>2, <2>1 DEF ValidElf, LowSegments
    <3> HIDE DEF h
    <3>2. h.vaddr \in Nat /\ h.memsz \in Nat /\ Scratch \in Nat /\ Scratch < N /\ N \in Nat
      BY <1>3, <3>1, SpaceSize DEF ElfSegment, Addr
    <3>3. h.vaddr + h.memsz <= N
      BY <3>1, <3>2
    <3> QED
      BY <3>3 DEF h
  <2> QED
    BY <2>1
<1>5. m \in [Addr -> Byte] /\ Imaged(m, elf, Len(elf.phdrs))
  BY <1>1, <1>4, ImageLoaded
<1>6. Whole(m, elf)
  BY <1>1, <1>2, <1>5, ImageWhole
<1>7. g0 \in GlobalWords
  <2>1. 0 \in Addr
    BY SpaceSize DEF Addr
  <2> QED
    BY <1>1, <2>1, GlobalsPlaced
<1> HIDE DEF m, args, env, g0
<1>8. s \in Stack /\ s.esp = STACK_BOTTOM /\ s.mem = m
  BY <1>1, <1>5 DEF Stack
<1> HIDE DEF s
<1>9. size \in Nat
  BY <1>1, SizeNatural
<1> HIDE DEF size
<1>11. size <= s.esp
  <2>1. Scratch \in Nat /\ STACK_BOTTOM \in Nat
    BY <1>1, <1>3, SpaceSize DEF Addr
  <2> QED
    BY <1>2, <1>3, <1>8, <1>9, <2>1
<1>12. /\ \E pa, rr \in Addr, p, q \in Seq(Addr) :
            Built(t.mem, t.esp, args, env, Kept(auxv),
                  [g0 EXCEPT !.platform_addr = pa, !.rr = rr], p, q, garbage)
       /\ \E n \in Nat : n <= size /\ Grown(s, t, n)
  BY <1>1, <1>7, <1>8, <1>11, StackBuilt DEF size
<1> HIDE DEF t
<1>13. \E v1, pa, rr \in Addr, p, q \in Seq(Addr) :
         Built(t.mem, t.esp, args, env, Kept(auxv), GuestGlobals(elf, pa, rr), p, q, v1)
  <2>1. PICK pa, rr \in Addr, p, q \in Seq(Addr) :
          Built(t.mem, t.esp, args, env, Kept(auxv),
                [g0 EXCEPT !.platform_addr = pa, !.rr = rr], p, q, garbage)
    BY <1>12
  <2>2. [g0 EXCEPT !.platform_addr = pa, !.rr = rr] = GuestGlobals(elf, pa, rr)
    BY DEF GuestGlobals, g0
  <2>3. Built(t.mem, t.esp, args, env, Kept(auxv), GuestGlobals(elf, pa, rr), p, q, garbage)
    BY <2>1, <2>2
  <2> QED
    BY <1>1, <2>1, <2>3
<1>14. PICK n \in Nat : n <= size /\ Grown(s, t, n)
  BY <1>12
<1>15. t.esp = STACK_BOTTOM - n /\ t.esp >= Scratch + ScratchSize /\ t.esp \in Nat
  <2>1. Scratch \in Nat /\ STACK_BOTTOM \in Nat
    BY <1>1, <1>3, SpaceSize DEF Addr
  <2>2. t.esp = STACK_BOTTOM - n
    BY <1>8, <1>14 DEF Grown
  <2> QED
    BY <1>2, <1>3, <1>9, <1>14, <2>1, <2>2
<1>16. \A x \in Addr : x < Scratch => t.mem[x] = m[x]
  <2>1. ASSUME NEW x \in Addr, x < Scratch PROVE x < t.esp
    BY <1>3, <1>15, <2>1, SpaceSize DEF Addr
  <2> QED
    BY <1>8, <1>14, <2>1 DEF Grown
<1>17. Whole(t.mem, elf)
  BY <1>1, <1>2, <1>6, <1>16, WholeSame
<1> QED
  BY <1>13, <1>15, <1>17 DEF Ready, StackOf, t, s, m, args, env, g0

\* The guest is as it was loaded, beside its structures.
AsLoaded == GuestBuilt /\ Whole(mem, given.file)

\* The global ph_addr is where the first segment has the program headers.
LEMMA HeadersFound ==
  ASSUME AsLoaded
  PROVE  HeadersAt(Globals(given.file).ph_addr)
<1> DEFINE f == given.file  h == f.phdrs[1]  a == Globals(f).ph_addr
<1>1. ValidElf(f) /\ LowSegments(f) /\ Whole(mem, f)
  <2>1. ValidElf(f)
    BY GuestTypes DEF AsLoaded
  <2>2. LowSegments(f)
    BY LayoutAssumption DEF AsLoaded, GuestBuilt, LowSegments
  <2> QED
    BY <2>1, <2>2 DEF AsLoaded
<1>2. CASE ~(f.phdrs # <<>> /\ h.type = "LOAD")
  <2>1. a = 0
    BY <1>2 DEF Globals
  <2> QED
    BY <1>2, <2>1 DEF HeadersAt
<1>3. CASE f.phdrs # <<>> /\ h.type = "LOAD"
  <2>1. 1 \in DOMAIN f.phdrs /\ h \in ElfSegment /\ f.phoff \in Nat /\ h.filesz <= h.memsz
    BY <1>1, <1>3 DEF ValidElf
  <2>2. h.vaddr + h.memsz <= Scratch
    BY <1>1, <1>3, <2>1 DEF LowSegments
  <2>3. a = (h.vaddr + f.phoff) % N
    BY <1>3 DEF Globals
  <2>4. ASSUME NEW k \in f.phoff..(h.filesz - 1), h.offset = 0
        PROVE  mem[At(a, k - f.phoff)] = f.bytes[k + 1]
    <3>1. k \in 0..(h.memsz - 1) /\ k < h.filesz
      BY <2>1, <2>4 DEF ElfSegment
    <3>2. mem[h.vaddr + k] = f.bytes[h.offset + k + 1]
      BY <1>1, <1>3, <2>1, <3>1 DEF Whole
    <3>3. At(a, k - f.phoff) = h.vaddr + k
      <4> DEFINE v == h.vaddr  o == f.phoff  z == h.memsz
      <4>1. /\ v \in Nat /\ o \in Nat /\ z \in Nat /\ k \in Nat /\ o <= k /\ k < z
            /\ v + z <= Scratch /\ Scratch \in Nat /\ Scratch < N /\ N \in Nat
        <5>1. v \in Nat /\ z \in Nat /\ o \in Nat
          BY <2>1, SpaceSize DEF ElfSegment, Addr
        <5>2. Scratch \in Nat /\ Scratch < N /\ N \in Nat
          BY ProcessAssumption, SpaceSize DEF Addr
        <5>3. k \in Nat /\ o <= k /\ k < z
          BY <2>4, <3>1, <5>1
        <5> QED
          BY <2>2, <5>1, <5>2, <5>3
      <4> HIDE DEF v, o, z
      <4>2. (v + o) % N = v + o
        BY <4>1
      <4>3. (v + o + (k - o)) % N = v + k
        BY <4>1
      <4> QED
        BY <2>3, <4>2, <4>3 DEF At, v, o
    <3>4. h.offset + k + 1 = k + 1
      BY <2>4, <3>1
    <3> QED
      BY <3>2, <3>3, <3>4
  <2> QED
    BY <1>3, <2>4 DEF HeadersAt
<1> QED
  BY <1>2, <1>3

\* What main starts from, and what an ELF guest keeps.
LoadedInv ==
  /\ status = "start" =>
       /\ given = [line |-> <<>>, file |-> <<>>, auxv |-> <<>>, bits |-> <<>>]
       /\ host = NoRequest
  /\ ElfGuest => AsLoaded

\* read_elf_file leaves a guest that is loaded.
LEMMA ElfLoaded ==
  ASSUME NEW c \in CommandLines, c.args # <<>>, c.mode \in ElfModes, NEW elf \in Files,
         NEW auxv \in Auxvs, NEW garbage \in Garbage, read_elf_file(c, elf, auxv, garbage)
  PROVE  AsLoaded' /\ status' = "running"
<1> DEFINE t == StackOf(elf, c, auxv, garbage)
<1>1. /\ elf.kind = "ELF32" /\ mem' = t.mem /\ esp' = t.esp /\ eip' = elf.entry /\ status' = "running"
      /\ given'.line = c /\ given'.file = elf /\ given'.auxv = auxv
  BY DEF read_elf_file, StackOf
<1>2. Ready(t.mem, t.esp, elf, c, auxv)
  BY <1>1, GuestLoaded
<1> HIDE DEF t
<1>3. Ready(mem', esp', elf, c, auxv)
  BY <1>1, <1>2
<1>4. GuestBuilt'
  BY <1>1, <1>3 DEF GuestBuilt, Ready
<1> QED
  BY <1>1, <1>3, <1>4 DEF AsLoaded, Ready

\* Of the ways main ends only that one starts an ELF guest.
LEMMA MainLoads ==
  ASSUME NEW c \in CommandLines, main(c), LoadedInv, host' = host
  PROVE  LoadedInv'
<1>1. given = [line |-> <<>>, file |-> <<>>, auxv |-> <<>>, bits |-> <<>>]
  BY DEF main, LoadedInv
<1>2. ASSUME NEW how, how \notin {"start", "running"}, Ended(c, how) PROVE LoadedInv'
  BY <1>2 DEF Ended, LoadedInv, ElfGuest
<1>3. CASE Refused(c)
  BY <1>3 DEF Refused, LoadedInv, ElfGuest
<1>4. ASSUME NEW file, NEW n, ShortRead(c, file, n) PROVE LoadedInv'
  BY <1>4 DEF ShortRead, LoadedInv, ElfGuest
<1>5. ASSUME NEW file, c.mode \in RawModes, read_raw_file(c, file) PROVE LoadedInv'
  <2>1. status' = "running" /\ given'.line = c
    BY <1>1, <1>5 DEF read_raw_file
  <2>2. given'.line.mode \notin ElfModes
    BY <1>5, <2>1 DEF RawModes, ElfModes
  <2> QED
    BY <2>1, <2>2 DEF LoadedInv, ElfGuest
<1>6. ASSUME c.args # <<>>, c.mode \in ElfModes, NEW elf \in Files, NEW auxv \in Auxvs,
             NEW garbage \in Garbage, read_elf_file(c, elf, auxv, garbage)
      PROVE  LoadedInv'
  BY <1>6, ElfLoaded DEF LoadedInv
<1>7. CASE \/ c.mode = "-h" /\ Ended(c, "help")
           \/ Ended(c, "usage")
           \/ Refused(c)
  BY <1>2, <1>3, <1>7
<1>8. CASE /\ c.args # <<>> /\ c.mode \in ElfModes
           /\ \E elf \in Files, auxv \in Auxvs, garbage \in Garbage : read_elf_file(c, elf, auxv, garbage)
  BY <1>6, <1>8
<1>9. CASE /\ c.mode \in RawModes
           /\ \E file \in Files : \/ read_raw_file(c, file)
                                 \/ \E n \in {0, Len(file.bytes) - 1} : ShortRead(c, file, n)
  BY <1>4, <1>5, <1>9
<1> QED
  BY <1>7, <1>8, <1>9 DEF main

\* A step that writes to the structures only leaves stack and image alone.
LEMMA LoadedKept ==
  ASSUME LoadedInv, status # "start", Beside(mem, mem'), esp' = esp, eip' = eip,
         status' \in {status, "exited"}, given' = given
  PROVE  LoadedInv'
<1> SUFFICES ASSUME ElfGuest' PROVE AsLoaded'
  BY DEF LoadedInv
<1>1. AsLoaded
  BY DEF LoadedInv, ElfGuest
<1>2. given.line.args \in Seq(Text) /\ given.line.env \in Seq(Text) /\ Kept(given.auxv) \in Seq(AuxvEntry)
      /\ ValidElf(given.file) /\ esp \in Nat
  BY <1>1, GuestTypes DEF AsLoaded
<1>3. LowSegments(given.file)
  BY <1>1, LayoutAssumption DEF AsLoaded, GuestBuilt, LowSegments
<1>4. \A x \in Addr : x < Scratch => mem'[x] = mem[x]
  BY DEF Beside
<1>5. Whole(mem', given.file)
  <2>1. Whole(mem, given.file)
    BY <1>1 DEF AsLoaded
  <2> QED
    BY <1>2, <1>3, <1>4, <2>1, WholeSame
<1>6. SameFrom(mem, mem', esp)
  <2>1. esp >= Scratch + ScratchSize
    BY <1>1 DEF AsLoaded, GuestBuilt
  <2>2. Scratch \in Nat /\ ScratchSize \in Nat
    BY ProcessAssumption, SpaceSize DEF Addr
  <2>3. \A x \in Addr : x >= esp => x >= Scratch + ScratchSize
    BY <1>2, <2>1, <2>2, SpaceSize DEF Addr
  <2> QED
    BY <2>3 DEF Beside, SameFrom
<1>7. PICK v1, pa, rr \in Addr, p, q \in Seq(Addr) :
        Built(mem, esp, given.line.args, given.line.env, Kept(given.auxv),
              GuestGlobals(given.file, pa, rr), p, q, v1)
  BY <1>1 DEF AsLoaded, GuestBuilt
<1> DEFINE args == given.line.args  env == given.line.env  kept == Kept(given.auxv)
           g == GuestGlobals(given.file, pa, rr)
<1>8. args \in Seq(Text) /\ env \in Seq(Text) /\ kept \in Seq(AuxvEntry)
      /\ Built(mem, esp, args, env, kept, g, p, q, v1)
      /\ v1 \in Addr /\ p \in Seq(Addr) /\ q \in Seq(Addr)
  BY <1>2, <1>7
<1> HIDE DEF args, env, kept, g
<1>9. Built(mem', esp, args, env, kept, g, p, q, v1)
  BY <1>6, <1>8, BuiltSame
<1>10. Built(mem', esp', given'.line.args, given'.line.env, Kept(given'.auxv),
             GuestGlobals(given'.file, pa, rr), p, q, v1)
  BY <1>9 DEF args, env, kept, g
<1>11. \E v2, pb, rs \in Addr, p2, q2 \in Seq(Addr) :
         Built(mem', esp', given'.line.args, given'.line.env, Kept(given'.auxv),
               GuestGlobals(given'.file, pb, rs), p2, q2, v2)
  BY <1>7, <1>10
<1>12. GuestBuilt'
  BY <1>1, <1>11 DEF AsLoaded, GuestBuilt
<1> QED
  BY <1>5, <1>12 DEF AsLoaded

\* Every step of the process keeps what the loader made.
LEMMA LoadedStep ==
  ASSUME LoadedInv, [Next]_processVars
  PROVE  LoadedInv'
<1>1. CASE Start
  BY <1>1, MainLoads DEF Start
<1>2. ASSUME mem' = mem, esp' = esp, eip' = eip, status' = status, given' = given, host' = host
      PROVE  LoadedInv'
  <2>1. GuestBuilt' = GuestBuilt
    BY <1>2 DEF GuestBuilt
  <2> QED
    BY <1>2, <2>1 DEF LoadedInv, AsLoaded, ElfGuest
<1>3. ASSUME status = "running", Beside(mem, mem'), esp' = esp, eip' = eip,
             status' \in {status, "exited"}, given' = given
      PROVE  LoadedInv'
  BY <1>3, LoadedKept
<1>4. Beside(mem, mem)
  BY DEF Beside
<1>5. CASE Exit
  <2>1. status = "running" /\ mem' = mem /\ esp' = esp /\ eip' = eip /\ status' = "exited" /\ given' = given
    BY <1>5 DEF Exit, Asks, Running
  <2> QED
    BY <1>3, <1>4, <2>1
<1>6. CASE Forward \/ Chosen \/ Immediate \/ Execve
  <2>1. status = "running" /\ UNCHANGED loaderVars
    BY <1>6 DEF Forward, Chosen, Immediate, Execve, Makes, Asks, Running
  <2>2. mem' = mem /\ esp' = esp /\ eip' = eip /\ status' = status /\ given' = given
    BY <2>1 DEF loaderVars
  <2> QED
    BY <1>3, <1>4, <2>1, <2>2
<1>7. ASSUME NEW iovs \in Iovecs, Writev(iovs) PROVE LoadedInv'
  <2>1. status = "running" /\ esp' = esp /\ eip' = eip /\ status' = status /\ given' = given
    BY <1>7 DEF Writev, Asks, Running
  <2>2. Beside(mem, mem')
    BY <1>7, WritevBeside
  <2> QED
    BY <1>3, <2>1, <2>2
<1>8. ASSUME NEW answers \in Answers, Poll(answers) PROVE LoadedInv'
  <2>1. status = "running" /\ esp' = esp /\ eip' = eip /\ status' = status /\ given' = given
    BY <1>8 DEF Poll, Asks, Running
  <2>2. Beside(mem, mem')
    BY <1>8, PollBeside
  <2> QED
    BY <1>3, <2>1, <2>2
<1>9. CASE SegmentStep
  <2>1. status = "running" /\ esp' = esp /\ eip' = eip /\ status' = status /\ given' = given
    BY <1>9 DEF SegmentStep, Running, loaderVars
  <2>2. mem' = mem \/ \E entry, base, limit : SetThreadArea(entry, base, limit)
    BY <1>9 DEF SegmentStep, loaderVars
  <2>3. Beside(mem, mem')
    BY <1>4, <2>2, AreaBeside
  <2> QED
    BY <1>3, <2>1, <2>3
<1>10. CASE UNCHANGED processVars
  BY <1>2, <1>10 DEF processVars, loaderVars
<1> QED
  BY <1>1, <1>5, <1>6, <1>7, <1>8, <1>9, <1>10 DEF Next

\* The loaded guest is an invariant of the process.
LEMMA LoadedAlways == Spec => []LoadedInv
<1>1. Init => LoadedInv
  BY DEF Init, LoaderInit, LoadedInv, ElfGuest
<1>2. LoadedInv /\ [Next]_processVars => LoadedInv'
  BY LoadedStep
<1> QED
  BY <1>1, <1>2, PTL DEF Spec

\* For every command line, environment, auxiliary vector and file that fit in
\* memory, an ELF guest finds its arguments and its environment on the stack
\* load_stack built, and still does after the system calls it makes.
THEOREM ArgumentsOnTheStack == Spec => []GuestFindsArguments
<1>1. LoadedInv => GuestFindsArguments
  BY ArgumentsFound DEF LoadedInv, AsLoaded, GuestFindsArguments
<1> QED
  BY <1>1, LoadedAlways, PTL

\* The auxiliary vector of an ELF guest ends where it has to and describes the
\* guest, whatever entries the host's vector has and in whatever order: the
\* program headers are at AT_PHDR when the first header is that of a segment
\* from the beginning of the file (and AT_PHDR is 0 when it is that of none).
THEOREM AuxvOnTheStack == Spec => []GuestFindsAuxv
<1>1. LoadedInv => GuestFindsAuxv
  BY AuxvFound, HeadersFound DEF LoadedInv, AsLoaded, GuestFindsAuxv
<1> QED
  BY <1>1, LoadedAlways, PTL

\* For every number and order of the segments of a file, their bytes are the
\* file's and their .bss is zero; neither load_stack nor a wrapper that
\* answers through a structure of the guest overwrites them.
THEOREM ImageStaysIntact == Spec => []ImageIntact
<1>1. LoadedInv => ImageIntact
  BY DEF LoadedInv, AsLoaded, Whole, ImageIntact
<1> QED
  BY <1>1, LoadedAlways, PTL

---------------------------------------------------------------------------
(* execve with the guest's own arrays *)

\* n pointers and a null pointer lie from a up.
PointersAt(m, a, p, n) ==
  /\ \A k \in 0..(n - 1) : read32(m, At(a, 4 * k)) = p[k + 1] /\ p[k + 1] # 0
  /\ read32(m, At(a, 4 * n)) = 0

\* do_execve counts them up to the null pointer and translates each.
LEMMA PointersCounted ==
  ASSUME NEW m, NEW a, NEW p, NEW n \in Nat, 4 * n < N, PointersAt(m, a, p, n)
  PROVE  /\ buffer_size(m, a) = n
         /\ translate_buffer_dirs_32_to_64(m, a, n) = [i \in 1..n |-> Mem(p[i])]
<1> DEFINE Ends(k) == /\ read32(m, At(a, 4 * k)) = 0
                      /\ \A j \in 0..(k - 1) : read32(m, At(a, 4 * j)) # 0
           top == N \div 4
<1>1. top \in Nat /\ n <= top
  <2>1. N = 4 * top + (N % 4) /\ N % 4 \in 0..3 /\ top \in Nat
    BY SpaceSize
  <2> HIDE DEF top
  <2>2. \A x, y, r \in Nat : 4 * x < 4 * y + r /\ r <= 3 => x <= y
    OBVIOUS
  <2> QED
    BY <2>1, <2>2
<1>2. n \in 0..top /\ Ends(n)
  BY <1>1 DEF PointersAt
<1>3. ASSUME NEW k \in 0..top, Ends(k) PROVE k = n
  <2>1. ~(k < n)
    <3> SUFFICES ASSUME k < n PROVE FALSE
      OBVIOUS
    <3>1. k \in 0..(n - 1)
      BY <1>1
    <3> QED
      BY <1>2, <1>3, <3>1
  <2>2. ~(n < k)
    <3> SUFFICES ASSUME n < k PROVE FALSE
      OBVIOUS
    <3>1. n \in 0..(k - 1)
      BY <1>1
    <3> QED
      BY <1>2, <1>3, <3>1
  <2> QED
    BY <1>1, <2>1, <2>2
<1>4. buffer_size(m, a) = CHOOSE k \in 0..top : Ends(k)
  BY DEF buffer_size
<1> HIDE DEF Ends, top
<1>5. buffer_size(m, a) = n
  BY <1>2, <1>3, <1>4
<1>6. ASSUME NEW i \in 1..n PROVE read32(m, At(a, 4 * (i - 1))) = p[i]
  <2>1. i - 1 \in 0..(n - 1) /\ (i - 1) + 1 = i
    OBVIOUS
  <2> QED
    BY <2>1 DEF PointersAt
<1> QED
  BY <1>5, <1>6 DEF translate_buffer_dirs_32_to_64

\* The arrays the guest passes on: argv from its second element, and envp.
LEMMA ArraysPassed ==
  ASSUME GuestBuilt
  PROVE  LET L == Len(given.line.args)
             E == Len(given.line.env)
         IN \E p, q \in Seq(Addr) :
              /\ PointersAt(mem, At(esp, 8), p, L) /\ PointersAt(mem, At(esp, 4 * (2 + argc)), q, E)
              /\ L \in Nat /\ E \in Nat /\ 0 < L /\ 4 * L < N /\ 4 * E < N /\ Argv(1) = p[1]
              /\ \A i \in 1..L : StringAt(mem, p[i]) = given.line.args[i]
              /\ \A i \in 1..E : StringAt(mem, q[i]) = given.line.env[i]
<1> DEFINE args == given.line.args  env == given.line.env  kept == Kept(given.auxv)
<1>1. args \in Seq(Text) /\ env \in Seq(Text) /\ kept \in Seq(AuxvEntry) /\ args # <<>> /\ esp \in Nat
  BY GuestTypes DEF GuestBuilt
<1>2. PICK v1, pa, rr \in Addr, p, q \in Seq(Addr) :
        Built(mem, esp, args, env, kept, GuestGlobals(given.file, pa, rr), p, q, v1)
  BY DEF GuestBuilt
<1> DEFINE g == GuestGlobals(given.file, pa, rr)  L == Len(args)  E == Len(env)  n == Len(kept)
<1> HIDE DEF args, env, kept, g
<1>3. Built(mem, esp, args, env, kept, g, p, q, v1) /\ v1 \in Addr /\ p \in Seq(Addr) /\ q \in Seq(Addr)
  BY <1>2 DEF g
<1>4. Reads(L, E, n, p, q)
  BY <1>1, <1>3, WordsRead
<1>5. L \in Nat /\ E \in Nat /\ n \in Nat /\ 0 < L
  BY <1>1
<1>6. Strung(mem, esp, p, args) /\ Strung(mem, esp, q, env)
      /\ esp + 4 * (L + E + 4) + 8 * (n + 1) <= STACK_BOTTOM
  BY <1>3 DEF Built
<1>7. \A i \in 1..L : StringAt(mem, p[i]) = args[i]
  <2>1. \A i \in 1..L : Holds(mem, p[i], args[i]) /\ args[i] \in Text
    BY <1>1, <1>6 DEF Strung
  <2> QED
    BY <2>1, StringFound
<1>8. \A i \in 1..E : StringAt(mem, q[i]) = env[i]
  <2>1. \A i \in 1..E : Holds(mem, q[i], env[i]) /\ env[i] \in Text
    BY <1>1, <1>6 DEF Strung
  <2> QED
    BY <2>1, StringFound
<1>9. (\A i \in 1..L : p[i] # 0) /\ (\A i \in 1..E : q[i] # 0)
  <2>1. esp > 0
    <3>1. esp >= Scratch + ScratchSize /\ Scratch \in Nat /\ ScratchSize \in Nat /\ ScratchSize >= 12
      BY ProcessAssumption, SpaceSize DEF GuestBuilt, Addr
    <3> QED
      BY <1>1, <3>1
  <2>2. (\A i \in 1..L : p[i] >= esp) /\ (\A i \in 1..E : q[i] >= esp)
    BY <1>6 DEF Strung
  <2>3. ~(0 >= esp)
    BY <1>1, <2>1
  <2> QED
    BY <2>2, <2>3
<1> HIDE DEF L, E, n
<1>10. /\ N \in Nat /\ esp \in Addr /\ 4 * L < N /\ 4 * E < N
       /\ 8 \in Addr /\ 4 * (2 + (L + 1)) \in Addr
  <2>1. STACK_BOTTOM \in Nat /\ STACK_BOTTOM < N /\ N \in Nat /\ N >= 81
    BY LoaderAssumption, SpaceSize DEF Addr
  <2> QED
    BY <1>1, <1>5, <1>6, <2>1 DEF Addr
<1>11. ASSUME NEW k \in Nat PROVE read32(mem, At(At(esp, 8), 4 * k)) = Word(2 + k)
  <2>1. At(At(esp, 8), 4 * k) = At(esp, 8 + 4 * k)
    <3>1. 4 * k \in Nat
      OBVIOUS
    <3> QED
      BY <1>10, <3>1, Offsets
  <2>2. 8 + 4 * k = 4 * (2 + k)
    OBVIOUS
  <2> QED
    BY <2>1, <2>2 DEF Word
<1>12. argc = L + 1
  BY <1>4 DEF Reads
<1>13. ASSUME NEW k \in Nat
       PROVE  read32(mem, At(At(esp, 4 * (2 + argc)), 4 * k)) = Word(2 + argc + k)
  <2> DEFINE o == 4 * (2 + (L + 1))
  <2>1. o + 4 * k = 4 * (2 + (L + 1) + k) /\ 4 * k \in Nat
    BY <1>5
  <2>2. o \in Addr
    BY <1>10
  <2> HIDE DEF o
  <2>3. At(At(esp, o), 4 * k) = At(esp, o + 4 * k)
    BY <1>10, <2>1, <2>2, Offsets
  <2> QED
    BY <1>12, <2>1, <2>3 DEF Word, o
<1>14. PointersAt(mem, At(esp, 8), p, L)
  <2>1. ASSUME NEW k \in 0..(L - 1) PROVE read32(mem, At(At(esp, 8), 4 * k)) = p[k + 1] /\ p[k + 1] # 0
    <3>1. k \in Nat /\ k + 1 \in 1..L /\ 1 + (k + 1) = 2 + k
      BY <1>5
    <3>2. Argv(k + 1) = Word(2 + k)
      BY <3>1 DEF Argv
    <3> QED
      BY <1>4, <1>9, <1>11, <3>1, <3>2 DEF Reads
  <2>2. read32(mem, At(At(esp, 8), 4 * L)) = 0
    <3>1. 1 + (L + 1) = 2 + L
      BY <1>5
    <3>2. Argv(L + 1) = Word(2 + L)
      BY <3>1 DEF Argv
    <3> QED
      BY <1>4, <1>5, <1>11, <3>2 DEF Reads
  <2> QED
    BY <2>1, <2>2 DEF PointersAt
<1>15. PointersAt(mem, At(esp, 4 * (2 + argc)), q, E)
  <2>1. ASSUME NEW k \in 0..(E - 1)
        PROVE  read32(mem, At(At(esp, 4 * (2 + argc)), 4 * k)) = q[k + 1] /\ q[k + 1] # 0
    <3>1. k \in Nat /\ k + 1 \in 1..E /\ (k + 1) - 1 = k
      BY <1>5
    <3>2. Envp(k) = q[k + 1]
      BY <1>4, <3>1 DEF Reads
    <3>3. Word(2 + argc + k) = q[k + 1]
      BY <3>2 DEF Envp
    <3> QED
      BY <1>9, <1>13, <3>1, <3>3
  <2>2. read32(mem, At(At(esp, 4 * (2 + argc)), 4 * E)) = 0
    <3>1. Word(2 + argc + E) = 0
      BY <1>4 DEF Reads, Envp
    <3> QED
      BY <1>5, <1>13, <3>1
  <2> QED
    BY <2>1, <2>2 DEF PointersAt
<1>16. Argv(1) = p[1]
  <2>1. 1 \in 1..L
    BY <1>5
  <2> QED
    BY <1>4, <2>1 DEF Reads
<1> QED
  BY <1>3, <1>5, <1>7, <1>8, <1>10, <1>14, <1>15, <1>16 DEF L, E, args, env

\* The strings behind pointers that were translated.
Behind(m, ptrs) == [i \in DOMAIN ptrs |-> StringAt(m, ptrs[i].off)]

\* ptrs has what becomes of the addresses in p, which are those of strs.
Translates(m, ptrs, p, strs) ==
  /\ ptrs = [i \in 1..Len(strs) |-> Mem(p[i])]
  /\ \A i \in 1..Len(strs) : StringAt(m, p[i]) = strs[i]

\* They are the strings whose addresses were translated.
LEMMA StringsBehind ==
  ASSUME NEW m, NEW p, NEW strs \in Seq(Text), NEW ptrs, Translates(m, ptrs, p, strs)
  PROVE  Behind(m, ptrs) = strs
<1> DEFINE n == Len(strs)
<1>1. DOMAIN ptrs = 1..n /\ \A i \in 1..n : ptrs[i].off = p[i]
  BY DEF Mem, Translates
<1>2. Behind(m, ptrs) = [i \in 1..n |-> strs[i]]
  BY <1>1 DEF Behind, Translates
<1> QED
  BY <1>2

\* What a guest passes to execve.
LEMMA ExecvePassed ==
  ASSUME LoadedInv, Execve
  PROVE  ExecvePassesArguments'
<1> DEFINE args == given.line.args  env == given.line.env
           a2 == At(esp, 8)  a3 == At(esp, 4 * (2 + argc))
<1>1. GuestBuilt
  BY DEF LoadedInv, AsLoaded, Execve, Asks, Running, ElfGuest
<1>2. args \in Seq(Text) /\ env \in Seq(Text)
  BY <1>1, GuestTypes
<1>3. PICK p, q \in Seq(Addr) :
        /\ PointersAt(mem, a2, p, Len(args)) /\ PointersAt(mem, a3, q, Len(env))
        /\ Len(args) \in Nat /\ Len(env) \in Nat /\ 0 < Len(args) /\ 4 * Len(args) < N /\ 4 * Len(env) < N
        /\ Argv(1) = p[1]
        /\ \A i \in 1..Len(args) : StringAt(mem, p[i]) = args[i]
        /\ \A i \in 1..Len(env) : StringAt(mem, q[i]) = env[i]
  BY <1>1, ArraysPassed
<1>4. host' = do_execve(mem, <<Argv(1), a2, a3>>) /\ mem' = mem /\ given' = given
  BY DEF Execve, loaderVars
<1> HIDE DEF a2, a3
<1>5. /\ host'.path = Mem(Argv(1))
      /\ host'.argv = translate_buffer_dirs_32_to_64(mem, a2, buffer_size(mem, a2))
      /\ host'.envp = translate_buffer_dirs_32_to_64(mem, a3, buffer_size(mem, a3))
  BY <1>4 DEF do_execve
<1> HIDE DEF args, env
<1>6. host'.argv = [i \in 1..Len(args) |-> Mem(p[i])]
  <2>1. /\ buffer_size(mem, a2) = Len(args)
        /\ translate_buffer_dirs_32_to_64(mem, a2, Len(args)) = [i \in 1..Len(args) |-> Mem(p[i])]
    BY <1>3, PointersCounted
  <2> QED
    BY <1>5, <2>1
<1>7. host'.envp = [i \in 1..Len(env) |-> Mem(q[i])]
  <2>1. /\ buffer_size(mem, a3) = Len(env)
        /\ translate_buffer_dirs_32_to_64(mem, a3, Len(env)) = [i \in 1..Len(env) |-> Mem(q[i])]
    BY <1>3, PointersCounted
  <2> QED
    BY <1>5, <2>1
<1>8. StringAt(mem, host'.path.off) = args[1]
  <2>1. 1 \in 1..Len(args)
    BY <1>3
  <2>2. host'.path.off = p[1]
    BY <1>3, <1>5 DEF Mem
  <2> QED
    BY <1>3, <2>1, <2>2
<1>9. Behind(mem, host'.argv) = args
  <2>1. Translates(mem, host'.argv, p, args)
    BY <1>3, <1>6 DEF Translates
  <2> QED
    BY <1>2, <2>1, StringsBehind
<1>10. Behind(mem, host'.envp) = env
  <2>1. Translates(mem, host'.envp, q, env)
    BY <1>3, <1>7 DEF Translates
  <2> QED
    BY <1>2, <2>1, StringsBehind
<1> QED
  BY <1>4, <1>8, <1>9, <1>10 DEF ExecvePassesArguments, Behind, args, env

\* The other wrappers do not call execve.
LEMMA NotExecve ==
  ASSUME Forward \/ Chosen \/ Immediate \/ (\E iovs \in Iovecs : Writev(iovs))
           \/ (\E answers \in Answers : Poll(answers))
  PROVE  host'.by # "execve"
<1>1. CASE Forward
  <2>1. PICK w \in syscalls, a \in Registers : host' = Forwarded(w, a)
    BY <1>1 DEF Forward, Makes
  <2> DEFINE t == CHOOSE t \in Tables : w \in DOMAIN t
  <2>2. t \in Tables /\ w \in DOMAIN t
    BY DEF syscalls
  <2>3. w # "execve"
    BY <2>2, NotInATable DEF Others
  <2>4. host' = Request(w, t[w], a)
    BY <2>1 DEF Forwarded, Passed
  <2> HIDE DEF t
  <2> QED
    BY <2>3, <2>4 DEF Request
<1>2. CASE Chosen
  <2>1. PICK a : \/ host' = do_open(a, CreatBit)
                 \/ host' = do_sysfs(a)
                 \/ host' = do_time(a)
                 \/ \E class : host' = do_ioctl(class, a)
                 \/ \E h, r : host' = do_rt_sigaction(a, h, r)
    BY <1>2 DEF Chosen, Makes
  <2>2. CASE host' = do_open(a, CreatBit)
    BY <2>2 DEF do_open, Request
  <2>3. CASE host' = do_sysfs(a)
    BY <2>3 DEF do_sysfs, Request
  <2>4. CASE host' = do_time(a)
    BY <2>4 DEF do_time, Request
  <2>5. CASE \E class : host' = do_ioctl(class, a)
    BY <2>5 DEF do_ioctl, Request
  <2>6. CASE \E h, r : host' = do_rt_sigaction(a, h, r)
    BY <2>6 DEF do_rt_sigaction, Request
  <2> QED
    BY <2>1, <2>2, <2>3, <2>4, <2>5, <2>6
<1>3. CASE Immediate
  BY <1>3 DEF Immediate
<1>4. CASE \E iovs \in Iovecs : Writev(iovs)
  BY <1>4 DEF Writev
<1>5. CASE \E answers \in Answers : Poll(answers)
  BY <1>5 DEF Poll
<1> QED
  BY <1>1, <1>2, <1>3, <1>4, <1>5

\* Whatever its arguments and its environment, a guest that calls execve with
\* what it found on its stack makes do_execve pass exactly these strings.
THEOREM ExecveGetsTheArguments == Spec => []ExecvePassesArguments
<1> DEFINE Inv == LoadedInv /\ ExecvePassesArguments
<1>1. Init => Inv
  <2>1. Init => LoadedInv
    BY DEF Init, LoaderInit, LoadedInv, ElfGuest
  <2>2. Init => ExecvePassesArguments
    BY DEF Init, NoRequest, ExecvePassesArguments
  <2> QED
    BY <2>1, <2>2
<1>2. Inv /\ [Next]_processVars => Inv'
  <2> SUFFICES ASSUME LoadedInv, ExecvePassesArguments, [Next]_processVars PROVE Inv'
    OBVIOUS
  <2>1. LoadedInv'
    BY LoadedStep
  <2> SUFFICES ExecvePassesArguments'
    BY <2>1
  <2>2. ASSUME host'.by # "execve" PROVE ExecvePassesArguments'
    BY <2>2 DEF ExecvePassesArguments
  <2>3. NoRequest.by # "execve"
    BY DEF NoRequest
  <2>4. CASE Start
    <3>1. host' = NoRequest
      BY <2>4 DEF Start, main, LoadedInv
    <3> QED
      BY <2>2, <2>3, <3>1
  <2>5. CASE Exit \/ SegmentStep
    <3>1. host' = NoRequest
      BY <2>5 DEF Exit, SegmentStep, Asks, Running
    <3> QED
      BY <2>2, <2>3, <3>1
  <2>6. CASE Execve
    BY <2>6, ExecvePassed
  <2>7. CASE Forward \/ Chosen \/ Immediate \/ (\E iovs \in Iovecs : Writev(iovs))
               \/ (\E answers \in Answers : Poll(answers))
    BY <2>2, <2>7, NotExecve
  <2>8. CASE UNCHANGED processVars
    BY <2>8 DEF processVars, loaderVars, ExecvePassesArguments
  <2> QED
    BY <2>4, <2>5, <2>6, <2>7, <2>8 DEF Next
<1> QED
  BY <1>1, <1>2, PTL DEF Spec
=============================================================================
