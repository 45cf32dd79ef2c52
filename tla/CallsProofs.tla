---------------------------- MODULE CallsProofs ----------------------------
(***************************************************************************)
(* Type correctness of the instruction loop and the integrity of the       *)
(* return addresses, for every radix, program and stack position.          *)
(***************************************************************************)
EXTENDS Calls, MemoryProofs, SequenceTheorems

---------------------------------------------------------------------------
(* Operands *)

\* The address arithmetic of the handlers stays in the address space.
LEMMA WordArith ==
  ASSUME NEW x \in Addr, NEW n \in Addr
  PROVE  /\ Minus(x, n) \in Addr
         /\ n <= x => Minus(x, n) = x - n
         /\ (x + n) % N \in Addr
<1>1. N \in Nat /\ N >= 81
  BY SpaceSize
<1> QED
  BY <1>1 DEF Minus, Addr

\* The bytes next to an address are addresses: the space wraps.
LEMMA AtAddr ==
  ASSUME NEW x \in Addr, NEW k \in Nat
  PROVE  At(x, k) \in Addr
  BY ModAddr, SpaceSize DEF At, Addr

\* A register read at its size is a word.
LEMMA RegValType ==
  ASSUME CpuTypeOK, NEW r, NEW s \in {1, 2, 4}
  PROVE  reg_val(r, s) \in Addr
<1>1. Values(s) \in Nat /\ Values(s) > 0
  BY SpaceSize, RadixAssumption DEF Values
<1>2. \A x \in Addr : x % Values(s) \in Addr
  <2> TAKE x \in Addr
  <2> HIDE DEF Values
  <2>1. x % Values(s) \in Nat /\ x % Values(s) <= x
    BY <1>1, SpaceSize DEF Addr
  <2> QED
    BY <2>1, SpaceSize DEF Addr
<1>3. 0 \in Addr
  BY SpaceSize DEF Addr
<1> QED
  BY <1>2, <1>3 DEF reg_val, CpuTypeOK

\* Replacing the low part of a word below a multiple of m gives a word below
\* that multiple.
LEMMA LowPart ==
  ASSUME NEW m \in Nat, m > 0, NEW K \in Nat, NEW x \in Nat, x < m * K, NEW v \in Nat
  PROVE  (x - (x % m)) + (v % m) \in 0..(m * K - 1)
<1> DEFINE q == x \div m
<1>1. q \in Nat /\ x % m \in Nat /\ x = m * q + (x % m) /\ v % m \in 0..(m - 1)
  OBVIOUS
<1> HIDE DEF q
<1>2. q < K
  <2>1. SUFFICES ASSUME q >= K PROVE FALSE
    BY <1>1
  <2>2. m * q >= m * K
    BY <1>1, <2>1
  <2> QED
    BY <1>1, <2>2
<1>3. m * (q + 1) <= m * K /\ m * (q + 1) = m * q + m
  BY <1>1, <1>2
<1>4. m * q \in Nat /\ m * K \in Nat
  BY <1>1
<1> QED
  BY <1>1, <1>3, <1>4

\* A store of any size into a register leaves words in the registers.
LEMMA SetRegType ==
  ASSUME CpuTypeOK, NEW r \in GPR, NEW s \in {1, 2, 4}, NEW v \in Addr
  PROVE  SetReg(r, s, v) \in [GPR -> Addr]
<1> DEFINE x == regs[r]
           m == Values(s)
<1>1. x \in Nat /\ x < N /\ v \in Nat
  BY SpaceSize DEF CpuTypeOK, Addr
<1>2. PICK K \in Nat : N = m * K
  <2>1. N = Radix * (Radix * (Radix * Radix)) /\ N = N * 1
    BY SpaceSize DEF N
  <2>2. N = Half * Half
    BY RadixAssumption DEF N, Half
  <2>3. Radix * (Radix * Radix) \in Nat
    BY RadixAssumption
  <2> QED
    BY <2>1, <2>2, <2>3, SpaceSize DEF Values
<1>3. m \in Nat /\ m > 0
  BY SpaceSize, RadixAssumption DEF Values
<1> HIDE DEF m
<1>4. (x - (x % m)) + (v % m) \in 0..(m * K - 1)
  BY <1>1, <1>2, <1>3, LowPart
<1>5. (x - (x % m)) + (v % m) \in Addr
  BY <1>2, <1>4 DEF Addr
<1> QED
  BY <1>5 DEF SetReg, CpuTypeOK, m

\* The effective address of a memory operand is an address.
LEMMA EffAddrType ==
  ASSUME CpuTypeOK, NEW o \in Operand
  PROVE  eff_addr(o) \in Addr
<1>1. reg_val(o.reg, 4) \in Nat /\ reg_val(o.index, 4) \in Nat
  BY RegValType DEF Addr
<1>2. o.scale \in Nat /\ o.val \in Nat
  BY DEF Operand, Addr
<1>3. reg_val(o.index, 4) * o.scale \in Nat
  BY <1>1, <1>2
<1>4. reg_val(o.reg, 4) + (reg_val(o.index, 4) * o.scale) + o.val \in Nat
  BY <1>1, <1>2, <1>3
<1> QED
  BY <1>4, ModAddr DEF eff_addr

\* Whatever its kind, a source operand is a word.
LEMMA LoadType ==
  ASSUME CpuTypeOK, NEW o \in Operand
  PROVE  Load(o) \in Addr
<1>1. o.size \in {1, 2, 4} /\ o.val \in Addr
  BY DEF Operand
<1>2. reg_val(o.reg, o.size) \in Addr
  BY <1>1, RegValType
<1>3. read32(mem, eff_addr(o)) \in Addr
  BY EffAddrType, ReadType DEF CpuTypeOK
<1> QED
  BY <1>1, <1>2, <1>3 DEF Load

---------------------------------------------------------------------------
(* Type correctness *)

\* What the assumption on Code says of a fetched instruction.
LEMMA Fetched ==
  ASSUME CpuTypeOK, NEW i \in Code[eip]
  PROVE  /\ i \in Instruction /\ i.dst \in Operand /\ i.src \in Operand /\ i.size \in Addr
         /\ i.dst.size \in {1, 2, 4} /\ i.dst.val \in Addr
         /\ i.dst.kind = "reg" => i.dst.reg \in GPR
         /\ i.op \in {"lea", "add", "sub"} => i.dst.reg \in GPR
<1>1. eip \in Addr /\ Code[eip] \subseteq Instruction
  BY CpuAssumption DEF CpuTypeOK
<1>2. i.dst.kind = "reg" => i.dst.reg \in GPR
  BY <1>1, CpuAssumption
<1>3. i.op \in {"lea", "add", "sub"} => i.dst.kind = "reg"
  BY <1>1, CpuAssumption
<1>4. i.dst \in Operand /\ i.src \in Operand /\ i.size \in Addr
  BY <1>1 DEF Instruction
<1>5. i.dst.size \in {1, 2, 4} /\ i.dst.val \in Addr
  BY <1>4 DEF Operand
<1> QED
  BY <1>1, <1>2, <1>3, <1>4, <1>5

\* The constants the handlers add are addresses.
LEMMA SmallAddr == 0 \in Addr /\ 1 \in Addr /\ 2 \in Addr /\ 4 \in Addr /\ 32 \in Addr
  BY SpaceSize DEF Addr

\* What a read of the host leaves in memory are bytes.
LEMMA ReceivedType ==
  ASSUME CpuTypeOK, NEW n \in Addr, NEW data \in [Addr -> Byte]
  PROVE  Received(n, data) \in [Addr -> Byte]
<1>1. mem \in [Addr -> Byte] /\ regs["ecx"] \in Addr
  BY DEF CpuTypeOK, GPR
<1>2. ASSUME NEW x \in Buffer(n) PROVE x \in Addr /\ x - regs["ecx"] \in Addr
  BY <1>1, SpaceSize DEF Buffer, Addr
<1>3. \A x \in Buffer(n) : data[x - regs["ecx"]] \in Byte
  BY <1>2
<1> QED
  BY <1>1, <1>3 DEF Received

\* pushad's bytes are bytes.
LEMMA PushadType ==
  ASSUME CpuTypeOK, NEW i \in Code[eip], pushad_i(i)
  PROVE  mem' \in [Addr -> Byte] /\ regs' \in [GPR -> Addr]
<1> DEFINE e == Minus(esp, 32)
           off(a) == Minus(a, e)
<1>1. e \in Addr
  BY WordArith, SmallAddr DEF CpuTypeOK, esp, GPR
<1>2. ASSUME NEW a \in Addr, off(a) < 32
      PROVE  ByteOf(regs[PushadOrder[(off(a) \div 4) + 1]], off(a) % 4) \in Byte
  <2>1. off(a) \in 0..31
    <3>1. off(a) \in Addr
      BY <1>1, WordArith
    <3> QED
      BY <3>1, <1>2, SpaceSize DEF Addr
  <2> HIDE DEF off
  <2>2. (off(a) \div 4) + 1 \in 1..8
    BY <2>1
  <2>3. PushadOrder[(off(a) \div 4) + 1] \in GPR
    BY <2>2 DEF PushadOrder, GPR
  <2>4. regs[PushadOrder[(off(a) \div 4) + 1]] \in Addr
    BY <2>3 DEF CpuTypeOK
  <2> QED
    BY <2>4, ByteSplit DEF ByteOf
<1>3. mem' = [a \in Addr |-> IF off(a) < 32
                              THEN ByteOf(regs[PushadOrder[(off(a) \div 4) + 1]], off(a) % 4)
                              ELSE mem[a]]
  BY DEF pushad_i
<1>4. regs' = [regs EXCEPT !["esp"] = e]
  BY DEF pushad_i
<1> HIDE DEF e, off
<1>5. mem' \in [Addr -> Byte]
  BY <1>2, <1>3 DEF CpuTypeOK
<1> QED
  BY <1>1, <1>4, <1>5 DEF CpuTypeOK

\* Every iteration of the loop keeps memory, registers and eip in range.
LEMMA StepType ==
  ASSUME CpuTypeOK, NEW i \in Code[eip], Step(i)
  PROVE  CpuTypeOK'
<1>1. i.dst \in Operand /\ i.src \in Operand /\ i.size \in Addr /\ i.dst.size \in {1, 2, 4}
      /\ i.dst.val \in Addr
  BY Fetched
<1>2. eip \in Addr /\ mem \in [Addr -> Byte] /\ regs \in [GPR -> Addr] /\ esp \in Addr
  BY DEF CpuTypeOK, esp, GPR
<1>3. NextEip(i) \in Addr
  BY <1>1, <1>2, WordArith DEF NextEip
<1>4. Load(i.dst) \in Addr /\ Load(i.src) \in Addr /\ eff_addr(i.dst) \in Addr /\ eff_addr(i.src) \in Addr
  BY <1>1, LoadType, EffAddrType
<1>5. Minus(esp, 2) \in Addr /\ Minus(esp, 4) \in Addr /\ \A k \in Nat : At(esp, k) \in Addr
  BY <1>2, WordArith, AtAddr, SmallAddr
<1>6. \A x \in Addr : x % Half \in Addr
  <2> TAKE x \in Addr
  <2>1. x % Half \in Nat /\ x % Half <= x
    BY SpaceSize DEF Addr
  <2> QED
    BY <2>1, SpaceSize DEF Addr
<1>7. \A a \in Addr : read16(mem, a) \in Addr
  <2>1. 0..(Half - 1) \subseteq Addr
    BY HalfOfWord, SpaceSize DEF Addr
  <2> QED
    BY <1>2, <2>1, ReadType
<1>8. \A a \in Addr : read32(mem, a) \in Addr
  BY <1>2, ReadType
<1>9. status \in {"running", "exited"} /\ DOMAIN regs = GPR
  BY DEF CpuTypeOK
<1>10. CASE Run(i, "push", push_i(i))
  <2>1. mem' \in [Addr -> Byte]
    BY <1>10, <1>2, <1>4, <1>5, <1>6, WriteType DEF Run, push_i
  <2>2. regs' \in [GPR -> Addr] /\ eip' \in Addr /\ status' = status
    BY <1>10, <1>2, <1>3, <1>5 DEF Run, push_i
  <2> QED
    BY <2>1, <2>2, <1>9 DEF CpuTypeOK
<1>11. CASE Run(i, "pop", pop_i(i))
  <2>1. CASE PopReg(i)
    <3> DEFINE s == IF i.dst.size = 2 THEN 2 ELSE 4
               v == IF i.dst.size = 2 THEN read16(mem, esp) ELSE read32(mem, esp)
               r == SetReg(i.dst.reg, s, v)
    <3>1. i.dst.reg \in GPR
      BY <2>1, Fetched DEF PopReg
    <3>2. v \in Addr /\ s \in {1, 2, 4}
      BY <1>2, <1>7, <1>8
    <3>3. r \in [GPR -> Addr]
      BY <3>1, <3>2, SetRegType
    <3>4. regs' = [r EXCEPT !["esp"] = (r["esp"] + s) % N] /\ mem' = mem /\ eip' = NextEip(i)
      BY <2>1 DEF PopReg
    <3>5. (r["esp"] + s) % N \in Addr
      <4>1. r["esp"] \in Addr /\ s \in Addr
        BY <3>3, SmallAddr DEF GPR
      <4> QED
        BY <4>1, WordArith
    <3> HIDE DEF r, s, v
    <3> QED
      BY <3>3, <3>4, <3>5, <1>2, <1>3, <1>9, <1>11 DEF CpuTypeOK, Run
  <2>2. CASE PopMem(i)
    <3>1. mem' \in [Addr -> Byte]
      BY <2>2, <1>2, <1>4, <1>8, WriteType DEF PopMem
    <3> QED
      BY <3>1, <2>2, <1>2, <1>3, <1>5, <1>9, <1>11 DEF PopMem, CpuTypeOK, Run
  <2> QED
    BY <1>11, <2>1, <2>2 DEF Run, pop_i
<1>12. CASE Run(i, "pushad", pushad_i(i))
  BY <1>12, <1>3, <1>9, PushadType DEF Run, pushad_i, CpuTypeOK
<1>13. CASE Run(i, "popad", popad_i(i))
  <2>1. \A k \in Nat : read32(mem, At(esp, k)) \in Addr
    BY <1>5, <1>8
  <2>2. regs' \in [GPR -> Addr]
    BY <1>13, <1>2, <1>5, <1>8, <2>1 DEF Run, popad_i, GPR
  <2> QED
    BY <1>13, <2>2, <1>2, <1>3, <1>9 DEF Run, popad_i, CpuTypeOK
<1>14. CASE Run(i, "call", call_i(i))
  <2>1. mem' \in [Addr -> Byte]
    BY <1>14, <1>2, <1>3, <1>5, WriteType DEF Run, call_i
  <2> QED
    BY <1>14, <2>1, <1>2, <1>4, <1>5, <1>9 DEF Run, call_i, CpuTypeOK
<1>15. CASE Run(i, "ret", ret_i(i))
  <2>1. (esp + 4 + i.dst.val) % N \in Addr
    <3>1. esp \in Nat /\ i.dst.val \in Nat
      BY <1>1, <1>2, SpaceSize DEF Addr
    <3> QED
      BY <3>1, ModAddr
  <2> QED
    BY <1>15, <2>1, <1>2, <1>8, <1>9 DEF Run, ret_i, CpuTypeOK
<1>16. CASE Run(i, "leave", leave_i(i))
  <2> DEFINE b == regs["ebp"]
             v == read16(mem, b)
             r == IF i.dst.size = 2 THEN SetReg("ebp", 2, v) ELSE [regs EXCEPT !["ebp"] = v]
  <2>1. b \in Addr /\ v \in Addr
    BY <1>2, <1>7 DEF GPR
  <2>2. SetReg("ebp", 2, v) \in [GPR -> Addr]
    BY <2>1, SetRegType DEF GPR
  <2>3. r \in [GPR -> Addr]
    BY <2>1, <2>2, <1>2
  <2>4. At(b, IF i.dst.size = 2 THEN 2 ELSE 4) \in Addr
    BY <2>1, AtAddr
  <2>5. regs' = [r EXCEPT !["esp"] = At(b, IF i.dst.size = 2 THEN 2 ELSE 4)]
        /\ mem' = mem /\ eip' = NextEip(i) /\ status' = status
    BY <1>16 DEF Run, leave_i
  <2> HIDE DEF b, v, r
  <2> QED
    BY <2>3, <2>4, <2>5, <1>2, <1>3, <1>9 DEF CpuTypeOK
<1>17. CASE Run(i, "jmp", jmp_i(i)) \/ Run(i, "jcc", jcc_i(i))
  BY <1>17, <1>2, <1>3, <1>4, <1>9 DEF Run, jmp_i, jcc_i, CpuTypeOK
<1>18. CASE Run(i, "loop", loop_i(i))
  <2>1. Minus(regs["ecx"], 1) \in Addr
    BY <1>2, WordArith, SmallAddr DEF GPR
  <2> QED
    BY <1>18, <2>1, <1>1, <1>2, <1>3, <1>9 DEF Run, loop_i, CpuTypeOK
<1>19. CASE Run(i, "mov", mov_i(i))
  <2>1. CASE i.dst.kind = "reg"
    <3>1. SetReg(i.dst.reg, i.dst.size, Load(i.src)) \in [GPR -> Addr]
      BY <2>1, <1>1, <1>4, Fetched, SetRegType
    <3> QED
      BY <1>19, <2>1, <3>1, <1>2, <1>3, <1>9 DEF Run, mov_i, CpuTypeOK
  <2>2. CASE i.dst.kind # "reg"
    <3>1. write32(mem, eff_addr(i.dst), Load(i.src)) \in [Addr -> Byte]
      BY <1>2, <1>4, WriteType
    <3> QED
      BY <1>19, <2>2, <3>1, <1>2, <1>3, <1>9 DEF Run, mov_i, CpuTypeOK
  <2> QED
    BY <2>1, <2>2
<1>20. CASE Run(i, "lea", lea_i(i))
  <2>1. SetReg(i.dst.reg, i.dst.size, eff_addr(i.src)) \in [GPR -> Addr]
    BY <1>20, <1>1, <1>4, Fetched, SetRegType DEF Run
  <2> QED
    BY <1>20, <2>1, <1>2, <1>3, <1>9 DEF Run, lea_i, CpuTypeOK
<1>21. CASE Run(i, "add", add_i(i))
  <2>1. i.dst.reg \in GPR
    BY <1>21, Fetched DEF Run
  <2>2. (regs[i.dst.reg] + Load(i.src)) % N \in Addr
    BY <2>1, <1>2, <1>4, WordArith
  <2> QED
    BY <1>21, <2>2, <1>2, <1>3, <1>9 DEF Run, add_i, CpuTypeOK
<1>22. CASE Run(i, "sub", sub_i(i))
  <2>1. i.dst.reg \in GPR
    BY <1>22, Fetched DEF Run
  <2>2. Minus(regs[i.dst.reg], Load(i.src)) \in Addr
    BY <2>1, <1>2, <1>4, WordArith
  <2> QED
    BY <1>22, <2>2, <1>2, <1>3, <1>9 DEF Run, sub_i, CpuTypeOK
<1>23. CASE Fetch(i) /\ i.op = "int" /\ int_i(i)
  <2>1. CASE IntOther(i)
    BY <2>1, <1>2, <1>3, <1>9 DEF IntOther, CpuTypeOK
  <2>2. CASE Int80(i)
    <3> DEFINE res(v) == IF regs["eax"] = SYS_exit THEN Sentinel ELSE v
               n(v)   == IF regs["eax"] = SYS_read /\ v <= regs["edx"] THEN v ELSE 0
    <3>1. PICK v \in HostResults, data \in HostData :
            /\ mem' = Received(n(v), data)
            /\ regs' = [regs EXCEPT !["eax"] = res(v)]
            /\ status' = IF res(v) = Sentinel THEN "exited" ELSE status
      BY <2>2 DEF Int80
    <3>2. v \in Addr /\ res(v) \in Addr /\ n(v) \in Addr /\ data \in [Addr -> Byte]
      BY CpuAssumption, SmallAddr
    <3>3. regs["ecx"] \in Addr
      BY <1>2 DEF GPR
    <3>4. Received(n(v), data) \in [Addr -> Byte]
      BY <3>2, <3>3, <1>2, ReceivedType
    <3>5. eip' \in Addr
      BY <2>2, <1>3 DEF Int80
    <3> QED
      BY <3>1, <3>2, <3>4, <3>5, <1>2, <1>9 DEF CpuTypeOK
  <2> QED
    BY <1>23, <2>1, <2>2 DEF int_i
<1>24. CASE Undispatched(i)
  BY <1>24 DEF Undispatched, cpuVars, CpuTypeOK
<1> QED
  BY <1>10, <1>11, <1>12, <1>13, <1>14, <1>15, <1>16, <1>17, <1>18, <1>19, <1>20,
     <1>21, <1>22, <1>23, <1>24 DEF Step

---------------------------------------------------------------------------
(* Return addresses *)

\* The inductive invariant: FramesIntact alone is not inductive, a push
\* spares the slots only because they are not below esp.
Inv == TypeOK /\ FramesIntact /\ FramesNested

\* A live slot does not wrap around the top of memory.
LEMMA SlotRange ==
  ASSUME Inv, NEW k \in 1..Len(frames)
  PROVE  /\ esp \in Nat /\ esp < N
         /\ frames[k].slot \in Addr /\ frames[k].slot \in Nat
         /\ esp <= frames[k].slot /\ frames[k].slot + 3 < N
         /\ Range4(frames[k].slot) = frames[k].slot..(frames[k].slot + 3)
<1>1. frames[k] \in [slot : Addr, ret : Addr]
  <2>1. frames \in Seq([slot : Addr, ret : Addr])
    BY DEF Inv, TypeOK
  <2> QED
    BY <2>1, ElementOfSeq
<1>2. esp \in Addr
  BY DEF Inv, TypeOK, CpuTypeOK, esp, GPR
<1>3. esp <= frames[k].slot /\ frames[k].slot + 4 <= STACK_BOTTOM /\ STACK_BOTTOM \in Addr
  BY CpuAssumption DEF Inv, FramesNested
<1>4. frames[k].slot \in Addr /\ frames[k].slot \in Nat /\ esp \in Nat /\ esp < N /\ frames[k].slot + 3 < N
  BY <1>1, <1>2, <1>3, SpaceSize DEF Addr
<1> QED
  BY <1>3, <1>4, RangeNoWrap

\* Four bytes pushed below esp are apart from every live slot.
LEMMA PushApart ==
  ASSUME Inv, 4 <= esp, NEW k \in 1..Len(frames)
  PROVE  Minus(esp, 4) \in Addr /\ Range4(Minus(esp, 4)) \cap Range4(frames[k].slot) = {}
<1> DEFINE e == esp - 4
<1>1. esp \in Addr /\ 4 \in Addr
  BY SmallAddr DEF Inv, TypeOK, CpuTypeOK, esp, GPR
<1>2. Minus(esp, 4) = e /\ e \in Addr
  BY <1>1, WordArith
<1>3. esp \in Nat /\ esp < N
  BY SlotRange
<1>4. Range4(e) = e..(e + 3)
  BY <1>2, <1>3, RangeNoWrap, SpaceSize
<1>5. \A x \in Range4(e) : x < esp
  BY <1>3, <1>4
<1>6. \A x \in Range4(frames[k].slot) : x >= esp
  BY SlotRange
<1> QED
  BY <1>2, <1>3, <1>4, <1>5, <1>6

\* The same for the two bytes of a 16 bit push.
LEMMA PushApart16 ==
  ASSUME Inv, 2 <= esp, NEW k \in 1..Len(frames)
  PROVE  /\ Minus(esp, 2) \in Addr
         /\ At(Minus(esp, 2), 0) \notin Range4(frames[k].slot)
         /\ At(Minus(esp, 2), 1) \notin Range4(frames[k].slot)
<1> DEFINE e == esp - 2
<1>1. esp \in Addr /\ 2 \in Addr
  BY SmallAddr DEF Inv, TypeOK, CpuTypeOK, esp, GPR
<1>2. Minus(esp, 2) = e /\ e \in Addr
  BY <1>1, WordArith
<1>3. esp \in Nat /\ esp < N /\ N \in Nat
  BY SlotRange, SpaceSize
<1>4. At(e, 0) = e /\ At(e, 1) = e + 1
  BY <1>2, <1>3 DEF At
<1>5. \A x \in Range4(frames[k].slot) : x >= esp
  BY SlotRange
<1> QED
  BY <1>2, <1>3, <1>4, <1>5

\* pushad changes only the 32 bytes below esp.
LEMMA PushadApart ==
  ASSUME Inv, 32 <= esp, NEW i \in Code[eip], pushad_i(i), NEW k \in 1..Len(frames)
  PROVE  read32(mem', frames[k].slot) = read32(mem, frames[k].slot)
<1> DEFINE e == esp - 32
<1>1. esp \in Addr /\ 32 \in Addr
  BY SmallAddr DEF Inv, TypeOK, CpuTypeOK, esp, GPR
<1>2. Minus(esp, 32) = e /\ e \in Addr
  BY <1>1, WordArith
<1>3. \A x \in Range4(frames[k].slot) : x \in Addr /\ esp <= x
  BY SlotRange, SpaceSize DEF Addr
<1>4. \A x \in Range4(frames[k].slot) : Minus(x, e) >= 32
  <2> TAKE x \in Range4(frames[k].slot)
  <2>1. x \in Addr /\ esp <= x
    BY <1>3
  <2>2. x \in Nat /\ esp \in Nat
    BY <1>1, <2>1 DEF Addr
  <2>3. Minus(x, e) = x - e
    BY <1>2, <2>1, <2>2, WordArith
  <2> QED
    BY <2>1, <2>2, <2>3
<1>5. \A a \in Addr : ~(Minus(a, e) < 32) => mem'[a] = mem[a]
  BY <1>2 DEF pushad_i
<1>6. \A x \in Range4(frames[k].slot) : Minus(x, e) \in Int
  BY <1>2, <1>3, WordArith DEF Addr
<1>7. \A x \in Range4(frames[k].slot) : mem'[x] = mem[x]
  BY <1>3, <1>4, <1>5, <1>6
<1> QED
  BY <1>7, SameBytes

\* No iteration of the loop changes a live return address.
LEMMA SlotKept ==
  ASSUME Inv, NEW i \in Code[eip], Step(i), Disciplined(i), NEW k \in 1..Len(frames)
  PROVE  read32(mem', frames[k].slot) = read32(mem, frames[k].slot)
<1> DEFINE s == frames[k].slot
<1>1. CpuTypeOK /\ mem \in [Addr -> Byte] /\ esp \in Addr /\ eip \in Addr
  BY DEF Inv, TypeOK, CpuTypeOK, esp, GPR
<1>2. s \in Addr
  BY SlotRange
<1>3. Load(i.dst) \in Addr /\ Load(i.src) \in Addr /\ eff_addr(i.dst) \in Addr
  BY <1>1, Fetched, LoadType, EffAddrType
<1>4. Pushes(i) <= esp
  BY DEF Disciplined
<1>5. Stores(i) \cap Range4(s) = {}
  BY DEF Disciplined, Slots
<1>6. NextEip(i) \in Addr
  BY <1>1, Fetched, WordArith DEF NextEip
<1> HIDE DEF s
<1>7. CASE mem' = mem
  BY <1>7
<1>8. CASE Run(i, "push", push_i(i))
  <2>1. CASE i.dst.size = 2
    <3>1. 2 <= esp
      BY <1>4, <1>8, <2>1 DEF Pushes, Run
    <3>2. mem' = write16(mem, Minus(esp, 2), Load(i.dst) % Half)
      BY <1>8, <2>1 DEF Run, push_i
    <3>3. Load(i.dst) % Half \in Addr
      <4>1. Load(i.dst) % Half \in Nat /\ Load(i.dst) % Half <= Load(i.dst)
        BY <1>3, SpaceSize DEF Addr
      <4> QED
        BY <4>1, <1>3, SpaceSize DEF Addr
    <3>4. Minus(esp, 2) \in Addr /\ At(Minus(esp, 2), 0) \notin Range4(s) /\ At(Minus(esp, 2), 1) \notin Range4(s)
      BY <3>1, PushApart16 DEF s
    <3>5. read32(write16(mem, Minus(esp, 2), Load(i.dst) % Half), s) = read32(mem, s)
      BY <3>3, <3>4, <1>1, <1>2, ReadElsewhere16
    <3> QED
      BY <3>2, <3>5 DEF s
  <2>2. CASE i.dst.size # 2
    <3>1. 4 <= esp
      BY <1>4, <1>8, <2>2 DEF Pushes, Run
    <3>2. mem' = write32(mem, Minus(esp, 4), Load(i.dst))
      BY <1>8, <2>2 DEF Run, push_i
    <3>3. Minus(esp, 4) \in Addr /\ Range4(Minus(esp, 4)) \cap Range4(s) = {}
      BY <3>1, PushApart DEF s
    <3> QED
      BY <3>2, <3>3, <1>1, <1>2, <1>3, ReadElsewhere DEF s
  <2> QED
    BY <2>1, <2>2
<1>9. CASE Run(i, "pop", pop_i(i))
  <2>1. CASE PopReg(i)
    BY <2>1 DEF PopReg
  <2>2. CASE PopMem(i)
    <3>1. Stores(i) = Range4(eff_addr(i.dst))
      BY <1>9, <2>2 DEF Stores, Run, PopMem
    <3>2. read32(mem, esp) \in Addr
      BY <1>1, ReadType
    <3> QED
      BY <2>2, <3>1, <3>2, <1>1, <1>2, <1>3, <1>5, ReadElsewhere DEF PopMem, s
  <2> QED
    BY <1>9, <2>1, <2>2 DEF Run, pop_i
<1>10. CASE Run(i, "pushad", pushad_i(i))
  <2>1. 32 <= esp
    BY <1>4, <1>10 DEF Pushes, Run
  <2> QED
    BY <1>10, <2>1, PushadApart DEF Run
<1>11. CASE Run(i, "call", call_i(i))
  <2>1. 4 <= esp
    BY <1>4, <1>11 DEF Pushes, Run
  <2>2. Minus(esp, 4) \in Addr /\ Range4(Minus(esp, 4)) \cap Range4(s) = {}
    BY <2>1, PushApart DEF s
  <2> QED
    BY <1>11, <2>2, <1>1, <1>2, <1>6, ReadElsewhere DEF Run, call_i, s
<1>12. CASE Run(i, "mov", mov_i(i))
  <2>1. CASE i.dst.kind # "reg"
    <3>1. Stores(i) = Range4(eff_addr(i.dst))
      BY <1>12, <2>1 DEF Stores, Run
    <3>2. mem' = write32(mem, eff_addr(i.dst), Load(i.src))
      BY <1>12, <2>1 DEF Run, mov_i
    <3> QED
      BY <3>1, <3>2, <1>1, <1>2, <1>3, <1>5, ReadElsewhere DEF s
  <2>2. CASE i.dst.kind = "reg"
    BY <1>12, <2>2 DEF Run, mov_i
  <2> QED
    BY <2>1, <2>2
<1>13. CASE Fetch(i) /\ i.op = "int" /\ int_i(i)
  <2>1. CASE IntOther(i)
    BY <2>1 DEF IntOther
  <2>2. CASE Int80(i)
    <3>1. PICK v \in HostResults, data \in HostData :
            mem' = Received(IF regs["eax"] = SYS_read /\ v <= regs["edx"] THEN v ELSE 0, data)
      BY <2>2 DEF Int80
    <3>2. v \in Nat /\ regs["ecx"] \in Nat /\ regs["edx"] \in Nat
      BY CpuAssumption, <1>1 DEF CpuTypeOK, GPR, Addr
    <3>3. CASE regs["eax"] = SYS_read /\ v <= regs["edx"]
      <4>1. Buffer(v) \subseteq Stores(i)
        BY <1>13, <3>2, <3>3 DEF Stores, Buffer, Addr
      <4>2. \A x \in Range4(s) : x \in Addr /\ mem'[x] = mem[x]
        BY <4>1, <3>1, <3>3, <1>2, <1>5, AtFacts DEF Received, Range4
      <4> QED
        BY <4>2, SameBytes DEF s
    <3>4. CASE ~(regs["eax"] = SYS_read /\ v <= regs["edx"])
      <4>1. Buffer(0) = {}
        BY <3>2 DEF Buffer, Addr
      <4>2. mem' = Received(0, data)
        BY <3>1, <3>4
      <4>3. \A x \in Range4(s) : mem'[x] = mem[x]
        BY <4>1, <4>2, <1>2, AtFacts DEF Received, Range4
      <4> QED
        BY <4>3, SameBytes DEF s
    <3> QED
      BY <3>3, <3>4
  <2> QED
    BY <1>13, <2>1, <2>2 DEF int_i
<1>14. CASE \/ Run(i, "popad", popad_i(i)) \/ Run(i, "ret", ret_i(i)) \/ Run(i, "leave", leave_i(i))
            \/ Run(i, "jmp", jmp_i(i)) \/ Run(i, "jcc", jcc_i(i)) \/ Run(i, "loop", loop_i(i))
            \/ Run(i, "lea", lea_i(i)) \/ Run(i, "add", add_i(i)) \/ Run(i, "sub", sub_i(i))
            \/ Undispatched(i)
  BY <1>14 DEF Run, popad_i, ret_i, leave_i, jmp_i, jcc_i, loop_i, lea_i, add_i, sub_i, Undispatched, cpuVars
<1> QED
  BY <1>8, <1>9, <1>10, <1>11, <1>12, <1>13, <1>14 DEF Step

\* The handler a mnemonic stands for.
LEMMA StepCases ==
  ASSUME NEW i, Step(i)
  PROVE  /\ Fetch(i)
         /\ i.op = "call" => call_i(i) /\ status' = status
         /\ i.op = "ret" => ret_i(i) /\ status' = status
  BY DEF Step, Run, Undispatched, inss

\* The bookkeeping of a call: the new slot is the four bytes below esp.
LEMMA CallFrame ==
  ASSUME Inv, NEW i \in Code[eip], Step(i), Disciplined(i), i.op = "call", Enter(i)
  PROVE  Inv'
<1> DEFINE F == [slot : Addr, ret : Addr]
           f == [slot |-> Minus(esp, 4), ret |-> NextEip(i)]
<1>1. CpuTypeOK /\ CpuTypeOK' /\ mem \in [Addr -> Byte] /\ esp \in Addr /\ frames \in Seq(F)
  BY StepType DEF Inv, TypeOK, CpuTypeOK, esp, GPR
<1>2. call_i(i) /\ 4 <= esp
  BY StepCases DEF Disciplined, Pushes
<1>3. NextEip(i) \in Addr
  BY <1>1, Fetched, WordArith DEF NextEip, CpuTypeOK
<1>4. Minus(esp, 4) = esp - 4 /\ Minus(esp, 4) \in Addr /\ esp \in Nat
  BY <1>1, <1>2, SmallAddr, WordArith DEF Addr
<1>5. f \in F
  BY <1>3, <1>4
<1>6. frames' = Append(frames, f)
  BY DEF Enter
<1>7. Len(frames) \in Nat /\ frames' \in Seq(F) /\ Len(frames') = Len(frames) + 1
      /\ (\A k \in 1..Len(frames) : frames'[k] = frames[k]) /\ frames'[Len(frames) + 1] = f
  <2> HIDE DEF f, F
  <2> QED
    BY <1>1, <1>5, <1>6, AppendProperties, LenProperties
<1>8. esp' = esp - 4
  BY <1>1, <1>2, <1>4 DEF call_i, esp, CpuTypeOK, GPR
<1>9. read32(mem', f.slot) = f.ret
  BY <1>1, <1>2, <1>3, <1>4, ReadBack DEF call_i
<1>10. \A k \in 1..Len(frames) : read32(mem', frames[k].slot) = frames[k].ret
  BY SlotKept DEF Inv, FramesIntact
<1>11. FramesIntact'
  <2>1. SUFFICES ASSUME NEW k \in 1..(Len(frames) + 1)
                 PROVE  read32(mem', frames'[k].slot) = frames'[k].ret
    BY <1>7 DEF FramesIntact
  <2>2. CASE k \in 1..Len(frames)
    BY <2>2, <1>7, <1>10
  <2>3. CASE k = Len(frames) + 1
    BY <2>3, <1>7, <1>9
  <2> QED
    BY <2>1, <2>2, <2>3, <1>7
<1>12. FramesNested'
  <2>1. f.slot = esp - 4
    BY <1>4
  <2>2. esp <= STACK_BOTTOM /\ STACK_BOTTOM \in Nat
    BY CpuAssumption DEF Inv, FramesNested, Addr
  <2>3. \A k \in 1..Len(frames) : /\ frames[k].slot \in Nat /\ esp <= frames[k].slot
                                    /\ frames[k].slot + 4 <= STACK_BOTTOM
    BY SlotRange DEF Inv, FramesNested
  <2>4. \A j, k \in 1..Len(frames) : j < k => frames[k].slot + 4 <= frames[j].slot
    BY DEF Inv, FramesNested
  <2>5. esp' <= STACK_BOTTOM
    BY <1>4, <1>8, <2>2
  <2>6. ASSUME NEW k \in 1..(Len(frames) + 1)
        PROVE  esp' <= frames'[k].slot /\ frames'[k].slot + 4 <= STACK_BOTTOM
    <3> HIDE DEF f
    <3>1. CASE k \in 1..Len(frames)
      BY <3>1, <1>4, <1>7, <1>8, <2>3
    <3>2. CASE k = Len(frames) + 1
      BY <3>2, <1>4, <1>7, <1>8, <2>1, <2>2
    <3> QED
      BY <3>1, <3>2, <1>7
  <2>7. ASSUME NEW j \in 1..(Len(frames) + 1), NEW k \in 1..(Len(frames) + 1), j < k
        PROVE  frames'[k].slot + 4 <= frames'[j].slot
    <3> HIDE DEF f
    <3>1. j \in 1..Len(frames)
      BY <2>7, <1>7
    <3>2. CASE k \in 1..Len(frames)
      BY <3>1, <3>2, <2>7, <1>7, <2>4
    <3>3. CASE k = Len(frames) + 1
      BY <3>1, <3>3, <1>4, <1>7, <2>1, <2>3
    <3> QED
      BY <3>2, <3>3, <1>7
  <2> QED
    BY <2>5, <2>6, <2>7, <1>7 DEF FramesNested
<1> QED
  BY <1>1, <1>7, <1>11, <1>12 DEF Inv, TypeOK

\* The bookkeeping of a return: the last slot is dropped.
LEMMA RetFrame ==
  ASSUME Inv, NEW i \in Code[eip], Step(i), Disciplined(i), i.op = "ret", Leave
  PROVE  /\ Inv'
         /\ Len(frames) \in Nat \ {0} /\ Len(frames') = Len(frames) - 1
         /\ \A k \in 1..Len(frames') : frames'[k] = frames[k]
<1> DEFINE F == [slot : Addr, ret : Addr]
<1>1. CpuTypeOK' /\ frames \in Seq(F)
  BY StepType DEF Inv, TypeOK
<1>2. frames # <<>>
  BY DEF Disciplined
<1>3. Len(frames) \in Nat \ {0}
  BY <1>1, <1>2, EmptySeq
<1>4. \A k \in 1..(Len(frames) - 1) : frames[k] \in F
  <2> HIDE DEF F
  <2> QED BY <1>1, <1>3, ElementOfSeq
<1>5. frames' \in Seq(F) /\ Len(frames') = Len(frames) - 1
      /\ \A k \in 1..Len(frames') : frames'[k] = frames[k]
  <2> HIDE DEF F
  <2>1. frames' = SubSeq(frames, 1, Len(frames) - 1)
    BY DEF Leave
  <2>2. /\ SubSeq(frames, 1, Len(frames) - 1) \in Seq(F)
        /\ Len(SubSeq(frames, 1, Len(frames) - 1)) = IF 1 <= Len(frames) - 1 THEN (Len(frames) - 1) - 1 + 1 ELSE 0
        /\ \A k \in 1..((Len(frames) - 1) - 1 + 1) : SubSeq(frames, 1, Len(frames) - 1)[k] = frames[1 + k - 1]
    BY <1>3, <1>4, SubSeqProperties
  <2>3. Len(SubSeq(frames, 1, Len(frames) - 1)) = Len(frames) - 1
    <3> DEFINE L == Len(SubSeq(frames, 1, Len(frames) - 1))
               n == Len(frames)
    <3>1. L = IF 1 <= n - 1 THEN (n - 1) - 1 + 1 ELSE 0
      BY <2>2
    <3>2. n \in Nat \ {0}
      BY <1>3
    <3> HIDE DEF L, n
    <3>3. L = n - 1
      BY <3>1, <3>2
    <3> QED
      BY <3>3 DEF L, n
  <2>4. ASSUME NEW k \in 1..(Len(frames) - 1)
        PROVE  SubSeq(frames, 1, Len(frames) - 1)[k] = frames[k]
    <3>1. k \in 1..((Len(frames) - 1) - 1 + 1) /\ 1 + k - 1 = k
      BY <1>3
    <3> QED
      BY <2>2, <3>1
  <2> QED
    BY <2>1, <2>2, <2>3, <2>4
<1>6. \A k \in 1..Len(frames') : read32(mem', frames[k].slot) = frames[k].ret
  BY <1>3, <1>5, SlotKept DEF Inv, FramesIntact
<1>7. FramesIntact'
  BY <1>5, <1>6 DEF FramesIntact
<1>8. \A k \in 1..Len(frames') : regs'["esp"] <= frames[k].slot
  BY <1>3, <1>5 DEF Disciplined
<1>9. FramesNested'
  <2>1. \A k \in 1..Len(frames') : k \in 1..Len(frames)
    BY <1>3, <1>5
  <2>2. esp' <= STACK_BOTTOM /\ \A k \in 1..Len(frames') : esp' <= frames'[k].slot
    BY <1>5, <1>8 DEF Disciplined, esp
  <2>3. \A k \in 1..Len(frames') : frames'[k].slot + 4 <= STACK_BOTTOM
    BY <1>5, <2>1 DEF Inv, FramesNested
  <2>4. \A j, k \in 1..Len(frames') : j < k => frames'[k].slot + 4 <= frames'[j].slot
    BY <1>5, <2>1 DEF Inv, FramesNested
  <2> QED
    BY <2>2, <2>3, <2>4 DEF FramesNested
<1> QED
  BY <1>1, <1>3, <1>5, <1>7, <1>9 DEF Inv, TypeOK

\* Every other instruction leaves the open calls and their slots alone.
LEMMA OtherFrame ==
  ASSUME Inv, NEW i \in Code[eip], Step(i), Disciplined(i), i.op # "ret", frames' = frames
  PROVE  Inv'
<1>1. CpuTypeOK'
  BY StepType DEF Inv, TypeOK
<1>2. FramesIntact'
  BY SlotKept DEF Inv, FramesIntact
<1>3. esp' <= STACK_BOTTOM /\ \A k \in 1..Len(frames) : esp' <= frames[k].slot
  BY DEF Disciplined, esp
<1> QED
  BY <1>1, <1>2, <1>3 DEF Inv, TypeOK, FramesNested

\* Inv is inductive.
LEMMA InvStep == Inv /\ [Next]_vars => Inv'
<1> SUFFICES ASSUME Inv, [Next]_vars PROVE Inv'
  OBVIOUS
<1>1. ASSUME NEW i \in Code[eip], GuestStep(i) PROVE Inv'
  <2>1. Step(i) /\ Disciplined(i)
    BY <1>1 DEF GuestStep
  <2>2. CASE i.op = "call"
    BY <1>1, <2>1, <2>2, CallFrame DEF GuestStep
  <2>3. CASE i.op = "ret"
    BY <1>1, <2>1, <2>3, RetFrame DEF GuestStep
  <2>4. CASE i.op # "call" /\ i.op # "ret"
    BY <1>1, <2>1, <2>4, OtherFrame DEF GuestStep
  <2> QED
    BY <2>2, <2>3, <2>4
<1>2. CASE Stop
  BY <1>2 DEF Stop, DisasmFails, Inv, TypeOK, CpuTypeOK, FramesIntact, FramesNested, esp
<1>3. CASE UNCHANGED vars
  BY <1>3 DEF vars, Inv, TypeOK, CpuTypeOK, FramesIntact, FramesNested, esp
<1> QED
  BY <1>1, <1>2, <1>3 DEF Next

\* The first state of the loop.
LEMMA InvInit == Init => Inv
<1> SUFFICES ASSUME Init PROVE Inv
  OBVIOUS
<1>1. CpuTypeOK
  BY CpuAssumption, SmallAddr, RadixAssumption DEF Init, CpuInit, CpuTypeOK, Byte
<1>2. frames = <<>> /\ Len(frames) = 0 /\ frames \in Seq([slot : Addr, ret : Addr])
  BY EmptySeq DEF Init
<1>3. esp = STACK_BOTTOM /\ STACK_BOTTOM \in Int
  BY CpuAssumption DEF Init, CpuInit, esp, GPR, Addr
<1> QED
  BY <1>1, <1>2, <1>3 DEF Inv, TypeOK, FramesIntact, FramesNested

\* Memory stays a function from addresses to bytes and registers, eip and the
\* open calls stay in range, whatever the program.
THEOREM TypeCorrect == Spec => []TypeOK
  BY InvInit, InvStep, PTL DEF Spec, Inv

\* Under any guest that keeps the calling convention no push, pushad, call,
\* pop or store of the emulator changes the return address of an open call.
THEOREM ReturnAddressesIntact == Spec => []FramesIntact
  BY InvInit, InvStep, PTL DEF Spec, Inv

\* The slots of open calls are disjoint, nested and never below esp.
THEOREM ReturnSlotsNested == Spec => []FramesNested
  BY InvInit, InvStep, PTL DEF Spec, Inv

---------------------------------------------------------------------------
(* Refinement of CallStack *)

\* The stack of the abstract specification.
RetsOf(fs) == [k \in 1..Len(fs) |-> fs[k].ret]
Rets       == RetsOf(frames)

\* A function on 1..n is a sequence of length n.
LEMMA FunctionIsSeq ==
  ASSUME NEW S, NEW n \in Nat, NEW q \in [1..n -> S]
  PROVE  q \in Seq(S) /\ Len(q) = n
<1>1. q \in Seq(S)
  BY SeqDef
<1>2. DOMAIN q = 1..Len(q) /\ DOMAIN q = 1..n /\ Len(q) \in Nat
  BY <1>1, LenProperties
<1> QED
  BY <1>1, <1>2

\* In a typed state the abstract stack is a sequence of addresses.
LEMMA RetsType ==
  ASSUME NEW fs \in Seq([slot : Addr, ret : Addr])
  PROVE  /\ RetsOf(fs) \in Seq(Addr) /\ Len(RetsOf(fs)) = Len(fs) /\ Len(fs) \in Nat
         /\ \A k \in 1..Len(fs) : RetsOf(fs)[k] = fs[k].ret
<1>1. Len(fs) \in Nat
  BY LenProperties
<1>2. \A k \in 1..Len(fs) : fs[k] \in [slot : Addr, ret : Addr]
  BY ElementOfSeq
<1>3. RetsOf(fs) \in [1..Len(fs) -> Addr]
  BY <1>2 DEF RetsOf
<1> QED
  BY <1>1, <1>3, FunctionIsSeq DEF RetsOf

\* The first state of the loop has no open call.
LEMMA RefineInit == Init => Returns!Init
<1> SUFFICES ASSUME Init PROVE Returns!Init
  OBVIOUS
<1>1. frames = <<>> /\ eip = Entry
  BY DEF Init, CpuInit
<1>2. frames \in Seq([slot : Addr, ret : Addr]) /\ Len(frames) = 0
  BY <1>1, EmptySeq
<1>3. Rets \in Seq(Addr) /\ Len(Rets) = 0
  BY <1>2, RetsType DEF Rets
<1>4. Rets = <<>>
  BY <1>3, EmptySeq
<1> QED
  BY <1>1, <1>4 DEF Returns!Init, Rets, RetsOf

\* Every iteration of the loop is a call, a return to the matching call, or
\* a step that leaves the open calls alone.
LEMMA RefineStep ==
  Inv /\ Inv' /\ [Next]_vars => [Returns!Next]_<<eip, Rets>>
<1> SUFFICES ASSUME Inv, Inv', [Next]_vars PROVE [Returns!Next]_<<eip, Rets>>
  OBVIOUS
<1>1. eip' \in Addr /\ CpuTypeOK
  BY DEF Inv, TypeOK, CpuTypeOK
<1>2. /\ Rets \in Seq(Addr) /\ Len(Rets) = Len(frames) /\ Len(frames) \in Nat
      /\ \A k \in 1..Len(frames) : Rets[k] = frames[k].ret
  BY RetsType DEF Inv, TypeOK, Rets
<1>3. /\ Rets' \in Seq(Addr) /\ Len(Rets') = Len(frames') /\ Len(frames') \in Nat
      /\ \A k \in 1..Len(frames') : Rets'[k] = frames'[k].ret
  BY RetsType DEF Inv, TypeOK, Rets
<1>4. ASSUME NEW i \in Code[eip], GuestStep(i) PROVE Returns!Next
  <2>1. Step(i) /\ Disciplined(i)
    BY <1>4 DEF GuestStep
  <2>2. CASE i.op = "call"
    <3> DEFINE f == [slot |-> Minus(esp, 4), ret |-> NextEip(i)]
               F == [slot : Addr, ret : Addr]
    <3>1. frames' = Append(frames, f)
      BY <1>4, <2>2 DEF GuestStep, Enter
    <3>2. NextEip(i) \in Addr /\ Minus(esp, 4) \in Addr
      BY <1>1, Fetched, WordArith, SmallAddr DEF NextEip, CpuTypeOK, esp, GPR
    <3>3. frames \in Seq(F) /\ f \in F
      BY <3>2 DEF Inv, TypeOK
    <3>4. Len(frames') = Len(frames) + 1 /\ (\A k \in 1..Len(frames) : frames'[k] = frames[k])
          /\ frames'[Len(frames) + 1] = f
      <4> HIDE DEF f, F
      <4> QED BY <3>1, <3>3, AppendProperties
    <3>5. f.ret = NextEip(i)
      OBVIOUS
    <3> DEFINE A == Append(Rets, NextEip(i))
    <3>6. A \in Seq(Addr) /\ Len(A) = Len(frames) + 1 /\ (\A k \in 1..Len(frames) : A[k] = Rets[k])
          /\ A[Len(frames) + 1] = NextEip(i)
      BY <1>2, <3>2, AppendProperties
    <3> HIDE DEF A, f
    <3>7. \A k \in 1..Len(frames') : Rets'[k] = A[k]
      <4> TAKE k \in 1..Len(frames')
      <4>1. CASE k \in 1..Len(frames)
        BY <4>1, <1>2, <1>3, <3>4, <3>6
      <4>2. CASE k = Len(frames) + 1
        BY <4>2, <1>3, <3>4, <3>5, <3>6
      <4> QED
        BY <4>1, <4>2, <3>4, <1>2
    <3>8. Rets' = A
      BY <1>3, <3>4, <3>6, <3>7, SeqEqual
    <3> QED
      BY <1>1, <3>2, <3>8 DEF Returns!Next, Returns!Call, Rets, RetsOf, A
  <2>3. CASE i.op = "ret"
    <3>1. Leave
      BY <1>4, <2>3 DEF GuestStep
    <3>2. /\ Len(frames) \in Nat \ {0} /\ Len(frames') = Len(frames) - 1
          /\ \A k \in 1..Len(frames') : frames'[k] = frames[k]
      BY <2>1, <2>3, <3>1, RetFrame
    <3>3. eip' = read32(mem, esp)
      BY <2>1, <2>3, StepCases DEF ret_i
    <3>4. esp = frames[Len(frames)].slot
      BY <2>1, <2>3 DEF Disciplined, Top
    <3>5. eip' = frames[Len(frames)].ret
      BY <3>2, <3>3, <3>4 DEF Inv, FramesIntact
    <3>6. eip' = Rets[Len(Rets)] /\ Rets # <<>>
      BY <3>2, <3>5, <1>2, EmptySeq
    <3> DEFINE B == SubSeq(Rets, 1, Len(Rets) - 1)
    <3>7. \A k \in 1..(Len(Rets) - 1) : Rets[k] \in Addr
      BY <1>2, ElementOfSeq
    <3>8. /\ B \in Seq(Addr)
          /\ Len(B) = IF 1 <= Len(Rets) - 1 THEN (Len(Rets) - 1) - 1 + 1 ELSE 0
          /\ \A k \in 1..((Len(Rets) - 1) - 1 + 1) : B[k] = Rets[1 + k - 1]
      BY <1>2, <3>7, SubSeqProperties
    <3> HIDE DEF B
    <3>9. Len(B) = Len(frames')
      <4> DEFINE n == Len(frames)  L == Len(B)  M == Len(frames')
      <4>1. L = (IF 1 <= n - 1 THEN (n - 1) - 1 + 1 ELSE 0) /\ n \in Nat \ {0} /\ M = n - 1
        BY <1>2, <3>2, <3>8
      <4> HIDE DEF n, L, M
      <4>2. L = M
        BY <4>1
      <4> QED
        BY <4>2 DEF L, M
    <3>10. ASSUME NEW k \in 1..Len(frames') PROVE Rets'[k] = B[k]
      <4>1. k \in 1..((Len(Rets) - 1) - 1 + 1) /\ 1 + k - 1 = k /\ k \in 1..Len(frames)
        BY <1>2, <3>2
      <4>2. B[k] = frames[k].ret
        BY <1>2, <3>8, <4>1
      <4> QED
        BY <4>2, <1>3, <3>2
    <3>11. Rets' = B
      BY <1>3, <3>8, <3>9, <3>10, SeqEqual
    <3> QED
      BY <3>6, <3>11 DEF Returns!Next, Returns!Return, Rets, RetsOf, B
  <2>4. CASE i.op # "call" /\ i.op # "ret"
    <3>1. frames' = frames
      BY <1>4, <2>4 DEF GuestStep
    <3>2. Rets' = Rets
      BY <3>1 DEF Rets
    <3> QED
      BY <1>1, <3>2 DEF Returns!Next, Returns!Other, Rets, RetsOf
  <2> QED
    BY <2>2, <2>3, <2>4
<1>5. CASE Stop
  BY <1>5 DEF Stop, DisasmFails, Rets, RetsOf
<1>6. CASE UNCHANGED vars
  BY <1>6 DEF vars, Rets, RetsOf
<1> QED
  BY <1>4, <1>5, <1>6 DEF Next

\* RET continues after the matching CALL: the loop implements the abstract
\* machine whose return addresses only CALL and RET touch.
THEOREM LoopRefinesCallStack == Spec => RefinesCallStack
<1>1. Inv /\ Inv' /\ [Next]_vars => [Returns!Next]_<<eip, [k \in 1..Len(frames) |-> frames[k].ret]>>
  BY RefineStep DEF Rets, RetsOf
<1> QED
  BY <1>1, InvInit, InvStep, RefineInit, PTL DEF Spec, RefinesCallStack, Returns!Spec
=============================================================================
