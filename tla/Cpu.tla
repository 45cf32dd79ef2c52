-------------------------------- MODULE Cpu --------------------------------
(***************************************************************************)
(* The instruction loop of blind_elf_main and blind_raw_main: disassemble  *)
(* the instruction at eip, dispatch it on its mnemonic, stop when an INT   *)
(* returns the exit sentinel or nothing can be disassembled.  One action   *)
(* is one iteration of the loop, for the instructions that move data, the  *)
(* stack pointer and eip.                                                  *)
(*                                                                         *)
(* Code gives the decoded instructions Capstone may return for an address; *)
(* a set with several members stands for any program that has one of them  *)
(* there, the empty set for bytes that cannot be decoded.  EFLAGS is not a *)
(* variable of this module (Arith is about it): a conditional jump goes    *)
(* either way.  An operand is a record; of a memory operand reg, index,    *)
(* scale and val are base, index, scale and displacement.                  *)
(***************************************************************************)
EXTENDS Memory

GPR   == {"eax", "ecx", "edx", "ebx", "esp", "ebp", "esi", "edi"}
NoReg == "none"

\* The mnemonics of the table inss[] this module has a handler for.  "enter"
\* has a handler and no entry, and the entry of jecxz_i is the string
\* "jecxz_i", which is no mnemonic.
inss == {"push", "pop", "pushad", "popad", "call", "ret", "leave", "jmp",
         "jcc", "loop", "mov", "lea", "add", "sub", "int"}

Mnemonics == inss \cup {"enter", "jecxz"}

Operand == [kind : {"reg", "imm", "mem"}, size : {1, 2, 4}, reg : GPR \cup {NoReg},
            index : GPR \cup {NoReg}, scale : {1, 2, 4, 8}, val : Addr]

Instruction == [op : Mnemonics, size : Addr, dst : Operand, src : Operand]

CONSTANTS Code,           \* address -> the instructions decoded there
          Entry,          \* the first eip
          STACK_BOTTOM,   \* the first esp
          HostResults,    \* what a system call of the host may return
          HostData,       \* what the host has for a read: offset -> byte
          Sentinel        \* 0xdeadbeef

ASSUME CpuAssumption ==
  /\ Code \in [Addr -> SUBSET Instruction]
  /\ \A a \in Addr : \A i \in Code[a] :
       /\ i.dst.kind = "reg" => i.dst.reg \in GPR
       /\ i.op \in {"lea", "add", "sub"} => i.dst.kind = "reg"
  /\ Entry \in Addr /\ STACK_BOTTOM \in Addr /\ Sentinel \in Addr
  /\ HostResults \subseteq Addr /\ HostData \subseteq [Addr -> Byte]

SYS_exit == 1
SYS_read == 3

VARIABLES mem, regs, eip,
          status          \* "running", or "exited" once the loop is left

cpuVars == <<mem, regs, eip, status>>

---------------------------------------------------------------------------
(* Registers and operands *)

esp == regs["esp"]

\* regs_size[] and the sized casts: the values a register of size s takes.
Values(s) == CASE s = 1 -> Radix [] s = 2 -> Half [] OTHER -> N

reg_val(r, s) == IF r \in GPR THEN regs[r] % Values(s) ELSE 0

\* A store through regs[r] at its size; the bytes above keep their value.
SetReg(r, s, v) ==
  [regs EXCEPT ![r] = (regs[r] - (regs[r] % Values(s))) + (v % Values(s))]

eff_addr(o) ==
  (reg_val(o.reg, 4) + (reg_val(o.index, 4) * o.scale) + o.val) % N

\* The three way choice that begins almost every handler.  A memory operand
\* is read as a uint32_t whatever its size.
Load(o) ==
  CASE o.kind = "reg" -> reg_val(o.reg, o.size)
    [] o.kind = "imm" -> o.val
    [] OTHER -> read32(mem, eff_addr(o))

---------------------------------------------------------------------------
(* Handlers.  i is the decoded instruction; eip has moved past it in every *)
(* handler that does not assign it.                                        *)

NextEip(i) == (eip + i.size) % N
Minus(v, n) == (v + N - n) % N

\* Mutant of push_i: the word is written before esp is decremented.
push_iPostDecrement(i) ==
  LET n == IF i.dst.size = 2 THEN 2 ELSE 4
  IN /\ mem' = IF n = 2 THEN write16(mem, esp, Load(i.dst) % Half)
                        ELSE write32(mem, esp, Load(i.dst))
     /\ regs' = [regs EXCEPT !["esp"] = Minus(esp, n)]
     /\ eip' = NextEip(i)

\* The operand is read before esp moves.
push_i(i) ==
  LET n == IF i.dst.size = 2 THEN 2 ELSE 4
      e == Minus(esp, n)
  IN /\ mem' = IF n = 2 THEN write16(mem, e, Load(i.dst) % Half)
                        ELSE write32(mem, e, Load(i.dst))
     /\ regs' = [regs EXCEPT !["esp"] = e]
     /\ eip' = NextEip(i)

\* The register is written first and esp is incremented afterwards, esp
\* itself included.  A memory operand's address uses the old esp.
PopReg(i) ==
  LET half == i.dst.size = 2
      v == IF half THEN read16(mem, esp) ELSE read32(mem, esp)
      r == SetReg(i.dst.reg, IF half THEN 2 ELSE 4, v)
  IN /\ i.dst.kind = "reg"
     /\ regs' = [r EXCEPT !["esp"] = (r["esp"] + (IF half THEN 2 ELSE 4)) % N]
     /\ mem' = mem
     /\ eip' = NextEip(i)

PopMem(i) ==
  /\ i.dst.kind = "mem"
  /\ mem' = write32(mem, eff_addr(i.dst), read32(mem, esp))
  /\ regs' = [regs EXCEPT !["esp"] = At(esp, 4)]
  /\ eip' = NextEip(i)

pop_i(i) == PopReg(i) \/ PopMem(i)

\* From the lowest address up, what pushad leaves on the stack.
PushadOrder == <<"edi", "esi", "ebp", "esp", "ebx", "edx", "ecx", "eax">>

ByteOf(v, k) ==
  CASE k = 0 -> Byte0(v) [] k = 1 -> Byte1(v) [] k = 2 -> Byte2(v) [] OTHER -> Byte3(v)

\* Eight words are written below esp; the one for esp is its old value.
pushad_i(i) ==
  LET e == Minus(esp, 32)
      off(a) == Minus(a, e)
  IN /\ mem' = [a \in Addr |-> IF off(a) < 32
                               THEN ByteOf(regs[PushadOrder[(off(a) \div 4) + 1]], off(a) % 4)
                               ELSE mem[a]]
     /\ regs' = [regs EXCEPT !["esp"] = e]
     /\ eip' = NextEip(i)

\* Mutant of popad_i: ecx and edx are popped in the order of their numbers.
popad_iSwapped(i) ==
  /\ regs' = [edi |-> read32(mem, esp), esi |-> read32(mem, At(esp, 4)),
              ebp |-> read32(mem, At(esp, 8)), esp |-> At(esp, 32),
              ebx |-> read32(mem, At(esp, 16)), ecx |-> read32(mem, At(esp, 20)),
              edx |-> read32(mem, At(esp, 24)), eax |-> read32(mem, At(esp, 28))]
  /\ mem' = mem
  /\ eip' = NextEip(i)

\* The word for esp is skipped.
popad_i(i) ==
  /\ regs' = [edi |-> read32(mem, esp), esi |-> read32(mem, At(esp, 4)),
              ebp |-> read32(mem, At(esp, 8)), esp |-> At(esp, 32),
              ebx |-> read32(mem, At(esp, 16)), edx |-> read32(mem, At(esp, 20)),
              ecx |-> read32(mem, At(esp, 24)), eax |-> read32(mem, At(esp, 28))]
  /\ mem' = mem
  /\ eip' = NextEip(i)

\* Mutant of call_i: esp stays above the return address.
call_iKeepsEsp(i) ==
  /\ mem' = write32(mem, Minus(esp, 4), NextEip(i))
  /\ regs' = regs
  /\ eip' = Load(i.dst)

\* The target is read before the return address is pushed.
call_i(i) ==
  /\ mem' = write32(mem, Minus(esp, 4), NextEip(i))
  /\ regs' = [regs EXCEPT !["esp"] = Minus(esp, 4)]
  /\ eip' = Load(i.dst)

\* Mutant of ret_i: esp is incremented before the read.
ret_iPreIncrement(i) ==
  /\ eip' = read32(mem, At(esp, 4))
  /\ regs' = [regs EXCEPT !["esp"] = (esp + 4 + i.dst.val) % N]
  /\ mem' = mem

\* RET and RET imm16: an immediate operand is added to esp.
ret_i(i) ==
  /\ eip' = read32(mem, esp)
  /\ regs' = [regs EXCEPT !["esp"] = (esp + 4 + i.dst.val) % N]
  /\ mem' = mem

\* With a 0x66 prefix (size 2) the low half of ebp is popped.  Without it
\* esp moves by four but only two bytes are read into ebp.
leave_i(i) ==
  LET b == regs["ebp"]
      v == read16(mem, b)
      r == IF i.dst.size = 2 THEN SetReg("ebp", 2, v) ELSE [regs EXCEPT !["ebp"] = v]
  IN /\ regs' = [r EXCEPT !["esp"] = At(b, IF i.dst.size = 2 THEN 2 ELSE 4)]
     /\ mem' = mem
     /\ eip' = NextEip(i)

jmp_i(i) == eip' = Load(i.dst) /\ UNCHANGED <<mem, regs>>

\* Any of the conditional jumps of Conditions.
jcc_i(i) == eip' \in {NextEip(i), Load(i.dst)} /\ UNCHANGED <<mem, regs>>

\* ecx is decremented and the jump is taken when it reaches zero.
loop_i(i) ==
  LET c == Minus(regs["ecx"], 1)
  IN /\ regs' = [regs EXCEPT !["ecx"] = c]
     /\ eip' = IF c = 0 THEN i.dst.val ELSE NextEip(i)
     /\ mem' = mem

\* A memory destination is written as a uint32_t whatever its size.
mov_i(i) ==
  /\ IF i.dst.kind = "reg"
     THEN regs' = SetReg(i.dst.reg, i.dst.size, Load(i.src)) /\ mem' = mem
     ELSE mem' = write32(mem, eff_addr(i.dst), Load(i.src)) /\ regs' = regs
  /\ eip' = NextEip(i)

lea_i(i) ==
  /\ regs' = SetReg(i.dst.reg, i.dst.size, eff_addr(i.src))
  /\ mem' = mem
  /\ eip' = NextEip(i)

\* The 32 bit register forms of ADD and SUB.
add_i(i) ==
  /\ regs' = [regs EXCEPT ![i.dst.reg] = (regs[i.dst.reg] + Load(i.src)) % N]
  /\ mem' = mem
  /\ eip' = NextEip(i)

sub_i(i) ==
  /\ regs' = [regs EXCEPT ![i.dst.reg] = Minus(regs[i.dst.reg], Load(i.src))]
  /\ mem' = mem
  /\ eip' = NextEip(i)

\* INT v.  INT 0x80 replaces eax by what the system call returns; every other
\* vector is unimplemented.  exit returns the sentinel, read(ebx, ecx, edx)
\* stores as many bytes at ecx as it returns, an error (-1) none; the other
\* calls are reduced to their result.  The loop is left whenever the value
\* returned is the sentinel, whoever returned it.
IntOther(i) ==
  /\ i.dst.val # 128 % N
  /\ UNCHANGED <<mem, regs, status>>
  /\ eip' = NextEip(i)

Buffer(n) == {x \in Addr : regs["ecx"] <= x /\ x < regs["ecx"] + n}

Received(n, data) ==
  [x \in Addr |-> IF x \in Buffer(n) THEN data[x - regs["ecx"]] ELSE mem[x]]

\* Mutant of Int80: the value returned is not compared with the sentinel.
Int80GoesOn(i) ==
  /\ i.dst.val = 128 % N
  /\ \E v \in HostResults, data \in HostData :
       /\ regs' = [regs EXCEPT !["eax"] = v]
       /\ mem' = Received(IF regs["eax"] = SYS_read /\ v <= regs["edx"] THEN v ELSE 0, data)
  /\ eip' = NextEip(i) /\ status' = status

Int80(i) ==
  /\ i.dst.val = 128 % N
  /\ \E v \in HostResults, data \in HostData :
       LET res == IF regs["eax"] = SYS_exit THEN Sentinel ELSE v
           n   == IF regs["eax"] = SYS_read /\ v <= regs["edx"] THEN v ELSE 0
       IN /\ mem' = Received(n, data)
          /\ regs' = [regs EXCEPT !["eax"] = res]
          /\ status' = IF res = Sentinel THEN "exited" ELSE status
  /\ eip' = NextEip(i)

int_i(i) == IntOther(i) \/ Int80(i)

---------------------------------------------------------------------------
(* The loop *)

Fetch(i) == status = "running" /\ i \in Code[eip]

Run(i, op, handler) == Fetch(i) /\ i.op = op /\ handler /\ status' = status

\* dispatcher() finds no entry, returns -1 and eip stays where it is.
Undispatched(i) == Fetch(i) /\ i.op \notin inss /\ UNCHANGED cpuVars

\* cs_disasm decodes nothing: the loop is left.
DisasmFails ==
  /\ status = "running" /\ Code[eip] = {}
  /\ status' = "exited"
  /\ UNCHANGED <<mem, regs, eip>>

Step(i) ==
  \/ Run(i, "push", push_i(i))     \/ Run(i, "pop", pop_i(i))
  \/ Run(i, "pushad", pushad_i(i)) \/ Run(i, "popad", popad_i(i))
  \/ Run(i, "call", call_i(i))     \/ Run(i, "ret", ret_i(i))
  \/ Run(i, "leave", leave_i(i))   \/ Run(i, "jmp", jmp_i(i))
  \/ Run(i, "jcc", jcc_i(i))       \/ Run(i, "loop", loop_i(i))
  \/ Run(i, "mov", mov_i(i))       \/ Run(i, "lea", lea_i(i))
  \/ Run(i, "add", add_i(i))       \/ Run(i, "sub", sub_i(i))
  \/ (Fetch(i) /\ i.op = "int" /\ int_i(i))
  \/ Undispatched(i)

CpuInit ==
  /\ mem = [a \in Addr |-> 0]
  /\ regs = [r \in GPR |-> IF r = "esp" THEN STACK_BOTTOM ELSE 0]
  /\ eip = Entry
  /\ status = "running"

CpuNext == (\E i \in Code[eip] : Step(i)) \/ DisasmFails

CpuSpec == CpuInit /\ [][CpuNext]_cpuVars /\ WF_cpuVars(CpuNext)

CpuTypeOK ==
  /\ mem \in [Addr -> Byte]
  /\ regs \in [GPR -> Addr]
  /\ eip \in Addr
  /\ status \in {"running", "exited"}
=============================================================================
