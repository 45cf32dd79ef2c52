------------------------------ MODULE Programs ------------------------------
(***************************************************************************)
(* Guest programs for the instruction loop, with bytes of three values (81 *)
(* addresses).  The programs are laid out in the upper part of memory, one *)
(* byte per instruction; the stack grows down from STACK_BOTTOM.           *)
(***************************************************************************)
EXTENDS Cpu, TLC

Op(k, s, r, v) == [kind |-> k, size |-> s, reg |-> r, index |-> NoReg, scale |-> 1, val |-> v]
Reg(r)    == Op("reg", 4, r, 0)
Imm(v)    == Op("imm", 4, NoReg, v)
Mem(r, v) == Op("mem", 4, r, v)
None      == Imm(0)
Ins(op, d, s) == [op |-> op, size |-> 1, dst |-> d, src |-> s]
One(op, d)    == Ins(op, d, None)
Mov(r, v)     == Ins("mov", Reg(r), Imm(v))
Syscall       == One("int", Imm(128 % N))

LaidOut(first, prog) ==
  [a \in Addr |-> IF a - first + 1 \in DOMAIN prog THEN {prog[a - first + 1]} ELSE {}]

\* Every word, the sentinel included: a result equal to it ends the run.
MCHostResults == Addr
MCHostData    == {[a \in Addr |-> 2], [a \in Addr |-> 1 + (a % 2)]}

\* main either jumps to bytes that do not decode or calls f, which reads up to
\* four bytes from the host into memory, saves all registers, calls g with the
\* word it read, restores them and returns; g clobbers the registers, branches
\* and pops its argument with ret 4.
MainAfterCall == 62
NestedCalls == LaidOut(58, <<
  (* 58 main *) One("jcc", Imm(57)),
  (* 59 *)      Mov("ebx", 50),
  (* 60 *)      Mov("edx", 4),
  (* 61 *)      One("call", Imm(65)),
  (* 62 *)      Mov("eax", SYS_exit),
  (* 63 *)      Syscall,
  (* 64 *)      One("jmp", Imm(64)),
  (* 65 f *)    Mov("eax", SYS_read),
  (* 66 *)      Ins("lea", Reg("ecx"), Mem("ebx", 1)),
  (* 67 *)      Syscall,
  (* 68 *)      One("pushad", None),
  (* 69 *)      One("push", Mem("ebx", 1)),
  (* 70 *)      One("call", Imm(73)),
  (* 71 *)      One("popad", None),
  (* 72 *)      One("ret", Imm(0)),
  (* 73 g *)    Mov("ebx", 2),
  (* 74 *)      One("jcc", Imm(76)),
  (* 75 *)      Ins("mov", Op("reg", 1, "edx", 0), Imm(80)),
  (* 76 *)      One("int", Imm(3)),
  (* 77 *)      Mov("ecx", 1),
  (* 78 *)      One("loop", Imm(80)),
  (* 79 *)      One("enter", None),
  (* 80 *)      One("ret", Imm(4)) >>)

\* The guest comes back to main with its stack pointer and its registers:
\* pushad and popad are inverse, ret 4 drops the argument, eax is what read
\* returned, and that many bytes of the buffer, and no others, came from the
\* host.
RegistersRestored ==
  eip = MainAfterCall =>
    /\ esp = STACK_BOTTOM
    /\ regs["ebx"] = 50 /\ regs["ecx"] = 51 /\ regs["edx"] = 4
    /\ regs["eax"] \in HostResults
    /\ \E data \in HostData : \A x \in 48..80 :
         mem[x] = IF regs["eax"] <= 4 /\ x - 51 \in 0..(regs["eax"] - 1) THEN data[x - 51] ELSE 0

\* A guest that runs into its exit system call leaves the loop.
Terminates == <>(status = "exited")
=============================================================================
