----------------------------- MODULE Conditions -----------------------------
(***************************************************************************)
(* The conditions of the Jcc and SETcc handlers of src/src/instr.c, one    *)
(* table per run of handlers in the source.  A Jcc handler first adds the  *)
(* instruction's size to eip and overwrites eip with its operand when the  *)
(* condition holds; a SETcc handler writes 1 or 0 into its byte operand.   *)
(* The tables map a mnemonic to the truth value of its condition.          *)
(***************************************************************************)
EXTENDS Flags

Cf(fl) == test_Flag(fl, "CF")
Zf(fl) == test_Flag(fl, "ZF")
SfIsOf(fl) == test_Flag(fl, "SF") = test_Flag(fl, "OF")

---------------------------------------------------------------------------
(* Conditional jumps *)

JumpsUnsigned(fl) ==
  [ja |-> ~Cf(fl) /\ ~Zf(fl), jae |-> ~Cf(fl), jb |-> Cf(fl),
   jbe |-> Cf(fl) \/ Zf(fl),  jc |-> Cf(fl)]

JumpsEqual(fl) == [je |-> Zf(fl), jz |-> Zf(fl)]

JumpsSigned(fl) ==
  [jg |-> ~Zf(fl) /\ SfIsOf(fl), jge |-> SfIsOf(fl), jl |-> ~SfIsOf(fl),
   jle |-> Zf(fl) /\ ~SfIsOf(fl)]

JumpsNotUnsigned(fl) ==
  [jna |-> Cf(fl) \/ Zf(fl), jnae |-> Cf(fl), jnb |-> ~Cf(fl),
   jnbe |-> ~Cf(fl) /\ ~Zf(fl), jnc |-> ~Cf(fl)]

JumpsNotSigned(fl) ==
  [jne |-> ~Zf(fl), jng |-> Zf(fl) \/ ~SfIsOf(fl), jnge |-> ~SfIsOf(fl),
   jnl |-> SfIsOf(fl), jnle |-> ~Zf(fl) /\ SfIsOf(fl)]

JumpsNotFlag(fl) ==
  [jno |-> "OF" \notin fl, jnp |-> "PF" \notin fl, jns |-> "SF" \notin fl,
   jnz |-> "ZF" \notin fl]

JumpsFlag(fl) ==
  [jo |-> "OF" \in fl, jp |-> "PF" \in fl, jpe |-> "PF" \in fl,
   jpo |-> "PF" \notin fl, js |-> "SF" \in fl]

\* jcxz looks at the low half of ecx, jecxz at all of it.
JumpsCounter(ecx, half) == [jcxz |-> ecx % half = 0, jecxz |-> ecx = 0]

---------------------------------------------------------------------------
(* Conditional byte stores *)

\* Mutant of SetsUnsigned: seta ignores ZF.
SetsUnsignedNoZero(fl) ==
  [seta |-> ~Cf(fl), setae |-> ~Cf(fl), setb |-> Cf(fl), setbe |-> Cf(fl) \/ Zf(fl), setc |-> Cf(fl)]

SetsUnsigned(fl) ==
  [seta |-> ~Cf(fl) /\ ~Zf(fl), setae |-> ~Cf(fl), setb |-> Cf(fl),
   setbe |-> Cf(fl) \/ Zf(fl), setc |-> Cf(fl)]

SetsSigned(fl) ==
  [sete |-> Zf(fl), setg |-> ~Zf(fl) \/ SfIsOf(fl), setge |-> SfIsOf(fl),
   setl |-> ~SfIsOf(fl), setle |-> ~SfIsOf(fl) /\ Zf(fl)]

SetsNotUnsigned(fl) ==
  [setna |-> Cf(fl), setnae |-> Cf(fl), setnb |-> ~Cf(fl),
   setnbe |-> ~Cf(fl) /\ ~Zf(fl), setnc |-> ~Cf(fl)]

SetsNotSigned(fl) ==
  [setne |-> ~Zf(fl), setng |-> Zf(fl) \/ ~SfIsOf(fl), setnge |-> ~SfIsOf(fl),
   setnl |-> SfIsOf(fl), setnle |-> Zf(fl) /\ ~SfIsOf(fl)]

SetsFlag(fl) ==
  [setno |-> "OF" \notin fl, setnp |-> "PF" \notin fl, setns |-> "SF" \notin fl,
   seto |-> "OF" \in fl, setp |-> "PF" \in fl]

SetsParitySignZero(fl) ==
  [setpe |-> "PF" \in fl, setpo |-> "PF" \notin fl, sets |-> "SF" \in fl,
   setz |-> "ZF" \in fl]
=============================================================================
