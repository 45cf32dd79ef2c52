------------------------------- MODULE Arith -------------------------------
(***************************************************************************)
(* Code fragments of a guest program around one arithmetic instruction:    *)
(* operands and EFLAGS are loaded, one instruction of Alu runs, and the    *)
(* flags it leaves are what every later Jcc and SETcc sees.  Every operand *)
(* kind, size and content the constants allow is loaded.                   *)
(***************************************************************************)
EXTENDS Alu, Conditions

CONSTANTS Cells,      \* contents of the operands' cells
          OpSizes     \* operand sizes, a subset of {1, 2, 4}

ASSUME ArithAssumption == Cells \subseteq Uint32 /\ OpSizes \subseteq Sizes

\* The operators of C give words and work on every bit by itself.
ASSUME BitwiseAssumption ==
  \A a, b \in Uint32 :
    /\ BitAnd(a, b) \in Uint32 /\ BitOr(a, b) \in Uint32 /\ BitXor(a, b) \in Uint32
    /\ \A i \in 0..(Width[4] - 1) :
         /\ Bit(BitAnd(a, b), i) = 1 <=> Bit(a, i) = 1 /\ Bit(b, i) = 1
         /\ Bit(BitOr(a, b), i) = 1 <=> Bit(a, i) = 1 \/ Bit(b, i) = 1
         /\ Bit(BitXor(a, b), i) = 1 <=> Bit(a, i) # Bit(b, i)

VARIABLES dst,        \* the destination operand
          src,        \* the source operand
          eflags,
          last        \* the instruction that ran and what it started from

vars == <<dst, src, eflags, last>>

Nothing == [op |-> "none"]

\* Capstone's operand forms: both operands have the instruction's size, but
\* an immediate may be a byte that the processor sign extends.
DstOperands == [kind : {"reg", "mem"}, size : OpSizes, cell : Cells]
SrcOperands(d) ==
  [kind : IF d.kind = "mem" THEN {"reg"} ELSE {"reg", "mem"}, size : {d.size}, cell : Cells]
    \cup {o \in [kind : {"imm"}, size : {1, d.size}, cell : Cells] : o.cell < Mod(o.size)}

Init ==
  /\ dst \in DstOperands
  /\ src \in SrcOperands(dst)
  /\ eflags \in {InitialEflags, InitialEflags \cup {"CF"}}
  /\ last = Nothing

\* The handler's outcome replaces the destination and EFLAGS.
Execute(op, outcomes) ==
  /\ last = Nothing
  /\ \E out \in outcomes :
       /\ dst' = [dst EXCEPT !.cell = out.cell]
       /\ eflags' = out.fl
  /\ last' = [op |-> op, cell |-> dst.cell, fl |-> eflags]
  /\ UNCHANGED src

DoAdd == Execute("add", add_i(dst, src, eflags))
DoAdc == Execute("adc", adc_i(dst, src, eflags))
DoInc == Execute("inc", inc_i(dst, src, eflags))
DoSub == Execute("sub", sub_i(dst, src, eflags))
DoSbb == Execute("sbb", sbb_i(dst, src, eflags))
DoCmp == Execute("cmp", cmp_i(dst, src, eflags))
DoDec == Execute("dec", dec_i(dst, src, eflags))
DoNeg == dst.kind = "reg" /\ Execute("neg", neg_i(dst, src, eflags))
DoNot == dst.kind = "reg" /\ Execute("not", not_i(dst, src, eflags))
DoAnd == Execute("and", and_i(dst, src, eflags))
DoOr  == Execute("or", or_i(dst, src, eflags))
DoXor == Execute("xor", xor_i(dst, src, eflags))
DoTest == Execute("test", test_i(dst, src, eflags))

\* The fragment is over; its flags stay for the instruction that follows.
Finished == last # Nothing /\ UNCHANGED vars

Next ==
  \/ DoAdd \/ DoAdc \/ DoInc \/ DoSub \/ DoSbb \/ DoCmp \/ DoDec \/ DoNeg \/ DoNot
  \/ DoAnd \/ DoOr \/ DoXor \/ DoTest \/ Finished

Spec == Init /\ [][Next]_vars

---------------------------------------------------------------------------
(* Reference arithmetic *)

Ran(ops) == last.op \in ops
Signed(v, s) == IF sign(v, Width[s]) THEN v - Mod(s) ELSE v

OpA == Low(last.cell, dst.size)                      \* the destination before
OpB == Low(ValueExtended(src, dst.size), dst.size)   \* the source
Res == Low(dst.cell, dst.size)                       \* the destination after
CarryIn == Carry(last.fl)                            \* CF before
FitsSigned(v, s) == -Mod(s) <= 2 * v /\ 2 * v < Mod(s)

\* After CMP the unsigned conditional jumps and the equality jumps of the
\* emulator go the way the operands compare, whatever their kind and size.
UnsignedCompare ==
  Ran({"cmp"}) =>
    LET j == JumpsUnsigned(eflags) IN
      /\ j.ja = (OpA > OpB) /\ j.jae = (OpA >= OpB) /\ j.jb = (OpA < OpB) /\ j.jbe = (OpA <= OpB)
      /\ JumpsEqual(eflags).je = (OpA = OpB) /\ JumpsNotSigned(eflags).jne = (OpA # OpB)

\* The unsigned SETcc handlers store what the jump of the same condition
\* tests (SETA, SETAE, SETB, SETBE, SETE, SETNE and the sign tests).
SetccFollowsJcc ==
  LET ju == JumpsUnsigned(eflags)  su == SetsUnsigned(eflags)
      js == JumpsSigned(eflags)    ss == SetsSigned(eflags)
  IN /\ su.seta = ju.ja /\ su.setae = ju.jae /\ su.setb = ju.jb /\ su.setbe = ju.jbe
     /\ ss.setge = js.jge /\ ss.setl = js.jl /\ SetsNotSigned(eflags).setng = ~js.jg
     /\ ss.sete = JumpsEqual(eflags).je /\ SetsNotSigned(eflags).setne = JumpsNotSigned(eflags).jne
     /\ SetsFlag(eflags).setns = JumpsNotFlag(eflags).jns
     /\ SetsParitySignZero(eflags).sets = JumpsFlag(eflags).js

\* Every status flag that ADD leaves is the flag of the exact sum: the carry
\* out of the operand, the signed overflow, the carry out of the low nibble,
\* sign, zero and parity of what was stored; and so is every one that the
\* header of inc_i promises for INC, which leaves out CF.
AddFlagsExact ==
  Ran({"add", "inc"}) /\ src.size = dst.size =>
    LET b == IF last.op = "inc" THEN 1 ELSE OpB IN
      /\ Ran({"add"}) => ("CF" \in eflags) = (OpA + b >= Mod(dst.size))
      /\ ("OF" \in eflags) = ~FitsSigned(Signed(OpA, dst.size) + Signed(b, dst.size), dst.size)
      /\ ("SF" \in eflags) = sign(Res, Width[dst.size])
      /\ ("ZF" \in eflags) = (Res = 0)
      /\ ("PF" \in eflags) = (Cardinality({i \in 0..7 : Bit(Res, i) = 1}) % 2 = 0)
      /\ Width[dst.size] > 4 => ("AF" \in eflags) = ((OpA % 16) + (b % 16) >= 16)

\* The bytes of the cell above the destination keep their value.
NeighboursKept == dst.cell - Res = last.cell - OpA

\* ADD, ADC, INC, SUB, SBB, DEC and NEG leave the exact result in the
\* destination, CMP and TEST leave the destination as it is, and the bytes
\* above it keep their value.  SUB and DEC are covered on registers and on
\* full width memory; ADD and ADC with a byte to be sign extended are not.
NumbersExact ==
  LET s == dst.size
      regOrWide == dst.kind = "reg" \/ s = 4
      full == IF src.kind = "mem" THEN src.cell ELSE OpB
      Left(v) == Res = v % Mod(s) /\ NeighboursKept
  IN /\ Ran({"add"}) /\ src.size = s => Left(OpA + OpB)
     /\ Ran({"adc"}) /\ src.size = s => Left(OpA + OpB + CarryIn)
     /\ Ran({"inc"}) => Left(OpA + 1)
     /\ Ran({"sub"}) /\ regOrWide => Left(OpA - full + Mod(4))
     /\ Ran({"sbb"}) => Left(OpA - OpB - CarryIn + 2 * Mod(4))
     /\ Ran({"dec"}) /\ regOrWide => Left(OpA - 1 + Mod(4))
     /\ Ran({"neg"}) => Left(Mod(4) - OpA)
     /\ Ran({"cmp", "test"}) => Left(OpA)

\* The instruction that ran left this function of the operands' bits in every
\* bit of the destination.
BitsAre(F(_, _)) ==
  \A i \in 0..(Width[dst.size] - 1) : (Bit(Res, i) = 1) = F(Bit(OpA, i) = 1, Bit(OpB, i) = 1)

Both(x, y)    == x /\ y
Either(x, y)  == x \/ y
OneOf(x, y)   == x # y
NotLeft(x, y) == ~x

\* AND, OR, XOR and NOT work on every bit of the destination and on no other:
\* AND on registers and memory, OR, XOR and NOT on registers.  A byte to be
\* sign extended is left out.
LogicExact ==
  /\ Ran({"and"}) /\ src.size = dst.size => BitsAre(Both) /\ NeighboursKept
  /\ Ran({"or"}) /\ src.size = dst.size /\ dst.kind = "reg" => BitsAre(Either) /\ NeighboursKept
  /\ Ran({"xor"}) /\ src.size = dst.size /\ dst.kind = "reg" => BitsAre(OneOf) /\ NeighboursKept
  /\ Ran({"not"}) => BitsAre(NotLeft) /\ NeighboursKept

\* The handlers that write an operand leave the exact result of the operands,
\* as a number or bit by bit, and the bytes above the destination as they
\* were, for the operand kinds the two parts name.
ResultExact == NumbersExact /\ LogicExact

---------------------------------------------------------------------------
(* What the comments of the source say and the handlers do not do *)

\* JL and JGE after CMP: "less" is SF != OF, and overflow() is documented to
\* return 1 exactly when the operation overflows.
SignedCompare ==
  Ran({"cmp"}) =>
    (JumpsSigned(eflags).jl = (Signed(OpA, dst.size) < Signed(OpB, dst.size)))
=============================================================================
