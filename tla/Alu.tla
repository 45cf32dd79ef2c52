-------------------------------- MODULE Alu --------------------------------
(***************************************************************************)
(* The arithmetic and logic instructions of src/src/instr.c as functions.  *)
(*                                                                         *)
(* An operand is a record: kind is "reg", "mem" or "imm", size is the      *)
(* number of bytes Capstone reports (1, 2 or 4) and cell is the uint32_t   *)
(* found at the operand's address: a register or memory operand of size s  *)
(* is the low part of its cell, what lies above it are the other bytes of  *)
(* the register or the memory that follows.  So is AH, BH, CH or DH: the   *)
(* table regs[] has the start of the register for them, and an instruction *)
(* on AH works on AL.  Width[s] is the number of bits of a size (8, 16, 32 *)
(* in the code), Width[4] that of uint32_t.                                *)
(*                                                                         *)
(* A handler is an operator from the destination, the source and EFLAGS to *)
(* the set of its outcomes [cell, fl]: the destination's cell and EFLAGS.  *)
(***************************************************************************)
EXTENDS Flags

CONSTANTS Width,
          BitAnd(_, _), BitOr(_, _), BitXor(_, _)   \* &, | and ^ of C

ASSUME WidthAssumption ==
  /\ Width \in [{1, 2, 4} -> Nat \ {0}]
  /\ Width[1] < Width[2] /\ Width[2] < Width[4]

\* The laws of powers for the exponents in use, which hold for every Width.
ASSUME PowersAssumption ==
  \A m, n \in 0..Width[4] :
    /\ 2 ^ m \in Nat \ {0}
    /\ m + n <= Width[4] => 2 ^ (m + n) = 2 ^ m * 2 ^ n

Sizes == {1, 2, 4}
Mod(s) == 2 ^ Width[s]
Uint32 == 0..(Mod(4) - 1)

\* *((uintN_t *) p), and the store through the same pointer.
Low(cell, s)      == cell % Mod(s)
Store(cell, s, v) == (cell - Low(cell, s)) + (v % Mod(s))

\* sign_extend8_16 and sign_extend8_32.
sign_extend8(v, s) ==
  LET b == Low(v, 1) IN IF sign(b, Width[1]) THEN b + Mod(s) - Mod(1) ELSE b

\* A source operand read at its own size, as reg_val and the sized casts do.
Value(o) == IF o.kind = "imm" THEN o.cell ELSE Low(o.cell, o.size)

\* An immediate byte is sign extended to the size of the destination.
ValueExtended(o, s) ==
  IF o.kind = "imm" /\ o.size = 1 /\ s # 1 THEN sign_extend8(o.cell, s) ELSE Value(o)

ArithFlags(v1, v2, res, s, carry) ==
  [CF |-> carry,
   OF |-> overflow(v1, v2, res, Width[s]),
   SF |-> sign(res, Width[s]),
   ZF |-> zero(res),
   AF |-> adjust(v1, v2, res),
   PF |-> parity(res)]

LogicFlags(res, base) ==
  [CF |-> FALSE, OF |-> FALSE, SF |-> sign(res, base), ZF |-> zero(res), PF |-> parity(res)]

Carry(fl) == IF test_Flag(fl, "CF") THEN 1 ELSE 0

---------------------------------------------------------------------------
(* Addition *)

\* Mutant of add_i: CF is set also when the sum equals the operand.
add_iCarryOnEqual(d, o, fl) ==
  LET v1 == Low(d.cell, d.size)
      c  == Store(d.cell, d.size, v1 + Value(o))
      r  == Low(c, d.size)
  IN {[cell |-> c, fl |-> Update(fl, ArithFlags(v1, Value(o), r, d.size, v1 >= r))]}

add_i(d, o, fl) ==
  LET v1 == Low(d.cell, d.size)
      v2 == Value(o)
      c  == Store(d.cell, d.size, v1 + v2)
      r  == Low(c, d.size)
  IN {[cell |-> c, fl |-> Update(fl, ArithFlags(v1, v2, r, d.size, v1 > r))]}

adc_i(d, o, fl) ==
  LET v1 == Low(d.cell, d.size)
      v2 == Value(o)
      c  == Store(d.cell, d.size, v1 + v2 + Carry(fl))
      r  == Low(c, d.size)
  IN {[cell |-> c, fl |-> Update(fl, ArithFlags(v1, v2, r, d.size, v1 > r))]}

inc_i(d, o, fl) ==
  LET v1 == Low(d.cell, d.size)
      c  == Store(d.cell, d.size, v1 + 1)
      r  == Low(c, d.size)
  IN {[cell |-> c, fl |-> Update(fl, ArithFlags(v1, 1, r, d.size, v1 > r))]}

---------------------------------------------------------------------------
(* Subtraction and comparison *)

\* A memory destination is accessed as a uint32_t whatever its size, and so
\* is a memory source.
Accessed(d) == IF d.kind = "mem" THEN 4 ELSE d.size

sub_i(d, o, fl) ==
  LET s  == Accessed(d)
      v1 == Low(d.cell, s)
      v2 == IF o.kind = "mem" THEN o.cell ELSE ValueExtended(o, d.size)
      c  == Store(d.cell, s, v1 - v2 + Mod(4))
      r  == Low(c, s)
  IN {[cell |-> c, fl |-> Update(fl, ArithFlags(v1, v2, r, d.size, v1 < v2))]}

\* Mutant of sbb_i: the borrow is not subtracted.
sbb_iNoBorrow(d, o, fl) ==
  {[cell |-> Store(d.cell, d.size, d.cell - ValueExtended(o, d.size) + Mod(4)), fl |-> fl]}

\* The carry flag is written before OF and AF are computed from it.
sbb_i(d, o, fl) ==
  LET v1 == Low(d.cell, d.size)
      v2 == ValueExtended(o, d.size)
      c  == Store(d.cell, d.size, v1 - v2 - Carry(fl) + 2 * Mod(4))
      r  == Low(c, d.size)
      carry == v1 < (v2 + Carry(fl)) % Mod(4)
      w2 == (v2 + IF carry THEN 1 ELSE 0) % Mod(4)
  IN {[cell |-> c, fl |-> Update(fl, ArithFlags(v1, w2, r, d.size, carry))]}

\* Mutant of cmp_i: equal operands set CF.
cmp_iBorrowOnEqual(d, o, fl) ==
  LET v1 == Low(d.cell, d.size)
      v2 == ValueExtended(o, d.size)
  IN {[cell |-> d.cell, fl |-> Update(fl, [CF |-> v1 <= v2, ZF |-> v1 = v2])]}

\* The difference is a uint32_t even for narrow operands.
cmp_i(d, o, fl) ==
  LET v1 == Low(d.cell, d.size)
      v2 == ValueExtended(o, d.size)
      r  == (v1 - (IF d.kind = "reg" THEN Low(v2, d.size) ELSE v2) + Mod(4)) % Mod(4)
  IN {[cell |-> d.cell, fl |-> Update(fl, ArithFlags(v1, v2, r, d.size, v1 < v2))]}

dec_i(d, o, fl) ==
  LET s  == Accessed(d)
      v1 == Low(d.cell, s)
      c  == Store(d.cell, s, v1 - 1 + Mod(4))
      r  == Low(c, s)
  IN {[cell |-> c, fl |-> Update(fl, ArithFlags(v1, 1, r, d.size, v1 < 1))]}

\* The test of the operand's type is an assignment, so a memory operand is
\* not supported; AF is left alone.
neg_i(d, o, fl) ==
  LET v1 == Low(d.cell, d.size)
      c  == Store(d.cell, d.size, Mod(4) - v1)
      r  == Low(c, d.size)
      f  == ArithFlags(0, v1, r, d.size, ~zero(v1))
  IN {[cell |-> c, fl |-> Update(fl, [x \in DOMAIN f \ {"AF"} |-> f[x]])]}

---------------------------------------------------------------------------
(* Logic *)

\* Mutant of and_i: a narrow destination is stored as a uint32_t.
and_iWide(d, o, fl) ==
  {[cell |-> BitAnd(Low(d.cell, d.size), Value(o)), fl |-> fl]}

and_i(d, o, fl) ==
  LET c == Store(d.cell, d.size, BitAnd(Low(d.cell, d.size), Value(o)))
      r == Low(c, d.size)
  IN {[cell |-> c, fl |-> Update(fl, LogicFlags(r, Width[d.size]))]}

\* OR and XOR share their handler's shape.  With a memory destination both
\* compute the address from the source operand: the destination keeps its
\* cell and the flags come from a word that is somewhere else.  The base of
\* the sign test is half the width there.
LogicOr(d, o, fl, F(_, _)) ==
  IF d.kind = "reg"
  THEN LET c == Store(d.cell, d.size, F(Low(d.cell, d.size), Value(o)))
           r == Low(c, d.size)
       IN {[cell |-> c, fl |-> Update(fl, LogicFlags(r, Width[d.size]))]}
  ELSE {[cell |-> d.cell,
         fl   |-> Update(fl, LogicFlags(Low(F(w, Value(o)), o.size), Width[d.size] \div 2))]
          : w \in 0..(Mod(o.size) - 1)}

or_i(d, o, fl)  == LogicOr(d, o, fl, BitOr)
xor_i(d, o, fl) == LogicOr(d, o, fl, BitXor)

test_i(d, o, fl) ==
  LET s == Accessed(d)
      v == IF o.kind = "mem" THEN o.cell ELSE Value(o)
      r == BitAnd(Low(d.cell, s), Low(v, s))
  IN {[cell |-> d.cell, fl |-> Update(fl, LogicFlags(r, Width[s]))]}

not_i(d, o, fl) ==
  {[cell |-> Store(d.cell, d.size, Mod(d.size) - 1 - Low(d.cell, d.size)), fl |-> fl]}
=============================================================================
