------------------------------- MODULE Shifts -------------------------------
(***************************************************************************)
(* The shift, rotate and bit instructions of src/src/instr.c, each run     *)
(* once on every operand, count and carry the constants allow.             *)
(*                                                                         *)
(* The destination is a register or a word of memory: cell is the uint32_t *)
(* at its address and the operand is its low part, of Width[size] bits (8, *)
(* 16, 32 in the code).  The count is an immediate or CL.  A C shift by    *)
(* the width of uint32_t or more, or by a negative count, is undefined;    *)
(* the build (gcc without optimisation) reduces the count modulo the       *)
(* width, as the host's instruction does.                                  *)
(***************************************************************************)
EXTENDS Flags

CONSTANTS Width,      \* size -> bits
          Cells,      \* contents of the destination's cell
          Sources,    \* contents of the register SHRD takes bits from
          Counts,     \* counts, immediate or in CL
          BitAnd(_, _), BitOr(_, _), BitXor(_, _)   \* &, | and ^ of C

Sizes == {1, 2, 4}

ASSUME ShiftsAssumption ==
  /\ Width \in [Sizes -> Nat \ {0}]
  /\ Width[1] < Width[2] /\ Width[2] < Width[4]
  /\ Cells \cup Sources \subseteq 0..(2 ^ Width[4] - 1) /\ Counts \subseteq Nat

\* The laws of powers for the exponents in use, which hold for every Width.
ASSUME PowersAssumption ==
  \A m, n \in 0..Width[4] :
    /\ 2 ^ m \in Nat \ {0}
    /\ m + n <= Width[4] => 2 ^ (m + n) = 2 ^ m * 2 ^ n

\* The operators of C work on every bit of a word by itself.
ASSUME BitwiseAssumption ==
  \A a, b \in 0..(2 ^ Width[4] - 1) :
    /\ {BitAnd(a, b), BitOr(a, b), BitXor(a, b)} \subseteq 0..(2 ^ Width[4] - 1)
    /\ \A i \in 0..(Width[4] - 1) :
         /\ Bit(BitAnd(a, b), i) = IF Bit(a, i) = 1 /\ Bit(b, i) = 1 THEN 1 ELSE 0
         /\ Bit(BitOr(a, b), i) = IF Bit(a, i) = 1 \/ Bit(b, i) = 1 THEN 1 ELSE 0
         /\ Bit(BitXor(a, b), i) = IF Bit(a, i) = Bit(b, i) THEN 0 ELSE 1

VARIABLES dst, src, count, eflags, last

vars == <<dst, src, count, eflags, last>>

Mod(s)       == 2 ^ Width[s]
Low(v, s)    == v % Mod(s)
Shr(v, n)    == v \div 2 ^ (n % Width[4])
Shl(v, n)    == (v * 2 ^ (n % Width[4])) % Mod(4)
Carry        == IF test_Flag(eflags, "CF") THEN 1 ELSE 0
Unexecuted   == [op |-> "none"]

\* Capstone gives registers and memory words; the source register of SHRD is
\* as wide as the destination.
Init ==
  /\ dst \in [kind : {"reg", "mem"}, size : Sizes, cell : Cells]
  /\ src \in Sources
  /\ count \in Counts
  /\ eflags \in {InitialEflags, InitialEflags \cup {"CF"}}
  /\ last = Unexecuted

\* The cell becomes v and the flags of `on` are written.
CellResult(op, v, on) ==
  /\ last = Unexecuted
  /\ dst' = [dst EXCEPT !.cell = v]
  /\ eflags' = Update(eflags, on)
  /\ last' = [op |-> op, cell |-> dst.cell, fl |-> eflags]
  /\ UNCHANGED <<src, count>>

\* The same for the operand, the low part of the cell.
Result(op, v, on) == CellResult(op, (dst.cell - Low(dst.cell, dst.size)) + v, on)

Nop(op) == Result(op, Low(dst.cell, dst.size), <<>>)

P       == Low(dst.cell, dst.size)         \* *p
W       == Width[dst.size]                 \* s1 * 8
Cut(v)  == Low(v, dst.size)

---------------------------------------------------------------------------
(* Shifts: nothing happens for a count of zero, nor for a memory operand,  *)
(* for which the handlers return -1.                                       *)

ResultFlags(r) == [ZF |-> zero(r), PF |-> parity(r), SF |-> sign(r, W)]

Shift(op, r, cf, of) ==
  LET c == count % W
      on == [f \in {"CF", "ZF", "PF", "SF"} |-> IF f = "CF" THEN cf ELSE ResultFlags(r)[f]]
  IN IF c = 0 \/ dst.kind # "reg"
     THEN Nop(op)
     ELSE Result(op, r, [f \in DOMAIN on \cup DOMAIN of |->
                           IF f \in DOMAIN of THEN of[f] ELSE on[f]])

Left(op) ==
  LET c  == count % W
      r  == Cut(Shl(P, c))
      cf == Shr(P, W - c) % 2 = 1
  IN Shift(op, r, cf, IF c = 1 THEN [OF |-> sign(r, W) # cf] ELSE <<>>)

sal_i == Left("sal")
shl_i == Left("shl")

\* Mutant of sar_i: zeros come in from the left.
sar_iLogical ==
  LET c == count % W
  IN Shift("sar", P \div 2 ^ c, (P \div 2 ^ (IF c = 0 THEN 0 ELSE c - 1)) % 2 = 1, <<>>)

\* A right shift of a signed operand copies the sign bit.
sar_i ==
  LET c == count % W
      signed == IF sign(P, W) THEN P - Mod(dst.size) ELSE P
      r  == Cut((signed \div 2 ^ c) + Mod(dst.size))
      cf == (signed \div 2 ^ (IF c = 0 THEN 0 ELSE c - 1)) % 2 = 1
  IN Shift("sar", r, cf, IF c = 1 THEN [OF |-> FALSE] ELSE <<>>)

\* OF is the sign of the result for a single shift and cleared for others.
shr_i ==
  LET c  == count % W
      r  == Shr(P, c)
      cf == Shr(P, c - 1) % 2 = 1
  IN Shift("shr", r, cf, [OF |-> c = 1 /\ sign(r, W)])

\* Mutant of shrd_i: the source comes in one bit too high.
shrd_iOffByOne ==
  LET a == count % Width[4]
      r == Cut(BitOr(Shr(P, a), Cut(Shl(Cut(src), W - a + 1))))
  IN /\ dst.size # 1
     /\ IF a = 0 \/ a >= W THEN Nop("shrd") ELSE Result("shrd", r, ResultFlags(r))

\* The bits that come in are those of the source register; for a 16 bit
\* operand the flags are computed from that register, not from the result.
shrd_i ==
  LET a == count % Width[4]
      r == Cut(BitOr(Shr(P, a), Cut(Shl(Cut(src), W - a))))
      res == IF dst.size = 4 THEN r ELSE Cut(src)
  IN /\ dst.size # 1
     /\ IF a = 0 \/ a >= W
        THEN Nop("shrd")
        ELSE Result("shrd", r,
                    [CF |-> Shr(P, a - 1) % 2 = 1, SF |-> sign(res, W),
                     ZF |-> zero(res), PF |-> parity(res)])

---------------------------------------------------------------------------
(* Rotates, of registers and memory; only CF is written *)

\* Mutant of rol_i: the bits that left come back one place too high.
rol_iOffByOne ==
  LET c == count % W
      scaped == Cut(Shr(P, W - c - 1))
  IN Result("rol", Cut(BitOr(Shl(P, c), scaped)), [CF |-> scaped % 2 = 1])

rol_i ==
  LET c == count % W
      scaped == Cut(Shr(P, W - c))
  IN Result("rol", Cut(BitOr(Shl(P, c), scaped)), [CF |-> scaped % 2 = 1])

ror_i ==
  LET c == count % W
      scaped == Cut(Shl(P, W - c))
  IN Result("ror", Cut(BitOr(Shr(P, c), scaped)), [CF |-> Shr(scaped, W - c) % 2 = 1])

\* Mutant of rcl_i: the carry comes in one place too high.
rcl_iOffByOne ==
  LET c == count % (W + 1)
      scaped == BitOr(Cut(Shr(P, W + 1 - c)), Cut(Shl(Carry, c)))
  IN Result("rcl", Cut(BitOr(Shl(P, c), scaped)), [CF |-> Shr(P, W - c) # 0])

rcl_i ==
  LET c == count % (W + 1)
      scaped == BitOr(Cut(Shr(P, W + 1 - c)), Cut(Shl(Carry, c - 1)))
  IN Result("rcl", Cut(BitOr(Shl(P, c), scaped)), [CF |-> Shr(P, W - c) # 0])

rcr_i ==
  LET c == count % (W + 1)
      scaped == BitOr(Cut(Shl(P, W + 1 - c)), Cut(Shl(Carry, c)))
  IN Result("rcr", Cut(BitOr(Shr(P, c), scaped)), [CF |-> Shr(P, c - 1) % 2 = 1])

\* Unimplemented.
shld_i == Nop("shld")

---------------------------------------------------------------------------
(* Bit tests, of words and double words.  The register is read as a        *)
(* uint32_t for every size, and CF tells whether ANY bit of it from the    *)
(* one that is tested upwards is set.                                      *)

Tested(v, b) == [CF |-> Shr(v, count % b) # 0]
Mask(b)      == 2 ^ (count % b)

\* The bit number is an immediate, taken modulo 8, or a register.  A word in
\* memory is read with the size of the second operand.
bt_i ==
  /\ dst.size # 1
  /\ \E b \in {Width[1], W} :
     \E v \in IF dst.kind = "mem" /\ dst.size = 2 THEN {P, Low(P, 1)} ELSE {dst.cell} :
       CellResult("bt", dst.cell, Tested(v, b))

\* With a memory operand BTC and BTR write through a pointer they never set.
btc_i ==
  /\ dst.size # 1 /\ dst.kind = "reg"
  /\ CellResult("btc", BitXor(dst.cell, Mask(W)), Tested(dst.cell, W))

btr_i ==
  /\ dst.size # 1 /\ dst.kind = "reg"
  /\ CellResult("btr", BitAnd(dst.cell, Mod(4) - 1 - Mask(W)), Tested(dst.cell, W))

\* Mutant of bts_i: the bit is added.
bts_iAdds ==
  LET b == IF dst.kind = "reg" THEN W ELSE Width[4] IN
    /\ dst.size # 1
    /\ CellResult("bts", (dst.cell + Mask(b)) % Mod(4), Tested(dst.cell, b))

bts_i ==
  LET b == IF dst.kind = "reg" THEN W ELSE Width[4] IN
    /\ dst.size # 1
    /\ CellResult("bts", BitOr(dst.cell, Mask(b)), Tested(dst.cell, b))

\* (val >> temp) & 0x1 == 0 is (val >> temp) & 0: the scan ends before its
\* first step and the destination is not written.
bsf_i == dst.size # 1 /\ CellResult("bsf", dst.cell, [ZF |-> zero(Cut(src))])
bsr_i == dst.size # 1 /\ CellResult("bsr", dst.cell, [ZF |-> zero(Cut(src))])

\* One instruction ran; its result stays.
Finished == last # Unexecuted /\ UNCHANGED vars

Next ==
  \/ sal_i \/ shl_i \/ sar_i \/ shr_i \/ shrd_i \/ rol_i \/ ror_i \/ rcl_i \/ rcr_i
  \/ shld_i \/ bt_i \/ btc_i \/ btr_i \/ bts_i \/ bsf_i \/ bsr_i
  \/ Finished

Spec == Init /\ [][Next]_vars

---------------------------------------------------------------------------
(* Reference: what the operand was and where each bit of it goes *)

Ran(ops) == last.op \in ops
Old      == Low(last.cell, dst.size)
OldCarry == IF "CF" \in last.fl THEN 1 ELSE 0
Signed(v) == IF v >= Mod(dst.size) \div 2 THEN v - Mod(dst.size) ELSE v

\* A register shifted by 1..W-1 is multiplied or divided by a power of two,
\* signed for SAR; CF is the last bit that left the operand; the bytes above
\* the operand are untouched.
ShiftsExact ==
  LET c == count % W IN
    Ran({"sal", "shl", "sar", "shr"}) /\ dst.kind = "reg" /\ c > 0 =>
      /\ P = CASE Ran({"sar"}) -> (Signed(Old) \div 2 ^ c) % Mod(dst.size)
               [] Ran({"shr"}) -> Old \div 2 ^ c
               [] OTHER -> (Old * 2 ^ c) % Mod(dst.size)
      /\ ("CF" \in eflags) = (Bit(Old, IF Ran({"sar", "shr"}) THEN c - 1 ELSE W - c) = 1)
      /\ dst.cell - P = last.cell - Old

\* ROL and ROR move every bit by the count, around the operand, for every
\* size and also when the C shift in the code is out of range; ROL leaves in
\* CF the last bit that went around.
RotatesExact ==
  LET c == count % W IN
    /\ Ran({"rol"}) => \A i \in 0..(W - 1) : Bit(P, (i + c) % W) = Bit(Old, i)
    /\ Ran({"ror"}) => \A i \in 0..(W - 1) : Bit(P, i) = Bit(Old, (i + c) % W)
    /\ Ran({"rol"}) /\ c > 0 => ("CF" \in eflags) = (Bit(P, 0) = 1)
    /\ Ran({"rol", "ror"}) => dst.cell - P = last.cell - Old

\* The operand with the carry above it, rotated left by c.
ThroughCarry(i, c) == LET k == (i - c) % (W + 1) IN IF k = W THEN OldCarry ELSE Bit(Old, k)

\* RCL of a byte or a word leaves in the operand its own bits and the old
\* carry, rotated together.  The new carry is the bit that left after a single
\* rotate; after a longer one it is set whenever that bit was, and no more
\* can be said: rcl_i sets it for any bit that passed through.
RclNarrowExact ==
  LET c == count % (W + 1) IN
    Ran({"rcl"}) /\ dst.size # 4 =>
      /\ \A i \in 0..(W - 1) : Bit(P, i) = ThroughCarry(i, c)
      /\ c > 0 /\ Bit(Old, W - c) = 1 => "CF" \in eflags
      /\ c = 1 /\ Bit(Old, W - c) = 0 => "CF" \notin eflags

\* SHRD shifts the pair of source and destination.
ShrdExact ==
  LET a == count % Width[4] IN
    Ran({"shrd"}) /\ a < W => P = ((Cut(src) * Mod(dst.size) + Old) \div 2 ^ a) % Mod(dst.size)

\* BTC, BTR and BTS change the bit they name and no other, those of the same
\* register above a 16 bit operand included; and a guest that takes a lock
\* with BTS never takes it twice: CF is clear only if the bit was 0.
BitsExact ==
  LET b == IF dst.kind = "reg" THEN W ELSE Width[4]
      n == count % b
  IN Ran({"btc", "btr", "bts"}) =>
       /\ \A i \in 0..(Width[4] - 1) : i # n => Bit(dst.cell, i) = Bit(last.cell, i)
       /\ Bit(dst.cell, n) = CASE Ran({"btc"}) -> 1 - Bit(last.cell, n)
                               [] Ran({"btr"}) -> 0
                               [] OTHER -> 1
       /\ "CF" \notin eflags => Bit(last.cell, n) = 0
=============================================================================
