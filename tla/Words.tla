------------------------------- MODULE Words -------------------------------
(***************************************************************************)
(* Multiplication, division and the instructions that widen or exchange    *)
(* operands (src/src/instr.c), each run once on the accumulator eax, on    *)
(* edx and on an r/m operand, for every content the constants allow.       *)
(*                                                                         *)
(* Width[s] is the number of bits of a size (8, 16, 32 in the code); a     *)
(* word is two bytes.  rm is the uint32_t at the address of the operand    *)
(* the handler reads: for MUL, DIV and IDIV that of operands[1].  A signed *)
(* C overflow wraps, as gcc without optimisation computes it, and the host *)
(* stops the emulator (SIGFPE) at a division by zero and at the quotient   *)
(* of the smallest number by -1.                                           *)
(***************************************************************************)
EXTENDS Flags

CONSTANTS Width,      \* size -> bits
          Accums,     \* contents of eax
          Datas,      \* contents of edx
          Operands,   \* contents of the r/m operand
          Immediates  \* immediate operands of IMUL

Sizes == {1, 2, 4}

ASSUME WordsAssumption ==
  /\ Width \in [Sizes -> Nat \ {0}]
  /\ Width[2] = 2 * Width[1] /\ Width[2] < Width[4]
  /\ Accums \cup Datas \cup Operands \cup Immediates \subseteq 0..(2 ^ Width[4] - 1)

\* The laws of powers for the exponents in use, which hold for every Width.
ASSUME PowersAssumption ==
  \A m, n \in 0..Width[4] :
    /\ 2 ^ m \in Nat \ {0}
    /\ m + n <= Width[4] => 2 ^ (m + n) = 2 ^ m * 2 ^ n

VARIABLES eax, edx, rm, size, eflags,
          status,     \* what the handler returned, or that the host stopped it
          last        \* history: the instruction and what it started from

vars == <<eax, edx, rm, size, eflags, status, last>>

Mod(s)       == 2 ^ Width[s]
Low(v, s)    == v % Mod(s)
Put(r, s, v) == (r - Low(r, s)) + Low(v, s)    \* a store to the low part of r
Top(v, s)    == sign(Low(v, s), Width[s])
Signed(v, s) == IF Top(v, s) THEN Low(v, s) - Mod(s) ELSE Low(v, s)
Unexecuted   == [op |-> "none"]

Init ==
  /\ eax \in Accums /\ edx \in Datas /\ rm \in Operands /\ size \in Sizes
  /\ eflags = InitialEflags \cup {"CF"} /\ status = "ok" /\ last = Unexecuted

Record(op, imm) ==
  /\ last = Unexecuted
  /\ last' = [op |-> op, imm |-> imm, eax |-> eax, edx |-> edx, rm |-> rm]
  /\ UNCHANGED size

\* The instruction leaves a, d and r in eax, edx and the operand.
Result(op, imm, a, d, r, on) ==
  /\ Record(op, imm)
  /\ eax' = a /\ edx' = d /\ rm' = r
  /\ eflags' = Update(eflags, on)
  /\ UNCHANGED status

\* The handler returns early, with a code or by the host's signal.
Fails(op, code) ==
  /\ Record(op, 0)
  /\ status' = code
  /\ UNCHANGED <<eax, edx, rm, eflags>>

---------------------------------------------------------------------------
(* Multiplication *)

Overflows(b) == [CF |-> b, OF |-> b]

\* A product in AX, DX:AX or EDX:EAX; hi is its upper half.
Double(op, low, hi, on) ==
  IF size = 1
  THEN Result(op, 0, Put(eax, 2, low + Mod(1) * Low(hi, 1)), edx, rm, on)
  ELSE Result(op, 0, Put(eax, size, low), Put(edx, size, hi), rm, on)

\* Mutant of mul_i: the upper half is lost for words too.
mul_iNarrow ==
  LET p == Low(eax, size) * Low(rm, size)
  IN Double("mul", Low(p, size), 0, Overflows(FALSE))

\* eax * val is a uint32_t: edx gets 0.
mul_i ==
  LET p  == Low(eax, size) * Low(rm, size)
      hi == IF size = 4 THEN 0 ELSE p \div Mod(size)
  IN Double("mul", Low(p, size), hi, Overflows(~zero(hi)))

\* 0xF6 and 0xF7.  eax * val is again a uint32_t, extended with zeros.
imul_one ==
  LET p   == Signed(eax, size) * Signed(rm, size)
      res == IF size = 4 THEN Low(p, 4) ELSE p
  IN Double("imul1", Low(res, size), res \div Mod(size), Overflows(res # Signed(res, size)))

\* The flags of the other forms come from a product of int, which for 32 bit
\* operands has already lost its upper half.
Fits(p) == size = 4 \/ p = Signed(p, size)

\* 0x0F AF: the destination is a register, here eax.
imul_two ==
  LET p == Signed(eax, size) * Signed(rm, size) IN
    /\ size # 1
    /\ Result("imul2", 0, Put(eax, size, p), edx, rm, Overflows(~Fits(p)))

\* 0x6B and 0x69 with three operands; v is the immediate, sign extended.
\* The source is another register than the destination, or memory.
imul_three(v) ==
  LET p == Signed(rm, size) * v IN
    /\ size # 1
    /\ Result("imul3", v, Put(eax, size, p), edx, rm, Overflows(~Fits(p)))

\* 0x6B with two operands: the flags come from a second product, of the
\* destination that has been multiplied already.
imul_6B(v) ==
  LET p == Signed(eax, size) * v IN
    /\ size # 1
    /\ Result("imul6B", v, Put(eax, size, p), edx, rm, Overflows(~Fits(Signed(p, size) * v)))

\* 0x69 with two operands: the line after the product assigns the immediate.
imul_69(v) ==
  /\ size # 1
  /\ Result("imul69", v, Put(eax, size, v), edx, rm, Overflows(FALSE))

imul_i ==
  \/ imul_one \/ imul_two
  \/ \E imm \in Immediates :
       \/ \E s \in {1, size} : imul_three(Signed(imm, s))
       \/ imul_6B(Signed(imm, 1))
       \/ imul_69(Signed(imm, size))

---------------------------------------------------------------------------
(* Division: a quotient that does not fit makes the handler return -1000   *)
(* before it has written a register; eip has moved already.                *)

\* C rounds towards zero.
Quotient(a, b)  == IF (a < 0) = (b < 0) THEN (IF b < 0 THEN (-a) \div (-b) ELSE a \div b)
                   ELSE -(IF b < 0 THEN a \div (-b) ELSE (-a) \div b)
Remainder(a, b) == a - b * Quotient(a, b)

Divided(op, q, r) ==
  IF size = 1
  THEN Result(op, 0, Put(eax, 2, Low(q, 1) + Mod(1) * Low(r, 1)), edx, rm, <<>>)
  ELSE Result(op, 0, Put(eax, size, q), Put(edx, size, r), rm, <<>>)

Pair == Low(edx, size) * Mod(size) + Low(eax, size)

\* Mutant of div_i: a quotient that is too large is cut off.
div_iUnchecked ==
  LET n == IF size = 1 THEN Low(eax, 2) ELSE Pair
      d == Low(rm, size)
  IN IF d = 0 THEN Fails("div", "SIGFPE") ELSE Divided("div", n \div d, n % d)

div_i ==
  LET n == IF size = 1 THEN Low(eax, 2) ELSE Pair
      d == Low(rm, size)
  IN CASE d = 0 -> Fails("div", "SIGFPE")
       [] d # 0 /\ n \div d >= Mod(size) -> Fails("div", "-1000")
       [] OTHER -> Divided("div", n \div d, n % d)

\* (*dx << 16) | *ax with two int16_t: a negative ax fills the upper half.
SignedDividend ==
  LET n == IF size = 1 THEN Low(eax, 2) ELSE Pair IN
    CASE size = 2 /\ Top(eax, 2) -> Signed(eax, 2)
      [] size = 1 -> Signed(eax, 2)
      [] OTHER -> IF Top(edx, size) THEN n - Mod(size) * Mod(size) ELSE n

\* Mutant of idiv_i: the quotient is rounded down.
idiv_iFloor ==
  LET n == SignedDividend
      d == Signed(rm, size)
      q == IF d > 0 THEN n \div d ELSE (-n) \div (-d)
  IN CASE d = 0 -> Fails("idiv", "SIGFPE")
       [] d # 0 /\ q # Signed(q, size) -> Fails("idiv", "-1000")
       [] OTHER -> Divided("idiv", q, n - d * q)

idiv_i ==
  LET n == SignedDividend
      d == Signed(rm, size)
  IN CASE d = 0 \/ (d = -1 /\ size # 1 /\ 2 * n = -(Mod(size) * Mod(size))) ->
            Fails("idiv", "SIGFPE")
       [] OTHER ->
            LET q == Quotient(n, d) IN
              IF q # Signed(q, size) THEN Fails("idiv", "-1000")
              ELSE Divided("idiv", q, Remainder(n, d))

---------------------------------------------------------------------------
(* Widening: the sign of the small operand fills the large one            *)

Extend(v, from, to) == IF Top(v, from) THEN Low(v, from) + Mod(to) - Mod(from) ELSE Low(v, from)

cbw_i  == Result("cbw", 0, Put(eax, 2, Extend(eax, 1, 2)), edx, rm, <<>>)
cwde_i == Result("cwde", 0, Extend(eax, 2, 4), edx, rm, <<>>)
\* Mutant of cwd_i: the sign is that of the full register.
cwd_iFullSign == Result("cwd", 0, eax, Put(edx, 2, IF Top(eax, 4) THEN Mod(2) - 1 ELSE 0), rm, <<>>)

cwd_i  == Result("cwd", 0, eax, Put(edx, 2, IF Top(eax, 2) THEN Mod(2) - 1 ELSE 0), rm, <<>>)
cdq_i  == Result("cdq", 0, eax, IF Top(eax, 4) THEN Mod(4) - 1 ELSE 0, rm, <<>>)

\* The destination is eax or ax, the source rm has a smaller size, given by
\* from; the same size is an operand pair Capstone does not produce.
movsx_i(from) ==
  /\ from < size
  /\ Result("movsx", from, Put(eax, size, Extend(rm, from, size)), edx, rm, <<>>)

movzx_i(from) ==
  /\ from < size
  /\ Result("movzx", from, Put(eax, size, Low(rm, from)), edx, rm, <<>>)

\* Both operands are read before one is written.
xchg_i == Result("xchg", 0, Put(eax, size, rm), edx, Put(rm, size, eax), <<>>)

\* BOUND compares without sign and writes nothing; here the bounds are edx
\* and rm.  Out of bounds is a result nothing handles.
bound_i ==
  /\ size # 1
  /\ IF Low(edx, size) <= Low(eax, size) /\ Low(eax, size) <= Low(rm, size)
     THEN Result("bound", 0, eax, edx, rm, <<>>)
     ELSE Fails("bound", "-5")

\* One instruction ran; its result stays.
Finished == last # Unexecuted /\ UNCHANGED vars

Next ==
  \/ mul_i \/ imul_i \/ div_i \/ idiv_i
  \/ cbw_i \/ cwde_i \/ cwd_i \/ cdq_i \/ xchg_i \/ bound_i
  \/ \E from \in {1, 2} : movsx_i(from) \/ movzx_i(from)
  \/ Finished

Spec == Init /\ [][Next]_vars

---------------------------------------------------------------------------
(* Reference: the integers the registers stand for *)

Ran(ops) == last.op \in ops
Wide     == IF size = 1 THEN Low(eax, 2) ELSE Pair
OldWide  == IF size = 1 THEN Low(last.eax, 2)
            ELSE Low(last.edx, size) * Mod(size) + Low(last.eax, size)
SignedWide(v) == LET m == Mod(size) * Mod(size) IN IF 2 * v >= m THEN v - m ELSE v

\* MUL and one-operand IMUL of bytes and words leave the whole product, and
\* CF and OF say whether its upper half matters; of 32 bit operands, and in
\* the forms with a destination, the low half is the product's.
ProductsExact ==
  LET a == Signed(last.eax, size)  b == Signed(last.rm, size)  p == a * b IN
    /\ Ran({"mul"}) /\ size # 4 =>
         /\ Wide = Low(last.eax, size) * Low(last.rm, size)
         /\ ("CF" \in eflags) = (Wide >= Mod(size)) /\ ("OF" \in eflags) = (Wide >= Mod(size))
    /\ Ran({"imul1"}) /\ size # 4 =>
         SignedWide(Wide) = p /\ ("CF" \in eflags) = (p # Signed(p, size))
    /\ Ran({"mul", "imul1", "imul2"}) => Low(eax, size) = Low(p, size)
    /\ Ran({"imul6B"}) => Low(eax, size) = Low(a * last.imm, size)
    /\ Ran({"imul3"}) => Low(eax, size) = Low(b * last.imm, size)
    /\ Ran({"imul2"}) /\ size = 2 => ("OF" \in eflags) = (p # Signed(p, 2))

\* DIV either leaves the quotient and the remainder or, when the quotient
\* does not fit or the divisor is zero, no register is touched and the
\* handler does not return 0.
DivExact ==
  LET d == Low(last.rm, size)
      q == Low(eax, size)
      r == IF size = 1 THEN Low(eax \div Mod(1), 1) ELSE Low(edx, size)
  IN Ran({"div"}) =>
       IF d = 0 \/ OldWide \div d >= Mod(size)
       THEN status # "ok" /\ eax = last.eax /\ edx = last.edx
       ELSE status = "ok" /\ q * d + r = OldWide /\ r < d

\* IDIV of a dividend the widening instructions prepare (AX from CBW, DX:AX
\* from CWD, EDX:EAX from CDQ, or any whose low word is not negative) rounds
\* to zero, and its remainder has the sign of the dividend.
IdivExact ==
  LET n == SignedWide(OldWide)
      d == Signed(last.rm, size)
      q == Signed(eax, size)
      r == IF size = 1 THEN Signed(eax \div Mod(1), 1) ELSE Signed(edx, size)
      prepared == size # 2 \/ ~Top(last.eax, 2) \/ n = Signed(last.eax, 2)
  IN Ran({"idiv"}) /\ prepared =>
       /\ status = "ok" => /\ q * d + r = n
                           /\ r * r < d * d
                           /\ r # 0 => (r < 0) = (n < 0)
       /\ status # "ok" => eax = last.eax /\ edx = last.edx

\* Both divisions: what DIV and IDIV leave in the accumulator, or that a
\* refused division leaves everything.
QuotientsExact == DivExact /\ IdivExact

\* The widening instructions keep the signed value and the bytes above the
\* destination; XCHG is its own inverse on both operands.
WideningExact ==
  /\ Ran({"cbw"})  => Signed(eax, 2) = Signed(last.eax, 1) /\ eax \div Mod(2) = last.eax \div Mod(2)
  /\ Ran({"cwde"}) => Signed(eax, 4) = Signed(last.eax, 2)
  /\ Ran({"cwd"})  => /\ Low(edx, 2) = (IF Signed(last.eax, 2) < 0 THEN Mod(2) - 1 ELSE 0)
                      /\ edx \div Mod(2) = last.edx \div Mod(2)
  /\ Ran({"cdq"})  => Signed(edx, 4) = (IF Signed(last.eax, 4) < 0 THEN -1 ELSE 0)
  /\ Ran({"movsx"}) => Signed(eax, size) = Signed(last.rm, last.imm)
  /\ Ran({"movzx"}) => Low(eax, size) = Low(last.rm, last.imm)
  /\ Ran({"xchg"}) => Put(eax, size, rm) = last.eax /\ Put(rm, size, eax) = last.rm
=============================================================================
