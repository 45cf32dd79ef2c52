---------------------------- MODULE ArithProofs ----------------------------
(***************************************************************************)
(* What the arithmetic handlers leave in the destination and in EFLAGS,    *)
(* for every width of the operands, every operand and every content.  The  *)
(* inductive invariant says that the destination and EFLAGS are an outcome *)
(* of the handler that ran, on the operands it started from; the           *)
(* properties follow from it by the arithmetic of each handler.            *)
(***************************************************************************)
EXTENDS Arith, TLAPS

Instructions ==
  {"add", "adc", "inc", "sub", "sbb", "cmp", "dec", "neg", "not", "and", "or", "xor", "test"}

\* What the handler of an instruction may produce.
Outcomes(op, d, o, fl) ==
  CASE op = "add" -> add_i(d, o, fl)
    [] op = "adc" -> adc_i(d, o, fl)
    [] op = "inc" -> inc_i(d, o, fl)
    [] op = "sub" -> sub_i(d, o, fl)
    [] op = "sbb" -> sbb_i(d, o, fl)
    [] op = "cmp" -> cmp_i(d, o, fl)
    [] op = "dec" -> dec_i(d, o, fl)
    [] op = "neg" -> neg_i(d, o, fl)
    [] op = "not" -> not_i(d, o, fl)
    [] op = "and" -> and_i(d, o, fl)
    [] op = "or" -> or_i(d, o, fl)
    [] op = "xor" -> xor_i(d, o, fl)
    [] op = "test" -> test_i(d, o, fl)

\* The destination as the handler found it.
Before == [dst EXCEPT !.cell = last.cell]

\* The operands are words of the size the instruction has.
OperandsOK ==
  /\ dst \in [kind : {"reg", "mem"}, size : OpSizes, cell : Uint32]
  /\ src \in SrcOperands(dst)

\* Nothing ran yet, or what is in the destination and in EFLAGS is an
\* outcome of what ran.
OutcomeInv ==
  \/ last = Nothing
  \/ /\ last = [op |-> last.op, cell |-> last.cell, fl |-> last.fl]
     /\ last.op \in Instructions /\ last.cell \in Uint32
     /\ last.op \in {"neg", "not"} => dst.kind = "reg"
     /\ [cell |-> dst.cell, fl |-> eflags] \in Outcomes(last.op, Before, src, last.fl)

ArithInv == OperandsOK /\ OutcomeInv

---------------------------------------------------------------------------
(* Words *)

\* The remainder of an integer, and its quotient.
LEMMA Remainder ==
  ASSUME NEW v \in Int, NEW m \in Nat, m > 0
  PROVE  /\ v % m \in Int /\ 0 <= v % m /\ v % m < m
         /\ v \div m \in Int /\ v = m * (v \div m) + (v % m)
OBVIOUS

\* A quotient and a remainder are determined by the equation they solve.
LEMMA RemainderUnique ==
  ASSUME NEW v \in Int, NEW m \in Nat, m > 0, NEW q \in Int, NEW r \in Int,
         v = m * q + r, 0 <= r, r < m
  PROVE  v \div m = q /\ v % m = r
OBVIOUS

\* The power of a width splits at every bit.
LEMMA PowerSplit ==
  ASSUME NEW w \in 0..Width[4], NEW m \in 0..w
  PROVE  /\ 2 ^ m \in Nat /\ 2 ^ m > 0 /\ 2 ^ (w - m) \in Nat /\ 2 ^ (w - m) > 0
         /\ 2 ^ w = 2 ^ m * 2 ^ (w - m)
<1> DEFINE W == Width[4]
<1>1. W \in Nat
  BY WidthAssumption
<1>2. \A i, j \in 0..W :
        2 ^ i \in Nat \ {0} /\ (i + j <= W => 2 ^ (i + j) = 2 ^ i * 2 ^ j)
  BY PowersAssumption
<1> HIDE DEF W
<1>3. m \in 0..W /\ w - m \in 0..W /\ m + (w - m) = w /\ w <= W
  BY <1>1 DEF W
<1>4. 2 ^ (m + (w - m)) = 2 ^ m * 2 ^ (w - m)
  BY <1>1, <1>2, <1>3
<1> QED
  BY <1>2, <1>3, <1>4

\* The widths of the sizes.
LEMMA Widths ==
  ASSUME NEW s \in Sizes
  PROVE  Width[s] \in Nat /\ Width[s] > 0 /\ Width[4] \in Nat /\ Width[s] <= Width[4]
  BY WidthAssumption DEF Sizes

\* A narrow word fits a whole number of times into a uint32_t.
LEMMA Moduli ==
  ASSUME NEW s \in Sizes
  PROVE  /\ Mod(s) \in Nat /\ Mod(s) > 0 /\ Mod(4) \in Nat /\ Mod(s) <= Mod(4)
         /\ \E k \in Nat : k > 0 /\ Mod(4) = Mod(s) * k
<1> DEFINE w == Width[s]  W == Width[4]
<1>1. W \in 0..Width[4] /\ w \in 0..W
  BY Widths
<1> DEFINE M == 2 ^ w  k == 2 ^ (W - w)
<1>2. M \in Nat /\ M > 0 /\ k \in Nat /\ k > 0 /\ 2 ^ W = M * k
  BY <1>1, PowerSplit
<1>3. 2 ^ W \in Nat /\ M <= 2 ^ W
  <2> HIDE DEF M, k, W, w
  <2> QED
    BY <1>2
<1> QED
  BY <1>2, <1>3 DEF Mod

\* The sign bit splits a word into two halves.
LEMMA Halves ==
  ASSUME NEW s \in Sizes
  PROVE  /\ 2 ^ (Width[s] - 1) \in Nat /\ 2 ^ (Width[s] - 1) > 0
         /\ Mod(s) = 2 * 2 ^ (Width[s] - 1)
<1>1. Width[s] \in 0..Width[4] /\ 1 \in 0..Width[s]
  BY Widths
<1>2. 2 ^ 1 = 2
  OBVIOUS
<1> QED
  BY <1>1, <1>2, PowerSplit DEF Mod

\* Bit 4 is inside a word of more than four bits.
LEMMA Nibbles ==
  ASSUME NEW s \in Sizes, Width[s] > 4
  PROVE  \E k \in Nat : Mod(s) = 32 * k
<1>1. Width[s] \in 0..Width[4] /\ 5 \in 0..Width[s]
  BY Widths
<1>2. 2 ^ 5 = 32
  OBVIOUS
<1>3. 2 ^ (Width[s] - 5) \in Nat /\ 2 ^ Width[s] = 2 ^ 5 * 2 ^ (Width[s] - 5)
  BY <1>1, PowerSplit
<1> QED
  BY <1>2, <1>3 DEF Mod

\* What is read back from a store is what was stored, the bytes above it
\* keep their value, and the cell stays a word.
LEMMA StoreReads ==
  ASSUME NEW c \in Uint32, NEW s \in Sizes, NEW v \in Int
  PROVE  /\ Low(Store(c, s, v), s) = v % Mod(s)
         /\ Store(c, s, v) - Low(Store(c, s, v), s) = c - Low(c, s)
         /\ Store(c, s, v) \in Uint32
<1> DEFINE M == Mod(s)  q == c \div M  l == c % M  r == v % M  t == (c - l) + r
<1>1. PICK k \in Nat : k > 0 /\ Mod(4) = M * k
  BY Moduli
<1>2. M \in Nat /\ M > 0 /\ c \in Int /\ 0 <= c /\ c < M * k
  BY Moduli, <1>1 DEF Uint32
<1> HIDE DEF M
<1>3. /\ r \in Int /\ 0 <= r /\ r < M
      /\ l \in Int /\ q \in Int /\ c = M * q + l /\ 0 <= l /\ l < M
  BY <1>2, Remainder
<1> HIDE DEF q, l, r
<1>5. t \in Int /\ t = M * q + r /\ t - r = c - l
  BY <1>2, <1>3
<1> HIDE DEF t
<1>6. t % M = r
  BY <1>2, <1>3, <1>5, RemainderUnique
<1>7. 0 <= q /\ q <= k - 1
  BY <1>1, <1>2, <1>3
<1>8. 0 <= t /\ t < M * k
  <2>1. 0 <= M * q /\ M * q <= M * (k - 1) /\ M * (k - 1) = M * k - M
    BY <1>1, <1>2, <1>3, <1>7
  <2> QED
    BY <1>1, <1>2, <1>3, <1>5, <2>1
<1>9. Store(c, s, v) = t /\ Low(t, s) = r /\ Low(c, s) = l /\ v % Mod(s) = r
  BY <1>6 DEF Store, Low, M, t, r, l
<1>10. t \in Uint32
  BY <1>1, <1>2, <1>5, <1>8 DEF Uint32
<1> QED
  BY <1>5, <1>9, <1>10

\* The low part of a word is a word of its size.
LEMMA LowIsWord ==
  ASSUME NEW c \in Int, NEW s \in Sizes
  PROVE  Low(c, s) \in 0..(Mod(s) - 1) /\ Low(c, s) \in Uint32
<1> DEFINE M == Mod(s)
<1>1. M \in Nat /\ M > 0 /\ Mod(4) \in Nat /\ M <= Mod(4)
  BY Moduli
<1> HIDE DEF M
<1>2. c % M \in Int /\ 0 <= c % M /\ c % M < M
  BY <1>1, Remainder
<1> QED
  BY <1>1, <1>2 DEF Low, Uint32, M

\* A word of a size is its own low part.
LEMMA LowOfWord ==
  ASSUME NEW s \in Sizes, NEW c \in 0..(Mod(s) - 1)
  PROVE  Low(c, s) = c
<1> DEFINE M == Mod(s)
<1>1. M \in Nat /\ M > 0 /\ c \in Int /\ 0 <= c /\ c < M
  BY Moduli
<1> HIDE DEF M
<1> QED
  BY <1>1, RemainderUnique DEF Low, M

---------------------------------------------------------------------------
(* Operands *)

\* The forms of the source operand.
LEMMA SourceForms ==
  ASSUME OperandsOK
  PROVE  /\ dst.size \in Sizes /\ dst.cell \in Uint32 /\ dst.kind \in {"reg", "mem"}
         /\ src.cell \in Uint32 /\ src.size \in Sizes
         /\ src.kind = "imm" => src.size \in {1, dst.size} /\ src.cell < Mod(src.size)
         /\ src.kind # "imm" => src.size = dst.size
         /\ src.kind = "mem" => dst.kind = "reg"
<1>1. dst.size \in Sizes /\ dst.cell \in Uint32 /\ dst.kind \in {"reg", "mem"} /\ Cells \subseteq Uint32
  BY ArithAssumption DEF OperandsOK
<1>2. CASE src \in [kind : IF dst.kind = "mem" THEN {"reg"} ELSE {"reg", "mem"},
                    size : {dst.size}, cell : Cells]
  BY <1>1, <1>2
<1>3. CASE src \in [kind : {"imm"}, size : {1, dst.size}, cell : Cells] /\ src.cell < Mod(src.size)
  BY <1>1, <1>3 DEF Sizes
<1> QED
  BY <1>2, <1>3 DEF OperandsOK, SrcOperands

\* A byte that is sign extended is a word of the wider size.
LEMMA SignExtended ==
  ASSUME NEW c \in Uint32, NEW s \in Sizes
  PROVE  sign_extend8(c, s) \in 0..(Mod(s) - 1)
<1> DEFINE b == Low(c, 1)
<1>1. 1 \in Sizes /\ 1 <= s
  BY DEF Sizes
<1>2. c \in Int
  BY Moduli DEF Uint32
<1>3. b \in 0..(Mod(1) - 1) /\ Mod(1) \in Nat /\ Mod(s) \in Nat
  BY <1>1, <1>2, LowIsWord, Moduli
<1>4. Mod(1) <= Mod(s)
  <2> DEFINE w == Width[s]  v == Width[1]
  <2>1. w \in 0..Width[4] /\ v \in 0..w
    BY WidthAssumption, Widths DEF Sizes
  <2> DEFINE M == 2 ^ v  k == 2 ^ (w - v)
  <2>2. M \in Nat /\ M > 0 /\ k \in Nat /\ k > 0 /\ 2 ^ w = M * k
    BY <2>1, PowerSplit
  <2>3. M <= 2 ^ w
    <3> HIDE DEF M, k, w
    <3> QED
      BY <2>2
  <2> QED
    BY <2>3 DEF Mod
<1> HIDE DEF b
<1>5. b \in 0..(Mod(s) - 1) /\ b + Mod(s) - Mod(1) \in 0..(Mod(s) - 1)
  BY <1>3, <1>4
<1> QED
  BY <1>5 DEF sign_extend8, b

\* The source is a word of the destination's size, however it is given.
LEMMA SourceWord ==
  ASSUME OperandsOK
  PROVE  /\ ValueExtended(src, dst.size) \in 0..(Mod(dst.size) - 1)
         /\ Value(src) \in Uint32
         /\ src.size = dst.size => ValueExtended(src, dst.size) = Value(src)
         /\ OpB = ValueExtended(src, dst.size)
<1>1. src.cell \in Int /\ 0 <= src.cell
  BY SourceForms, Moduli DEF Uint32
<1>2. Low(src.cell, src.size) \in 0..(Mod(src.size) - 1) /\ Low(src.cell, src.size) \in Uint32
  BY <1>1, SourceForms, LowIsWord
<1>3. Mod(src.size) \in Nat /\ Mod(dst.size) \in Nat
  BY SourceForms, Moduli
<1>4. ValueExtended(src, dst.size) \in 0..(Mod(dst.size) - 1)
  <2>1. CASE src.kind = "imm" /\ src.size = 1 /\ dst.size # 1
    BY <2>1, SourceForms, SignExtended DEF ValueExtended
  <2>2. CASE src.kind = "imm" /\ ~(src.size = 1 /\ dst.size # 1)
    BY <1>1, <1>3, <2>2, SourceForms DEF ValueExtended, Value
  <2>3. CASE src.kind # "imm"
    BY <1>2, <2>3, SourceForms DEF ValueExtended, Value
  <2> QED
    BY <2>1, <2>2, <2>3
<1>5. Value(src) \in Uint32
  BY <1>2, SourceForms DEF Value
<1>6. src.size = dst.size => ValueExtended(src, dst.size) = Value(src)
  BY DEF ValueExtended
<1>7. OpB = ValueExtended(src, dst.size)
  BY <1>4, SourceForms, LowOfWord DEF OpB
<1> QED
  BY <1>4, <1>5, <1>6, <1>7

---------------------------------------------------------------------------
(* The inductive invariant *)

\* Every handler leaves a word in the destination.
LEMMA OutcomeIsWord ==
  ASSUME OperandsOK, NEW op \in Instructions, NEW out \in Outcomes(op, dst, src, eflags)
  PROVE  out = [cell |-> out.cell, fl |-> out.fl] /\ out.cell \in Uint32
<1> DEFINE s == dst.size  a == Accessed(dst)  c == dst.cell
           v1 == Low(c, s)  w1 == Low(c, a)  v2 == Value(src)  x2 == ValueExtended(src, s)
           y2 == IF src.kind = "mem" THEN src.cell ELSE x2
<1>1. s \in Sizes /\ a \in Sizes /\ c \in Uint32
  BY SourceForms DEF Accessed, Sizes
<1>2. Mod(s) \in Nat /\ Mod(4) \in Nat /\ c \in Int
  BY <1>1, Moduli DEF Uint32
<1>3. v1 \in Uint32 /\ w1 \in Uint32 /\ v2 \in Uint32 /\ v1 \in Int /\ w1 \in Int /\ v2 \in Int
  BY <1>1, <1>2, LowIsWord, SourceWord DEF Uint32
<1>4. x2 \in Int /\ y2 \in Int
  BY <1>2, SourceWord, SourceForms DEF Uint32
<1>5. Carry(eflags) \in Int
  BY DEF Carry
<1>6. BitAnd(v1, v2) \in Int /\ BitOr(v1, v2) \in Int /\ BitXor(v1, v2) \in Int
  <2>1. BitAnd(v1, v2) \in Uint32 /\ BitOr(v1, v2) \in Uint32 /\ BitXor(v1, v2) \in Uint32
    <3> HIDE DEF v1, v2
    <3> QED
      BY <1>3, BitwiseAssumption
  <2> QED
    BY <2>1, <1>2 DEF Uint32
<1>7. \A v \in Int : Store(c, s, v) \in Uint32 /\ Store(c, a, v) \in Uint32
  BY <1>1, StoreReads
<1>8. CASE op = "add"
  <2>1. v1 + v2 \in Int
    BY <1>3
  <2> QED
    BY <1>7, <1>8, <2>1 DEF Outcomes, add_i
<1>9. CASE op = "adc"
  <2>1. v1 + v2 + Carry(eflags) \in Int
    BY <1>3, <1>5
  <2> QED
    BY <1>7, <1>9, <2>1 DEF Outcomes, adc_i
<1>10. CASE op = "inc"
  <2>1. v1 + 1 \in Int
    BY <1>3
  <2> QED
    BY <1>7, <1>10, <2>1 DEF Outcomes, inc_i
<1>11. CASE op = "sub"
  <2>1. w1 - y2 + Mod(4) \in Int
    BY <1>2, <1>3, <1>4
  <2> QED
    BY <1>7, <1>11, <2>1 DEF Outcomes, sub_i
<1>12. CASE op = "sbb"
  <2>1. v1 - x2 - Carry(eflags) + 2 * Mod(4) \in Int
    BY <1>2, <1>3, <1>4, <1>5
  <2> QED
    BY <1>7, <1>12, <2>1 DEF Outcomes, sbb_i
<1>13. CASE op = "cmp"
  BY <1>1, <1>13 DEF Outcomes, cmp_i
<1>14. CASE op = "dec"
  <2>1. w1 - 1 + Mod(4) \in Int
    BY <1>2, <1>3
  <2> QED
    BY <1>7, <1>14, <2>1 DEF Outcomes, dec_i
<1>15. CASE op = "neg"
  <2>1. Mod(4) - v1 \in Int
    BY <1>2, <1>3
  <2> QED
    BY <1>7, <1>15, <2>1 DEF Outcomes, neg_i
<1>16. CASE op = "not"
  <2>1. Mod(s) - 1 - v1 \in Int
    BY <1>2, <1>3
  <2> QED
    BY <1>7, <1>16, <2>1 DEF Outcomes, not_i
<1>17. CASE op = "and"
  BY <1>6, <1>7, <1>17 DEF Outcomes, and_i
<1>18. CASE op = "or"
  BY <1>1, <1>6, <1>7, <1>18 DEF Outcomes, or_i, LogicOr
<1>19. CASE op = "xor"
  BY <1>1, <1>6, <1>7, <1>19 DEF Outcomes, xor_i, LogicOr
<1>20. CASE op = "test"
  BY <1>1, <1>20 DEF Outcomes, test_i
<1> QED
  BY <1>8, <1>9, <1>10, <1>11, <1>12, <1>13, <1>14, <1>15, <1>16, <1>17, <1>18, <1>19, <1>20
     DEF Instructions

\* Running one handler on loaded operands establishes the invariant.
LEMMA ExecuteStep ==
  ASSUME OperandsOK, NEW op \in Instructions, op \in {"neg", "not"} => dst.kind = "reg",
         Execute(op, Outcomes(op, dst, src, eflags))
  PROVE  ArithInv'
<1>1. PICK out \in Outcomes(op, dst, src, eflags) :
        dst' = [dst EXCEPT !.cell = out.cell] /\ eflags' = out.fl
  BY DEF Execute
<1>2. last' = [op |-> op, cell |-> dst.cell, fl |-> eflags] /\ src' = src
  BY DEF Execute
<1>3. out = [cell |-> out.cell, fl |-> out.fl] /\ out.cell \in Uint32
  BY OutcomeIsWord
<1>4. dst \in [kind : {"reg", "mem"}, size : OpSizes, cell : Uint32]
  BY DEF OperandsOK
<1>5. /\ dst' \in [kind : {"reg", "mem"}, size : OpSizes, cell : Uint32]
      /\ dst'.kind = dst.kind /\ dst'.size = dst.size /\ dst'.cell = out.cell
      /\ [dst' EXCEPT !.cell = dst.cell] = dst
  BY <1>1, <1>3, <1>4
<1>6. src' \in SrcOperands(dst')
  BY <1>2, <1>5 DEF OperandsOK, SrcOperands
<1>7. Before' = dst /\ last'.op = op /\ last'.cell = dst.cell /\ last'.fl = eflags
  BY <1>2, <1>5 DEF Before
<1>8. [cell |-> dst'.cell, fl |-> eflags'] \in Outcomes(op, dst, src, eflags)
  BY <1>1, <1>3, <1>5
<1>9. [cell |-> dst'.cell, fl |-> eflags'] \in Outcomes(last'.op, Before', src', last'.fl)
  BY <1>2, <1>7, <1>8
<1>10. OutcomeInv'
  BY <1>2, <1>4, <1>5, <1>7, <1>9 DEF OutcomeInv
<1> QED
  BY <1>5, <1>6, <1>10 DEF ArithInv, OperandsOK

\* The invariant holds initially and every instruction keeps it.
LEMMA ArithInvInductive ==
  /\ Init => ArithInv
  /\ ArithInv /\ [Next]_vars => ArithInv'
<1>1. ASSUME Init PROVE ArithInv
  BY <1>1, ArithAssumption DEF Init, ArithInv, OperandsOK, OutcomeInv, DstOperands
<1>2. ASSUME ArithInv, Next PROVE ArithInv'
  <2>1. ASSUME NEW op \in Instructions, op \in {"neg", "not"} => dst.kind = "reg",
               Execute(op, Outcomes(op, dst, src, eflags))
        PROVE  ArithInv'
    BY <1>2, <2>1, ExecuteStep DEF ArithInv
  <2> DEFINE P(op) == Outcomes(op, dst, src, eflags)
  <2>2. /\ P("add") = add_i(dst, src, eflags) /\ P("adc") = adc_i(dst, src, eflags)
        /\ P("inc") = inc_i(dst, src, eflags) /\ P("sub") = sub_i(dst, src, eflags)
        /\ P("sbb") = sbb_i(dst, src, eflags) /\ P("cmp") = cmp_i(dst, src, eflags)
        /\ P("dec") = dec_i(dst, src, eflags) /\ P("neg") = neg_i(dst, src, eflags)
        /\ P("not") = not_i(dst, src, eflags) /\ P("and") = and_i(dst, src, eflags)
        /\ P("or") = or_i(dst, src, eflags) /\ P("xor") = xor_i(dst, src, eflags)
        /\ P("test") = test_i(dst, src, eflags)
    BY DEF Outcomes
  <2>3. CASE DoAdd
    BY <2>1, <2>2, <2>3 DEF DoAdd, Instructions
  <2>4. CASE DoAdc
    BY <2>1, <2>2, <2>4 DEF DoAdc, Instructions
  <2>5. CASE DoInc
    BY <2>1, <2>2, <2>5 DEF DoInc, Instructions
  <2>6. CASE DoSub
    BY <2>1, <2>2, <2>6 DEF DoSub, Instructions
  <2>7. CASE DoSbb
    BY <2>1, <2>2, <2>7 DEF DoSbb, Instructions
  <2>8. CASE DoCmp
    BY <2>1, <2>2, <2>8 DEF DoCmp, Instructions
  <2>9. CASE DoDec
    BY <2>1, <2>2, <2>9 DEF DoDec, Instructions
  <2>10. CASE DoNeg
    BY <2>1, <2>2, <2>10 DEF DoNeg, Instructions
  <2>11. CASE DoNot
    BY <2>1, <2>2, <2>11 DEF DoNot, Instructions
  <2>12. CASE DoAnd
    BY <2>1, <2>2, <2>12 DEF DoAnd, Instructions
  <2>13. CASE DoOr
    BY <2>1, <2>2, <2>13 DEF DoOr, Instructions
  <2>14. CASE DoXor
    BY <2>1, <2>2, <2>14 DEF DoXor, Instructions
  <2>15. CASE DoTest
    BY <2>1, <2>2, <2>15 DEF DoTest, Instructions
  <2>16. CASE Finished
    BY <1>2, <2>16 DEF Finished, vars, ArithInv, OperandsOK, OutcomeInv, Before
  <2> QED
    BY <1>2, <2>3, <2>4, <2>5, <2>6, <2>7, <2>8, <2>9, <2>10, <2>11, <2>12, <2>13, <2>14,
       <2>15, <2>16 DEF Next
<1>3. ASSUME ArithInv, UNCHANGED vars PROVE ArithInv'
  BY <1>3 DEF vars, ArithInv, OperandsOK, OutcomeInv, Before
<1> QED
  BY <1>1, <1>2, <1>3

\* The destination and EFLAGS are always an outcome of the handler that ran.
LEMMA ArithInvariant == Spec => []ArithInv
  BY ArithInvInductive, PTL DEF Spec

---------------------------------------------------------------------------
(* Conditions *)

\* A SETcc handler stores what the jump of the same condition tests, in
\* every state of EFLAGS: the handlers of instr.c test the same flags.
THEOREM SetccIsJcc == Spec => []SetccFollowsJcc
<1>1. SetccFollowsJcc
  BY DEF SetccFollowsJcc, JumpsUnsigned, SetsUnsigned, JumpsSigned, SetsSigned, SetsNotSigned,
         JumpsEqual, JumpsNotSigned, SetsFlag, JumpsNotFlag, SetsParitySignZero, JumpsFlag,
         Cf, Zf, SfIsOf, test_Flag
<1> QED
  BY <1>1, PTL

\* The flags of a handler's table get the value the table gives them.
LEMMA Updated ==
  ASSUME NEW fl, NEW on, NEW f \in DOMAIN on
  PROVE  (f \in Update(fl, on)) <=> on[f]
  BY DEF Update

\* What an instruction that ran did to the destination and to EFLAGS.
LEMMA RanOutcome ==
  ASSUME ArithInv, last.op \in Instructions
  PROVE  /\ last.cell \in Uint32 /\ last.cell \in Int /\ dst.cell \in Int
         /\ last.op \in {"neg", "not"} => dst.kind = "reg"
         /\ Before.cell = last.cell /\ Before.size = dst.size /\ Before.kind = dst.kind
         /\ [cell |-> dst.cell, fl |-> eflags] \in Outcomes(last.op, Before, src, last.fl)
<1>1. last # Nothing
  BY DEF Instructions, Nothing
<1>2. 4 \in Sizes
  BY DEF Sizes
<1>3. Mod(4) \in Nat
  BY <1>2, Moduli
<1>4. dst \in [kind : {"reg", "mem"}, size : OpSizes, cell : Uint32]
  BY DEF ArithInv, OperandsOK
<1> QED
  BY <1>1, <1>3, <1>4 DEF ArithInv, OutcomeInv, Before, Uint32

\* CMP leaves the destination; CF and ZF compare the operands.
LEMMA RanCmp ==
  ASSUME ArithInv, last.op = "cmp"
  PROVE  /\ dst.cell = last.cell
         /\ ("CF" \in eflags) <=> OpA < OpB
         /\ ("ZF" \in eflags) <=> OpA = OpB
<1> DEFINE s == dst.size  v1 == OpA  v2 == OpB
           r == (v1 - v2 + Mod(4)) % Mod(4)
           F == ArithFlags(v1, v2, r, s, v1 < v2)
<1>1. /\ [cell |-> dst.cell, fl |-> eflags] \in cmp_i(Before, src, last.fl)
      /\ Before.cell = last.cell /\ Before.size = s /\ last.cell \in Int
  BY RanOutcome DEF Outcomes, Instructions
<1>2. s \in Sizes /\ 4 \in Sizes /\ OpB = ValueExtended(src, s) /\ Low(OpB, s) = OpB
      /\ v2 \in 0..(Mod(s) - 1)
  BY SourceForms, SourceWord, LowOfWord DEF ArithInv, Sizes
<1>3. v1 = Low(last.cell, s) /\ v1 \in 0..(Mod(s) - 1)
  BY <1>1, <1>2, LowIsWord DEF OpA
<1>4. dst.cell = last.cell /\ eflags = Update(last.fl, F)
  BY <1>1, <1>2, <1>3 DEF cmp_i
<1>5. Mod(s) \in Nat /\ Mod(s) <= Mod(4) /\ Mod(4) \in Nat /\ Mod(4) > 0
  BY <1>2, Moduli
<1>6. r = 0 <=> v1 = v2
  <2> DEFINE M == Mod(4)
  <2>1. v1 \in Int /\ v2 \in Int /\ 0 <= v1 /\ v1 < M /\ 0 <= v2 /\ v2 < M /\ M \in Nat /\ M > 0
    BY <1>2, <1>3, <1>5
  <2> HIDE DEF v1, v2, M
  <2>2. (v1 - v2 + M) % M = 0 <=> v1 = v2
    <3>1. CASE v1 = v2
      <4>1. v1 - v2 + M = M * 1 + 0
        BY <2>1, <3>1
      <4> QED
        BY <2>1, <3>1, <4>1, RemainderUnique
    <3>2. CASE v1 > v2
      <4>1. v1 - v2 + M = M * 1 + (v1 - v2) /\ v1 - v2 > 0 /\ v1 - v2 < M
        BY <2>1, <3>2
      <4>2. (v1 - v2 + M) % M = v1 - v2
        BY <2>1, <4>1, RemainderUnique
      <4> QED
        BY <2>1, <4>1, <4>2
    <3>3. CASE v1 < v2
      <4>1. v1 - v2 + M = M * 0 + (v1 - v2 + M) /\ v1 - v2 + M > 0 /\ v1 - v2 + M < M
        BY <2>1, <3>3
      <4>2. (v1 - v2 + M) % M = v1 - v2 + M
        BY <2>1, <4>1, RemainderUnique
      <4> QED
        BY <2>1, <4>1, <4>2
    <3> QED
      BY <2>1, <3>1, <3>2, <3>3
  <2> QED
    BY <2>2 DEF M
<1>7. "CF" \in DOMAIN F /\ "ZF" \in DOMAIN F /\ (F["CF"] <=> v1 < v2) /\ (F["ZF"] <=> r = 0)
  <2> HIDE DEF v1, v2, r
  <2> QED
    BY DEF ArithFlags, zero
<1>8. ("CF" \in eflags) <=> v1 < v2
  <2> HIDE DEF F, v1, v2
  <2> QED
    BY <1>4, <1>7, Updated
<1>9. ("ZF" \in eflags) <=> r = 0
  <2> HIDE DEF F, v1, v2, r
  <2> QED
    BY <1>4, <1>7, Updated
<1> QED
  BY <1>4, <1>6, <1>8, <1>9

\* After CMP the unsigned and the equality jumps go the way the operands
\* compare, for every width, kind and content (cmp_i, flags.c, the Jcc
\* handlers): the 32 bit difference and the borrow of narrow operands are
\* enough.
THEOREM UnsignedJumpsCompare == Spec => []UnsignedCompare
<1>1. ASSUME ArithInv PROVE UnsignedCompare
  <2>1. SUFFICES ASSUME last.op = "cmp" PROVE UnsignedCompare
    BY DEF UnsignedCompare, Ran
  <2> DEFINE a == OpA  b == OpB
  <2>2. (("CF" \in eflags) <=> a < b) /\ (("ZF" \in eflags) <=> a = b)
    BY <1>1, <2>1, RanCmp
  <2>3. a \in Int /\ b \in Int
    <3>1. last.cell \in Int /\ dst.size \in Sizes /\ Mod(dst.size) \in Nat
      BY <1>1, <2>1, RanOutcome, SourceForms, Moduli DEF Instructions, ArithInv
    <3> QED
      BY <1>1, <3>1, SourceWord, LowIsWord DEF OpA, ArithInv
  <2> HIDE DEF a, b
  <2> DEFINE C == "CF" \in eflags  Z == "ZF" \in eflags
  <2>4. /\ (~C /\ ~Z) = (a > b) /\ (~C) = (a >= b) /\ C = (a < b) /\ (C \/ Z) = (a <= b)
        /\ Z = (a = b) /\ (~Z) = (a # b)
    BY <2>2, <2>3
  <2> QED
    BY <2>4 DEF UnsignedCompare, JumpsUnsigned, JumpsEqual, JumpsNotSigned, Cf, Zf, test_Flag, a, b
<1> QED
  BY <1>1, ArithInvariant, PTL

---------------------------------------------------------------------------
(* The flags of an addition *)

\* The sign bit of a word says in which half it lies.
LEMMA SignBit ==
  ASSUME NEW s \in Sizes, NEW v \in 0..(Mod(s) - 1)
  PROVE  /\ Bit(v, Width[s] - 1) = IF 2 ^ (Width[s] - 1) <= v THEN 1 ELSE 0
         /\ sign(v, Width[s]) <=> 2 ^ (Width[s] - 1) <= v
<1> DEFINE h == 2 ^ (Width[s] - 1)
<1>1. h \in Nat /\ h > 0 /\ Mod(s) = 2 * h
  BY Halves
<1> HIDE DEF h
<1>2. v \in Int /\ 0 <= v /\ v < 2 * h
  BY <1>1
<1>3. v \div h = IF h <= v THEN 1 ELSE 0
  <2>1. CASE h <= v
    <3>1. v = h * 1 + (v - h) /\ 0 <= v - h /\ v - h < h
      BY <1>1, <1>2, <2>1
    <3> QED
      BY <1>1, <1>2, <2>1, <3>1, RemainderUnique
  <2>2. CASE v < h
    <3>1. v = h * 0 + v
      BY <1>1, <1>2
    <3> QED
      BY <1>1, <1>2, <2>2, <3>1, RemainderUnique
  <2> QED
    BY <1>1, <1>2, <2>1, <2>2
<1> QED
  BY <1>3 DEF Bit, sign, h

\* The sum of two words wraps at most once.
LEMMA Wraps ==
  ASSUME NEW s \in Sizes, NEW a \in 0..(Mod(s) - 1), NEW b \in 0..(Mod(s) - 1)
  PROVE  (a + b) % Mod(s) = IF a + b < Mod(s) THEN a + b ELSE a + b - Mod(s)
<1> DEFINE m == Mod(s)
<1>1. m \in Nat /\ m > 0 /\ a \in Int /\ 0 <= a /\ a < m /\ b \in Int /\ 0 <= b /\ b < m
  BY Moduli
<1> HIDE DEF m
<1>2. CASE a + b < m
  <2>1. a + b = m * 0 + (a + b)
    BY <1>1
  <2> QED
    BY <1>1, <1>2, <2>1, RemainderUnique DEF m
<1>3. CASE a + b >= m
  <2>1. a + b = m * 1 + (a + b - m)
    BY <1>1
  <2>2. (a + b) % m = a + b - m
    BY <1>1, <1>3, <2>1, RemainderUnique
  <2> QED
    BY <1>1, <1>3, <2>2 DEF m
<1> QED
  BY <1>1, <1>2, <1>3

\* overflow() of flags.c is the signed overflow of the sum.
LEMMA SumOverflow ==
  ASSUME NEW s \in Sizes, NEW a \in 0..(Mod(s) - 1), NEW b \in 0..(Mod(s) - 1),
         NEW r, r = (a + b) % Mod(s)
  PROVE  overflow(a, b, r, Width[s]) <=> ~FitsSigned(Signed(a, s) + Signed(b, s), s)
<1> DEFINE h == 2 ^ (Width[s] - 1)  m == Mod(s)  x == Width[s] - 1
<1>1. h \in Nat /\ h > 0 /\ m = 2 * h /\ m \in Nat
  BY Halves
<1>2. a \in Int /\ 0 <= a /\ a < m /\ b \in Int /\ 0 <= b /\ b < m
  BY <1>1
<1>3. r = IF a + b < m THEN a + b ELSE a + b - m
  BY Wraps
<1>4. r \in 0..(Mod(s) - 1) /\ r \in Int
  <2> HIDE DEF m
  <2>1. r \in Int /\ 0 <= r /\ r < m
    BY <1>1, <1>2, <1>3
  <2> QED
    BY <1>1, <2>1 DEF m
<1>5. /\ Bit(a, x) = IF h <= a THEN 1 ELSE 0
      /\ Bit(b, x) = IF h <= b THEN 1 ELSE 0
      /\ Bit(r, x) = IF h <= r THEN 1 ELSE 0
  BY <1>4, SignBit
<1>6. overflow(a, b, r, Width[s]) <=> (((h <= a) # (h <= r)) /\ ((h <= b) # (h <= r)))
  <2>1. overflow(a, b, r, Width[s]) <=> (Bit(a, x) # Bit(r, x) /\ Bit(b, x) # Bit(r, x))
    BY DEF overflow
  <2> HIDE DEF x, h
  <2> QED
    BY <1>5, <2>1
<1>7. /\ Signed(a, s) = IF h <= a THEN a - m ELSE a
      /\ Signed(b, s) = IF h <= b THEN b - m ELSE b
  BY SignBit DEF Signed
<1> DEFINE t == Signed(a, s) + Signed(b, s)
<1>8. FitsSigned(t, s) <=> (-m <= 2 * t /\ 2 * t < m)
  BY DEF FitsSigned
<1> HIDE DEF h, m
<1>9. t = (IF h <= a THEN a - m ELSE a) + (IF h <= b THEN b - m ELSE b)
  BY <1>7
<1> HIDE DEF t
<1>10. (((h <= a) # (h <= r)) /\ ((h <= b) # (h <= r))) <=> ~(-m <= 2 * t /\ 2 * t < m)
  BY <1>1, <1>2, <1>3, <1>4, <1>9
<1> QED
  BY <1>6, <1>8, <1>10 DEF t

\* adjust() of flags.c is the carry out of the low nibble.
LEMMA SumAdjust ==
  ASSUME NEW s \in Sizes, NEW a \in 0..(Mod(s) - 1), NEW b \in 0..(Mod(s) - 1),
         NEW r, r = (a + b) % Mod(s), Width[s] > 4
  PROVE  adjust(a, b, r) <=> (a % 16) + (b % 16) >= 16
<1> DEFINE m == Mod(s)
<1>1. PICK k \in Nat : m = 32 * k
  BY Nibbles
<1>2. r = IF a + b < m THEN a + b ELSE a + b - m
  BY Wraps
<1>3. a \in Int /\ b \in Int
  BY <1>1
<1> HIDE DEF m
<1>4. r \in Int
  BY <1>1, <1>2, <1>3
<1> DEFINE qa == a \div 16  qb == b \div 16  qr == r \div 16
           la == a % 16     lb == b % 16     lr == r % 16
<1>5. /\ qa \in Int /\ qb \in Int /\ qr \in Int
      /\ la \in 0..15 /\ lb \in 0..15 /\ lr \in 0..15
      /\ a = 16 * qa + la /\ b = 16 * qb + lb /\ r = 16 * qr + lr
  BY <1>3, <1>4
<1>6. 2 ^ 4 = 16
  OBVIOUS
<1>7. adjust(a, b, r) <=> ((qa % 2) + (qb % 2) + (qr % 2)) % 2 = 1
  BY <1>6 DEF adjust, Bit
<1> HIDE DEF qa, qb, qr, la, lb, lr
<1>8. ((qa % 2) + (qb % 2) + (qr % 2)) % 2 = (qa + qb + qr) % 2
  BY <1>5
<1>9. qr = qa + qb + (IF la + lb >= 16 THEN 1 ELSE 0)
      \/ qr = qa + qb + (IF la + lb >= 16 THEN 1 ELSE 0) - 2 * k
  BY <1>1, <1>2, <1>5
<1>10. (qa + qb + qr) % 2 = IF la + lb >= 16 THEN 1 ELSE 0
  BY <1>1, <1>5, <1>9
<1> QED
  BY <1>7, <1>8, <1>10 DEF la, lb

\* ADD and INC write the sum of two words and the flags of ArithFlags.
LEMMA RanSum ==
  ASSUME ArithInv, last.op \in {"add", "inc"}, src.size = dst.size,
         NEW b, b = IF last.op = "inc" THEN 1 ELSE OpB
  PROVE  /\ OpA \in 0..(Mod(dst.size) - 1) /\ b \in 0..(Mod(dst.size) - 1)
         /\ Res = (OpA + b) % Mod(dst.size)
         /\ eflags = Update(last.fl, ArithFlags(OpA, b, Res, dst.size, OpA > Res))
<1> DEFINE s == dst.size  v1 == OpA
<1>1. /\ [cell |-> dst.cell, fl |-> eflags] \in Outcomes(last.op, Before, src, last.fl)
      /\ Before.cell = last.cell /\ Before.size = s /\ last.cell \in Int /\ last.cell \in Uint32
  BY RanOutcome DEF Instructions
<1>2. s \in Sizes /\ OpB = Value(src) /\ OpB \in 0..(Mod(s) - 1)
  BY SourceForms, SourceWord DEF ArithInv
<1>3. v1 = Low(last.cell, s) /\ v1 \in 0..(Mod(s) - 1)
  BY <1>1, <1>2, LowIsWord DEF OpA
<1>4. b \in 0..(Mod(s) - 1)
  <2>1. Mod(s) \in Nat /\ 1 < Mod(s)
    BY <1>2, Halves
  <2> QED
    BY <1>2, <2>1
<1>5. dst.cell = Store(last.cell, s, v1 + b)
      /\ eflags = Update(last.fl, ArithFlags(v1, b, Low(dst.cell, s), s, v1 > Low(dst.cell, s)))
  <2>1. CASE last.op = "add"
    BY <1>1, <1>2, <1>3, <2>1 DEF Outcomes, add_i
  <2>2. CASE last.op = "inc"
    BY <1>1, <1>3, <2>2 DEF Outcomes, inc_i
  <2> QED
    BY <2>1, <2>2
<1>6. v1 + b \in Int
  BY <1>2, <1>3, <1>4, Moduli
<1>7. Low(dst.cell, s) = (v1 + b) % Mod(s)
  BY <1>1, <1>2, <1>5, <1>6, StoreReads
<1> QED
  BY <1>3, <1>4, <1>5, <1>7 DEF Res

\* Every status flag ADD leaves is the flag of the exact sum, and so is every
\* flag but CF that INC leaves, for every width and every pair of operands:
\* the carry test v1 > result of add_i and the bit tests of overflow(),
\* adjust() and parity() are right.  AF is covered where the operand has the
\* bit adjust() looks at.
THEOREM AdditionFlags == Spec => []AddFlagsExact
<1>1. ASSUME ArithInv PROVE AddFlagsExact
  <2> SUFFICES ASSUME last.op \in {"add", "inc"}, src.size = dst.size PROVE AddFlagsExact
    BY DEF AddFlagsExact, Ran
  <2> DEFINE s == dst.size  a == OpA  b == IF last.op = "inc" THEN 1 ELSE OpB  r == Res
             F == ArithFlags(a, b, r, s, a > r)
  <2>1. s \in Sizes /\ Mod(s) \in Nat /\ Mod(s) > 0
    BY <1>1, SourceForms, Moduli DEF ArithInv
  <2>2. a \in 0..(Mod(s) - 1) /\ b \in 0..(Mod(s) - 1) /\ r = (a + b) % Mod(s)
        /\ eflags = Update(last.fl, F)
    BY <1>1, RanSum
  <2>3. r = IF a + b < Mod(s) THEN a + b ELSE a + b - Mod(s)
    BY <2>1, <2>2, Wraps
  <2> HIDE DEF s, a, b, r
  <2>4. (a > r) <=> (a + b >= Mod(s))
    BY <2>1, <2>2, <2>3
  <2>5. overflow(a, b, r, Width[s]) <=> ~FitsSigned(Signed(a, s) + Signed(b, s), s)
    BY <2>1, <2>2, SumOverflow
  <2>6. Width[s] > 4 => (adjust(a, b, r) <=> (a % 16) + (b % 16) >= 16)
    BY <2>1, <2>2, SumAdjust
  <2>7. /\ {"CF", "OF", "SF", "ZF", "AF", "PF"} \subseteq DOMAIN F
        /\ F["PF"] <=> parity(r)
        /\ F["CF"] <=> a > r
        /\ F["OF"] <=> overflow(a, b, r, Width[s])
        /\ F["SF"] <=> sign(r, Width[s])
        /\ F["ZF"] <=> r = 0
        /\ F["AF"] <=> adjust(a, b, r)
    BY DEF ArithFlags, zero, overflow, sign, adjust, parity
  <2>8. \A f \in {"CF", "OF", "SF", "ZF", "AF", "PF"} : (f \in eflags) <=> F[f]
    <3> HIDE DEF F
    <3> QED
      BY <2>2, <2>7, Updated
  <2>9. /\ ("CF" \in eflags) <=> (a + b >= Mod(s))
        /\ ("OF" \in eflags) <=> ~FitsSigned(Signed(a, s) + Signed(b, s), s)
        /\ ("SF" \in eflags) <=> sign(r, Width[s])
        /\ ("ZF" \in eflags) <=> (r = 0)
        /\ ("PF" \in eflags) <=> parity(r)
        /\ Width[s] > 4 => (("AF" \in eflags) <=> ((a % 16) + (b % 16) >= 16))
    <3> HIDE DEF F
    <3> QED
      BY <2>4, <2>5, <2>6, <2>7, <2>8
  <2> QED
    BY <2>9 DEF AddFlagsExact, s, a, b, r, sign, FitsSigned, parity
<1> QED
  BY <1>1, ArithInvariant, PTL

---------------------------------------------------------------------------
(* Results *)

\* A handler that stores v leaves v in the destination and nothing else.
LEMMA StoredResult ==
  ASSUME ArithInv, last.op \in Instructions, NEW v \in Int,
         dst.cell = Store(last.cell, dst.size, v)
  PROVE  Res = v % Mod(dst.size) /\ dst.cell - Res = last.cell - OpA
  BY RanOutcome, SourceForms, StoreReads DEF ArithInv, Res, OpA

\* ADD, ADC, INC, SUB, SBB, DEC and NEG leave the exact result, CMP and TEST
\* the destination as it was, and all of them the bytes above it, for every
\* width and content and the operand kinds the property names (the stores of
\* the handlers in instr.c).
THEOREM NumericResults == Spec => []NumbersExact
<1>1. ASSUME ArithInv PROVE NumbersExact
  <2> DEFINE s == dst.size  c == last.cell  a == OpA  b == OpB
             full == IF src.kind = "mem" THEN src.cell ELSE b
             Left(v) == Res = v % Mod(s) /\ NeighboursKept
  <2>1. /\ s \in Sizes /\ Mod(s) \in Nat /\ Mod(4) \in Nat
        /\ b \in Int /\ full \in Int /\ Value(src) \in Uint32 /\ Value(src) \in Int
        /\ b = ValueExtended(src, s) /\ (src.size = s => b = Value(src))
    BY <1>1, SourceForms, SourceWord, Moduli DEF ArithInv, Uint32
  <2>2. CASE last.op \notin Instructions
    BY <2>2 DEF NumbersExact, Ran, Instructions
  <2>3. CASE last.op \in Instructions
    <3>2. /\ [cell |-> dst.cell, fl |-> eflags] \in Outcomes(last.op, Before, src, last.fl)
          /\ Before.cell = c /\ Before.size = s /\ Before.kind = dst.kind
          /\ c \in Int /\ c \in Uint32 /\ (last.op \in {"neg", "not"} => dst.kind = "reg")
      BY <1>1, <2>3, RanOutcome
    <3>3. a = Low(c, s) /\ a \in 0..(Mod(s) - 1) /\ CarryIn = Carry(last.fl) /\ CarryIn \in Int
      <4>1. a = Low(c, s) /\ a \in 0..(Mod(s) - 1)
        BY <2>1, <3>2, LowIsWord DEF OpA
      <4> QED
        BY <2>1, <4>1 DEF CarryIn, Carry
    <3>4. a \in Int
      BY <2>1, <3>3
    <3>5. ASSUME NEW v \in Int, dst.cell = Store(c, s, v) PROVE Left(v)
      BY <1>1, <2>3, <3>5, StoredResult DEF NeighboursKept
    <3>6. CASE last.op = "add"
      <4>1. dst.cell = Store(c, s, a + Value(src)) /\ a + Value(src) \in Int
        BY <2>1, <3>2, <3>3, <3>4, <3>6 DEF Outcomes, add_i
      <4>2. Left(a + Value(src))
        BY <3>5, <4>1
      <4> QED
        BY <2>1, <3>6, <4>2 DEF NumbersExact, Ran
    <3>7. CASE last.op = "adc"
      <4>1. dst.cell = Store(c, s, a + Value(src) + CarryIn) /\ a + Value(src) + CarryIn \in Int
        BY <2>1, <3>2, <3>3, <3>4, <3>7 DEF Outcomes, adc_i
      <4>2. Left(a + Value(src) + CarryIn)
        BY <3>5, <4>1
      <4> QED
        BY <2>1, <3>7, <4>2 DEF NumbersExact, Ran
    <3>8. CASE last.op = "inc"
      <4>1. dst.cell = Store(c, s, a + 1) /\ a + 1 \in Int
        BY <3>2, <3>3, <3>4, <3>8 DEF Outcomes, inc_i
      <4>2. Left(a + 1)
        BY <3>5, <4>1
      <4> QED
        BY <3>8, <4>2 DEF NumbersExact, Ran
    <3>9. CASE last.op \in {"sub", "dec"} /\ ~(dst.kind = "reg" \/ s = 4)
      BY <3>9 DEF NumbersExact, Ran
    <3>10. CASE last.op = "sub" /\ (dst.kind = "reg" \/ s = 4)
      <4>1. Accessed(Before) = s
        BY <3>2, <3>10 DEF Accessed
      <4>2. dst.cell = Store(c, s, a - full + Mod(4)) /\ a - full + Mod(4) \in Int
        BY <2>1, <3>2, <3>3, <3>4, <3>10, <4>1 DEF Outcomes, sub_i
      <4>3. Left(a - full + Mod(4))
        BY <3>5, <4>2
      <4> QED
        BY <3>10, <4>3 DEF NumbersExact, Ran
    <3>11. CASE last.op = "sbb"
      <4>1. /\ dst.cell = Store(c, s, a - b - CarryIn + 2 * Mod(4))
            /\ a - b - CarryIn + 2 * Mod(4) \in Int
        BY <2>1, <3>2, <3>3, <3>4, <3>11 DEF Outcomes, sbb_i
      <4>2. Left(a - b - CarryIn + 2 * Mod(4))
        BY <3>5, <4>1
      <4> QED
        BY <3>11, <4>2 DEF NumbersExact, Ran
    <3>12. CASE last.op = "dec" /\ (dst.kind = "reg" \/ s = 4)
      <4>1. Accessed(Before) = s
        BY <3>2, <3>12 DEF Accessed
      <4>2. dst.cell = Store(c, s, a - 1 + Mod(4)) /\ a - 1 + Mod(4) \in Int
        BY <2>1, <3>2, <3>3, <3>4, <3>12, <4>1 DEF Outcomes, dec_i
      <4>3. Left(a - 1 + Mod(4))
        BY <3>5, <4>2
      <4> QED
        BY <3>12, <4>3 DEF NumbersExact, Ran
    <3>13. CASE last.op = "neg"
      <4>1. dst.cell = Store(c, s, Mod(4) - a) /\ Mod(4) - a \in Int
        BY <2>1, <3>2, <3>3, <3>4, <3>13 DEF Outcomes, neg_i
      <4>2. Left(Mod(4) - a)
        BY <3>5, <4>1
      <4> QED
        BY <3>13, <4>2 DEF NumbersExact, Ran
    <3>14. CASE last.op \in {"cmp", "test"}
      <4>1. dst.cell = c
        BY <3>2, <3>14 DEF Outcomes, cmp_i, test_i
      <4>2. Res = a /\ NeighboursKept
        BY <4>1 DEF Res, OpA, NeighboursKept
      <4>3. Left(a)
        BY <2>1, <3>3, <4>2, LowOfWord DEF Low
      <4> QED
        BY <3>14, <4>3 DEF NumbersExact, Ran
    <3>15. CASE last.op \in {"not", "and", "or", "xor"}
      BY <3>15 DEF NumbersExact, Ran
    <3> QED
      BY <2>3, <3>6, <3>7, <3>8, <3>9, <3>10, <3>11, <3>12, <3>13, <3>14, <3>15 DEF Instructions
  <2> QED
    BY <2>2, <2>3
<1> QED
  BY <1>1, ArithInvariant, PTL

---------------------------------------------------------------------------
(* Bits *)

\* A bit of a word splits its modulus into an even number of parts.
LEMMA PowerAt ==
  ASSUME NEW s \in Sizes, NEW i \in 0..(Width[s] - 1)
  PROVE  /\ 2 ^ i \in Nat /\ 2 ^ i > 0
         /\ \E h \in Nat : Mod(s) = 2 ^ i * (2 * h)
<1> DEFINE w == Width[s]  m == w - i
<1>1. w \in 0..Width[4] /\ i \in 0..w /\ m \in 0..Width[4] /\ 1 \in 0..m
  BY Widths
<1>2. /\ 2 ^ i \in Nat /\ 2 ^ i > 0 /\ 2 ^ w = 2 ^ i * 2 ^ m
  BY <1>1, PowerSplit
<1>3. 2 ^ 1 = 2
  OBVIOUS
<1>4. 2 ^ (m - 1) \in Nat /\ 2 ^ m = 2 * 2 ^ (m - 1)
  <2> HIDE DEF m
  <2> QED
    BY <1>1, <1>3, PowerSplit
<1> QED
  BY <1>2, <1>4 DEF Mod

\* The low part of a word has its bits.
LEMMA BitOfLow ==
  ASSUME NEW v \in Int, NEW s \in Sizes, NEW i \in 0..(Width[s] - 1)
  PROVE  Bit(Low(v, s), i) = Bit(v, i)
<1> DEFINE p == 2 ^ i  m == Mod(s)  q == v \div m  r == v % m
<1>1. PICK h \in Nat : m = p * (2 * h)
  BY PowerAt
<1>2. p \in Nat /\ p > 0 /\ m \in Nat /\ m > 0
  BY PowerAt, Moduli
<1> HIDE DEF p, m
<1>3. q \in Int /\ r \in Int /\ v = m * q + r
  BY <1>2, Remainder
<1> HIDE DEF q, r
<1> DEFINE x == r \div p  y == r % p  u == h * q
<1>4. x \in Int /\ y \in Int /\ 0 <= y /\ y < p /\ r = p * x + y
  BY <1>2, <1>3, Remainder
<1>5. v = p * (2 * u + x) + y /\ 2 * u + x \in Int /\ u \in Int
  <2> HIDE DEF x, y
  <2>1. m * q = p * (2 * u)
    BY <1>1, <1>2, <1>3
  <2> QED
    BY <1>2, <1>3, <1>4, <2>1
<1> HIDE DEF x, y, u
<1>6. v \div p = 2 * u + x
  BY <1>2, <1>4, <1>5, RemainderUnique
<1>7. (2 * u + x) % 2 = x % 2
  BY <1>4, <1>5
<1> QED
  BY <1>6, <1>7 DEF Bit, Low, p, m, r, x

\* The complement of a word turns every bit over.
LEMMA BitOfComplement ==
  ASSUME NEW s \in Sizes, NEW v \in 0..(Mod(s) - 1), NEW i \in 0..(Width[s] - 1)
  PROVE  Bit(Mod(s) - 1 - v, i) = 1 <=> Bit(v, i) # 1
<1> DEFINE p == 2 ^ i  m == Mod(s)  q == v \div p  r == v % p  c == m - 1 - v
<1>1. PICK h \in Nat : m = p * (2 * h)
  BY PowerAt
<1>2. p \in Nat /\ p > 0 /\ m \in Nat /\ v \in Int
  BY PowerAt, Moduli
<1> HIDE DEF p, m
<1>3. q \in Int /\ r \in Int /\ 0 <= r /\ r < p /\ v = p * q + r
  BY <1>2, Remainder
<1> HIDE DEF q, r
<1>4. /\ c \in Int /\ 2 * h - 1 - q \in Int /\ p - 1 - r \in Int
      /\ c = p * (2 * h - 1 - q) + (p - 1 - r) /\ 0 <= p - 1 - r /\ p - 1 - r < p
  <2>1. p * (2 * h - 1 - q) = p * (2 * h) - p - p * q
    BY <1>2, <1>3
  <2> QED
    BY <1>1, <1>2, <1>3, <2>1
<1> HIDE DEF c
<1>5. c \div p = 2 * h - 1 - q
  BY <1>2, <1>4, RemainderUnique
<1>6. (2 * h - 1 - q) % 2 = 1 <=> q % 2 # 1
  BY <1>3
<1> QED
  BY <1>5, <1>6 DEF Bit, p, m, q, c

\* AND, OR, XOR and NOT write every bit of the destination from the operands'
\* bits at the same place and no other byte, for every width and content, on
\* registers, and AND in memory too (and_i, or_i, xor_i, not_i).
THEOREM LogicResults == Spec => []LogicExact
<1>1. ASSUME ArithInv PROVE LogicExact
  <2> DEFINE s == dst.size  c == last.cell  a == OpA  b == OpB
             x == BitAnd(a, b)  y == BitOr(a, b)  z == BitXor(a, b)
  <2>1. s \in Sizes /\ Mod(s) \in Nat /\ Mod(4) \in Nat /\ Mod(s) <= Mod(4)
        /\ Width[s] \in Nat /\ Width[4] \in Nat /\ Width[s] <= Width[4]
    BY <1>1, SourceForms, Moduli, Widths DEF ArithInv
  <2>2. CASE last.op \notin {"and", "or", "xor", "not"}
    BY <2>2 DEF LogicExact, Ran
  <2>3. CASE last.op \in {"and", "or", "xor", "not"}
    <3>1. last.op \in Instructions
      BY <2>3 DEF Instructions
    <3>2. /\ [cell |-> dst.cell, fl |-> eflags] \in Outcomes(last.op, Before, src, last.fl)
          /\ Before.cell = c /\ Before.size = s /\ Before.kind = dst.kind
          /\ c \in Int /\ c \in Uint32
      BY <1>1, <3>1, RanOutcome
    <3>3. /\ a = Low(c, s) /\ a \in 0..(Mod(s) - 1) /\ a \in Uint32 /\ a \in Int
          /\ b \in Uint32 /\ b \in Int /\ (src.size = s => b = Value(src))
      <4>1. a = Low(c, s) /\ a \in 0..(Mod(s) - 1) /\ a \in Uint32
        BY <2>1, <3>2, LowIsWord DEF OpA
      <4>2. b \in 0..(Mod(s) - 1) /\ (src.size = s => b = Value(src))
        BY <1>1, SourceWord DEF ArithInv
      <4> QED
        BY <2>1, <4>1, <4>2 DEF Uint32
    <3>4. /\ x \in Uint32 /\ y \in Uint32 /\ z \in Uint32
          /\ \A i \in 0..(Width[4] - 1) :
               /\ Bit(x, i) = 1 <=> Bit(a, i) = 1 /\ Bit(b, i) = 1
               /\ Bit(y, i) = 1 <=> Bit(a, i) = 1 \/ Bit(b, i) = 1
               /\ Bit(z, i) = 1 <=> Bit(a, i) # Bit(b, i)
      <4> HIDE DEF a, b
      <4> QED
        BY <3>3, BitwiseAssumption
    <3>5. ASSUME NEW v \in Int, dst.cell = Store(c, s, v)
          PROVE  NeighboursKept /\ \A i \in 0..(Width[s] - 1) : Bit(Res, i) = Bit(v, i)
      <4>1. Res = Low(v, s) /\ NeighboursKept
        BY <1>1, <3>1, <3>5, StoredResult DEF NeighboursKept, Low
      <4> QED
        BY <2>1, <3>5, <4>1, BitOfLow
    <3>6. x \in Int /\ y \in Int /\ z \in Int
      <4> HIDE DEF x, y, z
      <4> QED
        BY <2>1, <3>4 DEF Uint32
    <3>7. \A i \in 0..(Width[s] - 1) : i \in 0..(Width[4] - 1)
      BY <2>1
    <3>8. \A i \in 0..(Width[s] - 1) : Bit(a, i) \in {0, 1} /\ Bit(b, i) \in {0, 1}
      <4> TAKE i \in 0..(Width[s] - 1)
      <4>1. 2 ^ i \in Nat /\ 2 ^ i > 0
        BY <2>1, PowerAt
      <4> DEFINE p == 2 ^ i
      <4> HIDE DEF a, b, p
      <4>2. a \div p \in Int /\ b \div p \in Int
        BY <3>3, <4>1, Remainder DEF p
      <4> QED
        BY <4>2 DEF Bit, p
    <3>9. CASE last.op = "and"
      <4>1. SUFFICES ASSUME src.size = s PROVE BitsAre(Both) /\ NeighboursKept
        BY <3>9 DEF LogicExact, Ran
      <4>2. dst.cell = Store(c, s, x)
        BY <3>2, <3>3, <3>9, <4>1 DEF Outcomes, and_i
      <4>3. NeighboursKept /\ \A i \in 0..(Width[s] - 1) : Bit(Res, i) = Bit(x, i)
        BY <3>5, <3>6, <4>2
      <4>4. \A i \in 0..(Width[s] - 1) : (Bit(Res, i) = 1) = (Bit(a, i) = 1 /\ Bit(b, i) = 1)
        BY <3>4, <3>7, <4>3
      <4> QED
        BY <4>3, <4>4 DEF BitsAre, Both
    <3>10. CASE last.op = "or"
      <4>1. SUFFICES ASSUME src.size = s, dst.kind = "reg" PROVE BitsAre(Either) /\ NeighboursKept
        BY <3>10 DEF LogicExact, Ran
      <4>2. dst.cell = Store(c, s, y)
        BY <3>2, <3>3, <3>10, <4>1 DEF Outcomes, or_i, LogicOr
      <4>3. NeighboursKept /\ \A i \in 0..(Width[s] - 1) : Bit(Res, i) = Bit(y, i)
        BY <3>5, <3>6, <4>2
      <4>4. \A i \in 0..(Width[s] - 1) : (Bit(Res, i) = 1) = (Bit(a, i) = 1 \/ Bit(b, i) = 1)
        BY <3>4, <3>7, <4>3
      <4> QED
        BY <4>3, <4>4 DEF BitsAre, Either
    <3>11. CASE last.op = "xor"
      <4>1. SUFFICES ASSUME src.size = s, dst.kind = "reg" PROVE BitsAre(OneOf) /\ NeighboursKept
        BY <3>11 DEF LogicExact, Ran
      <4>2. dst.cell = Store(c, s, z)
        BY <3>2, <3>3, <3>11, <4>1 DEF Outcomes, xor_i, LogicOr
      <4>3. NeighboursKept /\ \A i \in 0..(Width[s] - 1) : Bit(Res, i) = Bit(z, i)
        BY <3>5, <3>6, <4>2
      <4>4. \A i \in 0..(Width[s] - 1) : (Bit(Res, i) = 1) = ((Bit(a, i) = 1) # (Bit(b, i) = 1))
        BY <3>4, <3>7, <3>8, <4>3
      <4> QED
        BY <4>3, <4>4 DEF BitsAre, OneOf
    <3>12. CASE last.op = "not"
      <4>1. SUFFICES BitsAre(NotLeft) /\ NeighboursKept
        BY <3>12 DEF LogicExact, Ran
      <4>2. dst.cell = Store(c, s, Mod(s) - 1 - a) /\ Mod(s) - 1 - a \in Int
        BY <2>1, <3>2, <3>3, <3>12 DEF Outcomes, not_i
      <4>3. /\ NeighboursKept
            /\ \A i \in 0..(Width[s] - 1) : Bit(Res, i) = Bit(Mod(s) - 1 - a, i)
        BY <3>5, <4>2
      <4>4. \A i \in 0..(Width[s] - 1) : (Bit(Res, i) = 1) = ~(Bit(a, i) = 1)
        BY <2>1, <3>3, <4>3, BitOfComplement
      <4> QED
        BY <4>3, <4>4 DEF BitsAre, NotLeft
    <3> QED
      BY <2>3, <3>9, <3>10, <3>11, <3>12
  <2> QED
    BY <2>2, <2>3
<1> QED
  BY <1>1, ArithInvariant, PTL

\* Whatever mix of handlers ran before, the one that ran left the exact result
\* in the destination and nothing above it, as a number (ADD to NEG, CMP and
\* TEST) or bit by bit (AND, OR, XOR, NOT), for every width and content and
\* the operand kinds the two parts name.
THEOREM ResultsExact == Spec => []ResultExact
<1>1. NumbersExact /\ LogicExact => ResultExact
  BY DEF ResultExact
<1> QED
  BY <1>1, NumericResults, LogicResults, PTL
=============================================================================
