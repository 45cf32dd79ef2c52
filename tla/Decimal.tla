------------------------------ MODULE Decimal ------------------------------
(***************************************************************************)
(* The decimal adjustments, LAHF, SAHF, XLAT and the instructions that set *)
(* one flag (src/src/instr.c), executed by guests that compute with        *)
(* several decimal bytes: they keep the carry from one byte to the next in *)
(* AH, because INC, which steps to the next byte, overwrites CF here.      *)
(*                                                                         *)
(* Bytes have their 8 bits (Width[1] = 8); the wider sizes are not used.   *)
(* eflags is the set of the flags that are set, the reserved bits of the   *)
(* low byte included: R1 is set from the start.                            *)
(***************************************************************************)
EXTENDS Alu, Sequences

CONSTANTS Routines,   \* the guests: "daa", "das", "aas", "aaa" or "aam"
          Packed,     \* operand bytes of the packed routines
          Unpacked,   \* operand bytes of the unpacked routines, one digit
          Length      \* number of bytes of an operand

ASSUME DecimalAssumption ==
  /\ Routines \subseteq {"daa", "das", "aas", "aaa", "aam"}
  /\ Width[1] = 8 /\ Length \in Nat \ {0}
  /\ Unpacked \subseteq 0..9
  /\ Packed \subseteq {16 * d + e : d \in 0..9, e \in 0..9}

VARIABLES al, ah, eflags,
          i,           \* index register: the byte the guest is at
          routine, pc,
          a, b,        \* operands, the lowest byte first
          out,         \* result
          system       \* history: DF and IF when the loop begins

vars == <<al, ah, eflags, i, routine, pc, a, b, out, system>>
data == <<routine, a, b>>

Bytes(r) == CASE r \in {"daa", "das"} -> Packed [] r \in {"aas", "aaa"} -> Unpacked [] OTHER -> 0..99

Init ==
  /\ routine \in Routines
  /\ a \in [1..(IF routine = "aam" THEN 1 ELSE Length) -> Bytes(routine)]
  /\ b \in IF routine = "aam" THEN {a} ELSE [1..Length -> Bytes(routine)]
  /\ out = [k \in DOMAIN a |-> 0]
  /\ al = 0 /\ ah = 0 /\ i = 1 /\ pc = "direction"
  /\ eflags = InitialEflags \cup {"R1"}
  /\ system = {}

\* One instruction at label here; the next one is at label next.
Insn(here, next) == pc = here /\ pc' = next /\ UNCHANGED data
Registers        == <<al, ah, i, out, system>>

---------------------------------------------------------------------------
(* One flag *)

clc_i == eflags' = clear_Flag(eflags, "CF") /\ UNCHANGED Registers
cld_i == eflags' = clear_Flag(eflags, "DF") /\ UNCHANGED Registers
cli_i == eflags' = clear_Flag(eflags, "IF") /\ UNCHANGED Registers
cmc_i == eflags' = complement_Flag(eflags, "CF") /\ UNCHANGED Registers
stc_i == eflags' = set_Flag(eflags, "CF") /\ UNCHANGED Registers
std_i == eflags' = set_Flag(eflags, "DF") /\ UNCHANGED Registers
sti_i == eflags' = set_Flag(eflags, "IF") /\ UNCHANGED Registers

---------------------------------------------------------------------------
(* The low byte of EFLAGS *)

LowFlags == <<"CF", "R1", "PF", "R3", "AF", "R5", "ZF", "SF">>
LowByte(fl) == LET w(k) == IF LowFlags[k] \in fl THEN 2 ^ (k - 1) ELSE 0
               IN w(1) + w(2) + w(3) + w(4) + w(5) + w(6) + w(7) + w(8)

lahf_i == ah' = LowByte(eflags) /\ UNCHANGED <<al, eflags, i, out, system>>

sahf_i ==
  /\ eflags' = {f \in eflags : \A k \in 1..8 : LowFlags[k] # f}
                 \cup {LowFlags[k] : k \in {j \in 1..8 : Bit(ah, j - 1) = 1}}
  /\ UNCHANGED <<al, ah, i, out, system>>

---------------------------------------------------------------------------
(* Adjustments *)

Adjusted(v, on) ==
  /\ al' = v % 256
  /\ eflags' = Update(eflags, on)
  /\ UNCHANGED <<i, out, system>>

AF_or_high(v) == v % 16 > 9 \/ test_Flag(eflags, "AF")

\* DAA and DAS: low digit, then high digit and CF, from the changed AL.
Decimally(step) ==
  LET af == AF_or_high(al)
      l  == (al + (IF af THEN step ELSE 0)) % 256
      cf == l > 159 \/ test_Flag(eflags, "CF")
      r  == (l + (IF cf THEN 16 * step ELSE 0)) % 256
  IN /\ Adjusted(r, [AF |-> af, CF |-> cf, SF |-> sign(r, 8), ZF |-> zero(r), PF |-> parity(r)])
     /\ UNCHANGED ah

\* Mutant of daa_i: the carry out of the addition is forgotten.
daa_iNoCarry ==
  LET af == AF_or_high(al)
      l  == (al + (IF af THEN 6 ELSE 0)) % 256
  IN /\ Adjusted(IF l > 159 THEN l + 96 ELSE l, [AF |-> af, CF |-> l > 159])
     /\ UNCHANGED ah

daa_i == Decimally(6)
das_i == Decimally(-6)

\* Mutant of aas_i: the high digit stays.
aas_iUnmasked ==
  IF AF_or_high(al)
  THEN Adjusted(al - 6, [AF |-> TRUE, CF |-> TRUE]) /\ ah' = (ah - 1) % 256
  ELSE Adjusted(al, [AF |-> FALSE, CF |-> FALSE]) /\ UNCHANGED ah

aas_i ==
  IF AF_or_high(al)
  THEN Adjusted(((al - 6) % 256) % 16, [AF |-> TRUE, CF |-> TRUE]) /\ ah' = (ah - 1) % 256
  ELSE Adjusted(al, [AF |-> FALSE, CF |-> FALSE]) /\ UNCHANGED ah

\* *al & 0x0F > 9 is *al & 1, and it is ZF that is cleared.
aaa_i ==
  IF al % 2 = 1 \/ test_Flag(eflags, "AF")
  THEN Adjusted((al + 6) % 16, [AF |-> TRUE, CF |-> TRUE]) /\ ah' = (ah + 1) % 256
  ELSE Adjusted(al, [AF |-> FALSE, ZF |-> FALSE]) /\ UNCHANGED ah

\* ZF is set when the result is not zero.
DigitFlags(v) == [SF |-> sign(v, 8), ZF |-> ~zero(v), PF |-> parity(v)]

\* Mutant of aam_i: the digits change places.
aam_iSwapped == Adjusted(al \div 10, DigitFlags(al \div 10)) /\ ah' = al % 10

aam_i == Adjusted(al % 10, DigitFlags(al % 10)) /\ ah' = al \div 10
aad_i == LET v == (ah * 10 + al) % 256 IN Adjusted(v, DigitFlags(v)) /\ ah' = 0

\* mem[ebx + *al]; the guest's table at ebx holds the nines' complements.
xlat_i == al' = (9 - al) % 256 /\ UNCHANGED <<ah, eflags, i, out, system>>

---------------------------------------------------------------------------
(* The guests *)

\* ADC AL, b[i] and SBB AL, b[i] with the byte in a register.
Operand(v) == [kind |-> "reg", size |-> 1, cell |-> v]
AddByte == \E r \in adc_i(Operand(al), Operand(b[i]), eflags) :
             al' = r.cell /\ eflags' = r.fl /\ UNCHANGED <<ah, i, out, system>>
SubByte == \E r \in sbb_i(Operand(al), Operand(b[i]), eflags) :
             al' = r.cell /\ eflags' = r.fl /\ UNCHANGED <<ah, i, out, system>>

LoadByte  == al' = a[i] /\ UNCHANGED <<ah, eflags, i, out, system>>
StoreByte == out' = [out EXCEPT ![i] = al] /\ UNCHANGED <<al, ah, eflags, i, system>>
NextByte  == \E r \in inc_i(Operand(i), Operand(0), eflags) :
               i' = r.cell /\ eflags' = r.fl /\ UNCHANGED <<al, ah, out, system>>

\* A guest may have chosen a direction and masked interrupts, and clears CF
\* in one way or another; it saves the flags before the loop.
Prologue ==
  \/ Insn("direction", "carry") /\ cld_i
  \/ Insn("direction", "mask") /\ std_i
  \/ Insn("mask", "carry") /\ cli_i
  \/ Insn("mask", "unmask") /\ cli_i
  \/ Insn("unmask", "carry") /\ sti_i
  \/ Insn("carry", "save") /\ clc_i
  \/ Insn("carry", "complement") /\ stc_i
  \/ Insn("complement", "save") /\ cmc_i
  \/ /\ Insn("save", "load") /\ ah' = LowByte(eflags) /\ system' = eflags \cap {"DF", "IF"}
     /\ UNCHANGED <<al, eflags, i, out>>

\* load, sahf, adc or sbb, adjust, lahf, store, inc, and again.
Loop ==
  \/ Insn("load", IF routine = "aam" THEN "aam" ELSE "restore") /\ LoadByte
  \/ Insn("restore", "compute") /\ sahf_i
  \/ Insn("compute", routine) /\ routine \in {"daa", "aaa"} /\ AddByte
  \/ Insn("compute", routine) /\ routine \in {"das", "aas"} /\ SubByte
  \/ Insn("daa", "keep") /\ daa_i
  \/ Insn("das", "keep") /\ das_i
  \/ Insn("aas", "keep") /\ aas_i
  \/ Insn("aaa", "keep") /\ aaa_i
  \/ Insn("keep", "store") /\ lahf_i
  \/ Insn("aam", "xlat") /\ aam_i
  \/ Insn("xlat", "aad") /\ xlat_i
  \/ Insn("aad", "store") /\ aad_i
  \/ Insn("store", IF i = Len(out) THEN "done" ELSE "step") /\ StoreByte
  \/ Insn("step", "load") /\ NextByte

Done == pc = "done" /\ UNCHANGED vars

Next == Prologue \/ Loop \/ Done

Spec == Init /\ [][Next]_vars

---------------------------------------------------------------------------
(* Reference: the numbers the operands stand for *)

\* A byte of a packed or an unpacked number, and how many there are.
Digits(v) == IF routine \in {"daa", "das"} THEN 10 * (v \div 16) + (v % 16) ELSE v
Base      == IF routine \in {"daa", "das"} THEN 100 ELSE 10
Number(s) == LET w[k \in 0..Len(s)] == IF k = 0 THEN 0
                                       ELSE w[k - 1] + Digits(s[k]) * Base ^ (k - 1)
             IN w[Len(s)]
Top       == Base ^ Len(out)
CarryOut  == Bit(ah, 0) = 1
Ended(r)  == pc = "done" /\ routine = r

\* The carry into byte k of a sum.
CarryInto(k) ==
  LET below(s) == Number(SubSeq(s, 1, k - 1))
  IN IF below(a) + below(b) >= Base ^ (k - 1) THEN 1 ELSE 0

\* The bytes of the operands add up to FA..FF, from where daa_i's *al += 6
\* wraps and the comparison with 0x9F sees a small number.
AdjustWraps(k) ==
  /\ (a[k] \div 16) + (b[k] \div 16) = 15
  /\ (a[k] % 16) + (b[k] % 16) + CarryInto(k) \in 10..15

SumIsExact ==
  /\ Number(a) + Number(b) = Number(out) + (IF CarryOut THEN Top ELSE 0)
  /\ Number(out) < Top

\* ADC and DAA over all bytes leave the decimal digits of the sum, and the
\* carry saved in AH is its highest digit, unless the high digits of two
\* bytes add up to 15 with a carry to come from the low ones.
DecimalSum ==
  Ended("daa") /\ (\A k \in DOMAIN a : ~AdjustWraps(k)) => SumIsExact

\* SBB with DAS (packed) or AAS (one digit in a byte) leave the digits of the
\* difference, and the borrow.
DecimalDifference ==
  \A r \in {"das", "aas"} :
    Ended(r) => Number(a) - Number(b) = Number(out) - (IF CarryOut THEN Top ELSE 0)

\* AAM splits a number below 100 into its digits, XLAT replaces the low one
\* by its complement and AAD joins them.
DigitsExact ==
  Ended("aam") => out[1] = 10 * (a[1] \div 10) + (9 - (a[1] % 10))
=============================================================================
