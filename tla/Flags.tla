------------------------------- MODULE Flags -------------------------------
(***************************************************************************)
(* The flag helpers of src/src/flags.c.  EFLAGS is modelled by the set of  *)
(* the flags that are set; a word is a natural number and a helper that    *)
(* takes a "base" takes the width of its operands in bits.                 *)
(***************************************************************************)
EXTENDS Integers, FiniteSets

\* The flags the emulator computes or tests (lib/flags.h).
StatusFlags == {"CF", "PF", "AF", "ZF", "SF", "OF"}
FlagNames   == StatusFlags \cup {"TF", "IF", "DF"}

\* uint32_t eflags = 0x202: the reserved bit 1 and IF.
InitialEflags == {"IF"}

set_Flag(fl, f)        == fl \cup {f}
clear_Flag(fl, f)      == fl \ {f}
complement_Flag(fl, f) == IF f \in fl THEN fl \ {f} ELSE fl \cup {f}
test_Flag(fl, f)       == f \in fl

\* cond ? set_Flag(F) : clear_Flag(F) for a set of flags at once: the flags
\* of `on` get the truth value of their condition, the others are kept.
Update(fl, on) ==
  (fl \ DOMAIN on) \cup {f \in DOMAIN on : on[f]}

Bit(v, i) == (v \div 2^i) % 2

zero(v)       == v = 0
sign(v, base) == v \div 2^(base - 1) # 0

overflow(op1, op2, res, base) ==
  LET b == base - 1 IN Bit(op1, b) # Bit(res, b) /\ Bit(op2, b) # Bit(res, b)

parity(v) == Cardinality({i \in 0..7 : Bit(v, i) = 1}) % 2 = 0

adjust(op1, op2, res) == (Bit(op1, 4) + Bit(op2, 4) + Bit(res, 4)) % 2 = 1
=============================================================================
