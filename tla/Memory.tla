------------------------------- MODULE Memory -------------------------------
(***************************************************************************)
(* The guest's memory and the little endian accesses of src/src/instr.c.   *)
(* A byte is a digit in base Radix (256 in the code) and a word of four    *)
(* digits is both a register value and an address: addresses wrap, because *)
(* mem[addr + k] is indexed with a uint32_t.                               *)
(***************************************************************************)
EXTENDS Integers

CONSTANT Radix

\* pushad writes eight words below esp: they must fit in the address space.
ASSUME RadixAssumption == Radix \in Nat /\ Radix > 2

Byte == 0..(Radix - 1)
Half == Radix * Radix                       \* the values of a uint16_t
N    == Radix * (Radix * (Radix * Radix))   \* the values of a uint32_t
Addr == 0..(N - 1)

\* The k-th byte from a.
At(a, k) == (a + k) % N

\* Mutant of Byte0: the low byte is stored without its mask.
Byte0Unmasked(v) == v

\* The k-th byte of a value.
Byte0(v)  == v % Radix
Byte1(v)  == (v \div Radix) % Radix
Byte2(v)  == ((v \div Radix) \div Radix) % Radix
Byte3(v)  == (((v \div Radix) \div Radix) \div Radix) % Radix

\* The addresses a four byte access at a touches.
Range4(a) == {At(a, 0), At(a, 1), At(a, 2), At(a, 3)}

write16(m, a, v) == [m EXCEPT ![At(a, 0)] = Byte0(v), ![At(a, 1)] = Byte1(v)]

write32(m, a, v) ==
  [m EXCEPT ![At(a, 0)] = Byte0(v), ![At(a, 1)] = Byte1(v),
            ![At(a, 2)] = Byte2(v), ![At(a, 3)] = Byte3(v)]

read16(m, a) == m[At(a, 0)] + Radix * m[At(a, 1)]

read32(m, a) ==
  m[At(a, 0)] + Radix * (m[At(a, 1)] + Radix * (m[At(a, 2)] + Radix * m[At(a, 3)]))
=============================================================================
