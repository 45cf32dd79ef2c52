------------------------------ MODULE MCArith ------------------------------
(***************************************************************************)
(* Operand widths of 4, 5 and 6 bits stand for 8, 16 and 32: every size is *)
(* strictly narrower than the next and bit 4, which adjust() looks at, is  *)
(* inside the two wider ones.                                              *)
(***************************************************************************)
EXTENDS Arith, Bitwise, TLC

MCWidth == 1 :> 4 @@ 2 :> 5 @@ 4 :> 6

MCAnd(a, b) == a & b
MCOr(a, b)  == a | b
MCXor(a, b) == a ^^ b

\* All the contents of the narrow part, below an empty and a full upper part.
MCCells == {c \in Uint32 : c \div Mod(1) \in {0, 3}}
=============================================================================
