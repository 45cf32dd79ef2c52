------------------------------ MODULE MCShifts ------------------------------
(***************************************************************************)
(* Operand widths of 3, 4 and 6 bits stand for 8, 16 and 32; the counts go *)
(* past the widest operand and its carry.                                  *)
(***************************************************************************)
EXTENDS Shifts, Bitwise, TLC

MCWidth   == 1 :> 3 @@ 2 :> 4 @@ 4 :> 6
MCCells   == 0..63
MCSources == {0, 9, 38, 63}
MCCounts  == 0..8

MCAnd(a, b) == a & b
MCOr(a, b)  == a | b
MCXor(a, b) == a ^^ b
=============================================================================
