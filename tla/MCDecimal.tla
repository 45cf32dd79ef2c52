----------------------------- MODULE MCDecimal -----------------------------
(***************************************************************************)
(* Two bytes with their 8 bits: packed digits on both sides of every carry *)
(* and of the wrap of daa_i, all single digits, and all numbers below 100  *)
(* for AAM and AAD.                                                        *)
(***************************************************************************)
EXTENDS Decimal, Bitwise, TLC

MCWidth    == 1 :> 8 @@ 2 :> 9 @@ 4 :> 10
MCAnd(x, y) == x & y
MCOr(x, y)  == x | y
MCXor(x, y) == x ^^ y
MCRoutines == {"daa", "das", "aas", "aaa", "aam"}

\* 00, 05, 09, 49, 50, 64, 66, 95 and 99: digits that carry or not at either
\* place; 64 and 66 with 95 and 99 have high digits that add up to 15.
MCPacked   == {0, 5, 9, 73, 80, 100, 102, 149, 153}
MCUnpacked == {0, 1, 4, 5, 8, 9}
=============================================================================
