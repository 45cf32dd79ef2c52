----------------------------- MODULE MCStrings -----------------------------
(***************************************************************************)
(* Blocks of up to three elements in the middle of 256 bytes, over a       *)
(* pattern that repeats and one that no shift of a block leaves alone.     *)
(***************************************************************************)
EXTENDS Strings

MCOps      == [op : {"movs", "stos", "lods", "cmps", "scas", "rep movs", "rep stos"},
               size : {1, 2, 4}]
MCMemories == {[a \in Addr |-> a % 3], [a \in Addr |-> ((a * a) + (a \div 5)) % Radix]}
MCPointers == 120..126

\* Zero, and a word whose bytes differ (2, 3, 0, 1 from the lowest).
MCAccumulators == {0, 78}
=============================================================================
