------------------------------ MODULE MCWords ------------------------------
(***************************************************************************)
(* Operands of 3, 6 and 8 bits stand for 8, 16 and 32.                     *)
(***************************************************************************)
EXTENDS Words, TLC

MCWidth      == 1 :> 3 @@ 2 :> 6 @@ 4 :> 8
MCAccums     == {0, 1, 3, 4, 7, 31, 32, 57, 63, 100, 127, 128, 191, 224, 255}
MCDatas      == {0, 1, 5, 31, 32, 63, 127, 128, 192, 255}
MCOperands   == {0, 1, 2, 3, 4, 6, 7, 31, 32, 62, 63, 127, 128, 129, 192, 254, 255}
MCImmediates == {0, 1, 4, 31, 63, 128}
=============================================================================
