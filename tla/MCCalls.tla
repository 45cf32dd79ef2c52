------------------------------ MODULE MCCalls ------------------------------
(***************************************************************************)
(* Guests for Calls with bytes of three values, so 81 addresses.           *)
(***************************************************************************)
EXTENDS Calls, TLC

Op(k, s, r, v) == [kind |-> k, size |-> s, reg |-> r, index |-> NoReg, scale |-> 1, val |-> v]
Reg(r)    == Op("reg", 4, r, 0)
Reg16(r)  == Op("reg", 2, r, 0)
Imm(v)    == Op("imm", 4, NoReg, v)
Mem(r, v) == Op("mem", 4, r, v)
None      == Imm(0)
Ins(op, d, s) == [op |-> op, size |-> 1, dst |-> d, src |-> s]
One(op, d)    == Ins(op, d, None)

MCHostData == {[a \in Addr |-> 2]}

\* Any program that runs prologues at 64, bodies at 65 and epilogues at 66.
Prologue == {One("push", Imm(64)), Ins("sub", Reg("esp"), Imm(4)), One("jmp", Imm(66))}
Body     == {One("call", Imm(64)), Ins("mov", Reg("ebp"), Reg("esp")),
             One("push", Op("imm", 2, NoReg, 80)), Ins("mov", Mem("ebp", 4), Imm(80)),
             One("pop", Mem("esp", 4)), One("enter", None)}
Epilogue == {One("pop", Reg("ebp")), One("leave", None), One("ret", Imm(0)),
             One("ret", Imm(4)), One("jmp", Imm(64)), Ins("add", Reg("esp"), Imm(4))}
AnyProgram == [a \in Addr |-> CASE a = 64 -> Prologue [] a = 65 -> Body
                                [] a = 66 -> Epilogue [] OTHER -> {}]
=============================================================================
