------------------------------- MODULE Calls -------------------------------
(***************************************************************************)
(* The instruction loop under guests that keep the calling convention.     *)
(* frames records, for every call that has not returned, the stack slot    *)
(* call_i wrote and the address it stored.  A disciplined guest            *)
(*   - returns only with esp at the slot of the last call,                 *)
(*   - never moves esp above that slot otherwise,                          *)
(*   - stores through memory operands and buffers outside the live slots,  *)
(*   - has room on the stack for what it pushes.                           *)
(* Nothing is assumed of the stores the emulator makes on its own account: *)
(* that push, pushad, call and the rest leave the slots alone is checked.  *)
(***************************************************************************)
EXTENDS Cpu, Sequences

VARIABLE frames

vars == <<mem, regs, eip, status, frames>>

\* Where the last call that has not returned left its return address.
Slots == {frames[k].slot : k \in 1..Len(frames)}
Top   == frames[Len(frames)]

\* The bytes an instruction stores through an operand of the guest.
Stores(i) ==
  CASE i.op \in {"mov", "pop"} /\ i.dst.kind # "reg" -> Range4(eff_addr(i.dst))
    [] i.op = "int" /\ regs["eax"] = SYS_read -> Buffer(regs["edx"])
    [] OTHER -> {}

\* The bytes an instruction pushes.
Pushes(i) ==
  CASE i.op = "pushad" -> 32
    [] i.op = "call" -> 4
    [] i.op = "push" -> IF i.dst.size = 2 THEN 2 ELSE 4
    [] OTHER -> 0

Disciplined(i) ==
  /\ \A s \in Slots : Stores(i) \cap Range4(s) = {}
  /\ Pushes(i) <= esp
  /\ i.op = "ret" => frames # <<>> /\ esp = Top.slot
  /\ regs'["esp"] <= STACK_BOTTOM
  /\ \A k \in 1..Len(frames) :
       (i.op = "ret" /\ k = Len(frames)) \/ regs'["esp"] <= frames[k].slot

Enter(i) == frames' = Append(frames, [slot |-> Minus(esp, 4), ret |-> NextEip(i)])
Leave    == frames' = SubSeq(frames, 1, Len(frames) - 1)

GuestStep(i) ==
  /\ Step(i)
  /\ Disciplined(i)
  /\ CASE i.op = "call" -> Enter(i)
       [] i.op = "ret"  -> Leave
       [] OTHER -> frames' = frames

Stop == DisasmFails /\ frames' = frames

Init == CpuInit /\ frames = <<>>

Next == (\E i \in Code[eip] : GuestStep(i)) \/ Stop

Spec == Init /\ [][Next]_vars

---------------------------------------------------------------------------

TypeOK ==
  /\ CpuTypeOK
  /\ frames \in Seq([slot : Addr, ret : Addr])

\* The return address of every call that has not returned is still where
\* call_i pushed it, whatever was pushed, popped and stored since.
FramesIntact ==
  \A k \in 1..Len(frames) : read32(mem, frames[k].slot) = frames[k].ret

\* The live slots are nested: below the stack bottom, each call's four bytes
\* under those of its caller, and none below esp.
FramesNested ==
  /\ esp <= STACK_BOTTOM
  /\ \A k \in 1..Len(frames) :
       esp <= frames[k].slot /\ frames[k].slot + 4 <= STACK_BOTTOM
  /\ \A j, k \in 1..Len(frames) : j < k => frames[k].slot + 4 <= frames[j].slot

\* RET continues after the matching CALL, and nothing else changes the calls
\* that are open.
Returns == INSTANCE CallStack WITH
  Address <- Addr, Start <- Entry,
  pc <- eip, stack <- [k \in 1..Len(frames) |-> frames[k].ret]

RefinesCallStack == Returns!Spec
=============================================================================
