----------------------------- MODULE CallStack -----------------------------
(***************************************************************************)
(* What a guest program may expect of CALL and RET: a program counter and  *)
(* a stack of return addresses that only CALL and RET touch.               *)
(***************************************************************************)
EXTENDS Integers, Sequences

CONSTANTS Address, Start

VARIABLES pc, stack

Init == pc = Start /\ stack = <<>>

\* A call opens a frame with some return address and goes anywhere.
Call ==
  /\ \E ret \in Address : stack' = Append(stack, ret)
  /\ pc' \in Address

\* Control goes to where the matching call came from.
Return ==
  /\ stack # <<>>
  /\ pc' = stack[Len(stack)]
  /\ stack' = SubSeq(stack, 1, Len(stack) - 1)

Other == pc' \in Address /\ stack' = stack

Next == Call \/ Return \/ Other

Spec == Init /\ [][Next]_<<pc, stack>>
=============================================================================
