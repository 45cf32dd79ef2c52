------------------------------ MODULE Strings ------------------------------
(***************************************************************************)
(* The string instructions of src/src/instr.c: MOVS, STOS, LODS, CMPS and  *)
(* SCAS, and the REP forms of MOVS and STOS.  A REP handler executes one   *)
(* element and leaves eip where it is until ecx is zero, so the            *)
(* instruction loop comes back to it, and the debugger's s stops between   *)
(* two elements.                                                           *)
(*                                                                         *)
(* A guest executes one string instruction of Ops, then stops; CMPS it     *)
(* executes ecx times in a row, each followed by a JNE that leaves.  An    *)
(* element that straddles the end of the address space leaves the          *)
(* allocation in the code; the guests keep their blocks away from it.      *)
(***************************************************************************)
EXTENDS Memory, Flags

CONSTANTS ByteBits,    \* bits of a byte, 8 in the code
          Ops,         \* the instructions: [op, size]
          EsBase,      \* get_gdt_base(es), zero in the table of init_gdt
          Memories,    \* initial memories
          Pointers,    \* initial esi and edi
          Accumulators,\* initial eax
          MaxCount     \* bound on ecx

ASSUME StringsAssumption ==
  /\ ByteBits \in Nat /\ Radix = 2 ^ ByteBits
  /\ Ops \subseteq [op : {"movs", "stos", "lods", "cmps", "scas", "rep movs", "rep stos"},
                   size : {1, 2, 4}]
  /\ EsBase \in Addr /\ Pointers \subseteq Addr /\ Accumulators \subseteq Addr
  /\ Memories \subseteq [Addr -> Byte]
  /\ MaxCount \in 1..(N - 1)

\* The guests' blocks, in either direction, and the bytes a pointer stands at
\* when they are done, stay inside the address space.
ASSUME BlocksAssumption ==
  \A p \in Pointers : 4 * MaxCount <= p /\ EsBase + p + 4 * MaxCount < N

VARIABLES mem, eax, ecx, esi, edi, eflags,
          insn,        \* the instruction at eip
          retired,     \* whether eip moved past it
          start        \* history: memory and registers before it

vars == <<mem, eax, ecx, esi, edi, eflags, insn, retired, start>>

\* "Assuming ECX holds a positive value".
Init ==
  /\ mem \in Memories
  /\ eax \in Accumulators /\ ecx \in 1..MaxCount
  /\ esi \in Pointers /\ edi \in Pointers
  /\ eflags \in {InitialEflags, InitialEflags \cup {"DF"}}
  /\ insn \in Ops /\ retired = FALSE
  /\ start = [mem |-> mem, esi |-> esi, edi |-> edi, ecx |-> ecx]

---------------------------------------------------------------------------

Digit(v, k) ==
  CASE k = 0 -> Byte0(v) [] k = 1 -> Byte1(v) [] k = 2 -> Byte2(v) [] OTHER -> Byte3(v)

\* How far a lies above b.
Above(a, b) == (a - b) % N

\* One element stored at a: the bytes data gives, from the lowest.
Stored(a, s, data(_)) ==
  [x \in Addr |-> IF Above(x, a) < s THEN data(Above(x, a)) ELSE mem[x]]

df == test_Flag(eflags, "DF")

\* DF chooses the direction.
Advance(p, s) == IF df THEN (p - s) % N ELSE (p + s) % N

\* Mutant of MoveElement: esi stays.
MoveElementSameSource(s) ==
  /\ mem' = Stored(edi, s, LAMBDA k : mem[At(esi, k)])
  /\ edi' = Advance(edi, s)
  /\ UNCHANGED <<eax, esi, eflags>>

MoveElement(s) ==
  /\ mem' = Stored(edi, s, LAMBDA k : mem[At(esi, k)])
  /\ esi' = Advance(esi, s) /\ edi' = Advance(edi, s)
  /\ UNCHANGED <<eax, eflags>>

\* Mutant of StoreElement: every byte of the element is AL.
StoreElementLowByte(s) ==
  /\ mem' = Stored(At(EsBase, edi), s, LAMBDA k : Digit(eax, 0))
  /\ edi' = Advance(edi, s)
  /\ UNCHANGED <<eax, esi, eflags>>

StoreElement(s) ==
  /\ mem' = Stored(At(EsBase, edi), s, LAMBDA k : Digit(eax, k))
  /\ edi' = Advance(edi, s)
  /\ UNCHANGED <<eax, esi, eflags>>

At_eip(op) == insn.op = op /\ ~retired /\ UNCHANGED <<insn, start>>

Once == retired' = TRUE /\ UNCHANGED ecx

\* Mutant of Repeat: the last element is left out.
RepeatShort == ecx' = (ecx - 1) % N /\ retired' = (ecx' <= 1)

\* ecx is decremented after the element; eip moves on when it is zero.
Repeat == ecx' = (ecx - 1) % N /\ retired' = (ecx' = 0)

movs_i     == At_eip("movs") /\ MoveElement(insn.size) /\ Once
stos_i     == At_eip("stos") /\ StoreElement(insn.size) /\ Once
rep_movs_i == At_eip("rep movs") /\ MoveElement(insn.size) /\ Repeat
rep_stos_i == At_eip("rep stos") /\ StoreElement(insn.size) /\ Repeat

\* LODSB, LODSW and LODSD load the element; esi stays.
Size(s) == CASE s = 1 -> Radix [] s = 2 -> Half [] OTHER -> N

lods_i ==
  /\ At_eip("lods")
  /\ eax' = (eax - (eax % Size(insn.size))) + (read32(mem, esi) % Size(insn.size))
  /\ UNCHANGED <<mem, esi, edi, eflags>>
  /\ Once

\* The element of s bytes at p.
Element(p, s) == read32(mem, p) % Size(s)

\* Flags of a comparison; res has bits bits for CMPS and is a uint32_t for
\* SCAS, whatever the size.
Compared(a, b, res, bits) ==
  [CF |-> a < b, OF |-> overflow(a, b, res, bits), SF |-> sign(res, bits),
   ZF |-> zero(res), AF |-> adjust(a, b, res), PF |-> parity(res)]

\* Mutant of cmps_i: edi stays.
cmps_iSameSource ==
  LET s == insn.size  a == Element(esi, s)  b == Element(edi, s) IN
    /\ At_eip("cmps")
    /\ eflags' = Update(eflags, Compared(a, b, (a - b) % Size(s), ByteBits * s))
    /\ esi' = Advance(esi, s)
    /\ retired' = (a # b \/ Above(esi', start.esi) = ecx * s \/ Above(start.esi, esi') = ecx * s)
    /\ UNCHANGED <<mem, eax, ecx, edi>>

\* CMPSB, CMPSW and CMPSD, and the guest's JNE.
cmps_i ==
  LET s == insn.size  a == Element(esi, s)  b == Element(edi, s) IN
    /\ At_eip("cmps")
    /\ eflags' = Update(eflags, Compared(a, b, (a - b) % Size(s), ByteBits * s))
    /\ esi' = Advance(esi, s) /\ edi' = Advance(edi, s)
    /\ retired' = (a # b \/ Above(esi', start.esi) = ecx * s \/ Above(start.esi, esi') = ecx * s)
    /\ UNCHANGED <<mem, eax, ecx>>

\* edi stays, as esi in LODS.
scas_i ==
  LET s == insn.size  a == eax % Size(s)  b == Element(edi, s) IN
    /\ At_eip("scas")
    /\ eflags' = Update(eflags, Compared(a, b, (a - b) % N, ByteBits * s))
    /\ UNCHANGED <<mem, eax, esi, edi>>
    /\ Once

Next == movs_i \/ stos_i \/ lods_i \/ cmps_i \/ scas_i \/ rep_movs_i \/ rep_stos_i

\* The instruction loop does not stop between two elements.
Spec == Init /\ [][Next]_vars /\ WF_vars(Next)

---------------------------------------------------------------------------

\* Bytes moved or stored so far, and in all.
Done  == (start.ecx - ecx) * insn.size
Total == start.ecx * insn.size

\* The lowest address of a block of n bytes that begins with the element at p.
Lowest(p, n) == IF df THEN p - (n - insn.size) ELSE p

\* No byte of the source is overwritten before it is read: the blocks are
\* disjoint or the direction leads away from the overlap.
Safe ==
  LET s == Lowest(start.esi, Total)  d == Lowest(start.edi, Total) IN
    \/ d + Total <= s \/ s + Total <= d
    \/ df /\ d >= s
    \/ ~df /\ d <= s

\* At every element, REP MOVS has moved exactly the part of the block it has
\* counted off ecx, as memmove would, and nothing else; the pointers and ecx
\* say where to go on.  So it may be stopped and resumed between elements.
MovesLikeMemmove ==
  insn.op = "rep movs" /\ Safe =>
    LET s == Lowest(start.esi, Done)  d == Lowest(start.edi, Done) IN
      /\ \A x \in Addr :
           mem[x] = IF x \in d..(d + Done - 1) THEN start.mem[s + (x - d)] ELSE start.mem[x]
      /\ esi = (IF df THEN start.esi - Done ELSE start.esi + Done)
      /\ edi = (IF df THEN start.edi - Done ELSE start.edi + Done)

\* REP STOS has filled exactly the part of the block it has counted off ecx.
FillsLikeMemset ==
  insn.op = "rep stos" =>
    LET d == EsBase + Lowest(start.edi, Done) IN
      \A x \in Addr :
        mem[x] = IF x \in d..(d + Done - 1) THEN Digit(eax, (x - d) % insn.size) ELSE start.mem[x]

\* A chain of CMPS left by JNE is memcmp: it has passed equal elements only,
\* in the direction of DF, ZF tells whether the last pair is equal and CF
\* which of the two is smaller; SCAS compares the accumulator likewise.
ComparesLikeMemcmp ==
  LET s == insn.size
      n == IF df THEN Above(start.esi, esi) ELSE Above(esi, start.esi)
      k(i) == IF df THEN -i ELSE i
      A(i) == Element(start.esi + k(i), s)
      B(i) == Element(start.edi + k(i), s)
      Says(a, b) == ("ZF" \in eflags) = (a = b) /\ ("CF" \in eflags) = (a < b)
  IN /\ insn.op = "cmps" /\ n > 0 =>
          /\ \A i \in 0..(n - 2 * s) : i % s = 0 => A(i) = B(i)
          /\ Says(A(n - s), B(n - s))
          /\ retired /\ n < Total => A(n - s) # B(n - s)
     /\ insn.op = "scas" /\ retired => Says(eax % Size(s), Element(edi, s))

\* A repeated instruction whose count is positive comes to an end, with ecx
\* used up.
RepeatEnds ==
  <>(retired /\ (insn.op \in {"rep movs", "rep stos"} => ecx = 0))
=============================================================================
