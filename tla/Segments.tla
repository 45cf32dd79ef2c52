------------------------------ MODULE Segments ------------------------------
(***************************************************************************)
(* The global descriptor table (init_gdt, get_gdt_base and get_gdt_limit   *)
(* of src/src/instr.c), the system call that hands out its entries for     *)
(* thread-local storage (do_set_thread_area of src/src/syscall.c) and the  *)
(* instructions that look at it.                                           *)
(*                                                                         *)
(* A descriptor keeps its base in three parts, of two, one and one byte.   *)
(* Its access and granularity bytes are written and never read: they are   *)
(* left out.  The table is where gdtr says.  Memory is counted in          *)
(* descriptors here: a place is where one fits, and a table starts at a    *)
(* place and goes on over the next ones.  The guests modelled here write   *)
(* to these places with set_thread_area only.                              *)
(***************************************************************************)
EXTENDS Memory

CONSTANTS GdtEntries,   \* GDT_ENTRIES, 9
          TlsReserved,  \* GDT_TLS_RESERVED, 3: the last entries of the table
          IndexSize,    \* 256: an index into the table is a uint8_t
          GdtPlaces,    \* the places where guests put a table
          GDT_ADDR      \* the one where init_gdt puts it

ASSUME GdtAssumption ==
  /\ GdtEntries \in Nat /\ TlsReserved \in Nat /\ IndexSize \in Nat
  /\ 0 < TlsReserved /\ TlsReserved < GdtEntries /\ GdtEntries < IndexSize
  /\ IndexSize <= N
  /\ GdtPlaces \subseteq Nat /\ GDT_ADDR \in GdtPlaces

VARIABLES gdt,          \* the descriptor at each place
          gdtr,         \* the place of the table
          gs,           \* the selector in gs
          asked,        \* history: the base last asked for, by place
          seen          \* history: the last operation and its result

segVars == <<gdt, gdtr, gs, asked, seen>>

Entries    == 0..(GdtEntries - 1)
TlsEntries == (GdtEntries - TlsReserved)..(GdtEntries - 1)
Indices    == 0..(IndexSize - 1)
Places     == {t + i : t \in GdtPlaces, i \in Indices}
NoEntry    == -1                             \* entry_number of a request for any entry
Requested  == (Addr \ {N - 1}) \cup {NoEntry}
Descriptor == [limit_low : 0..(Half - 1), base_low : 0..(Half - 1),
               base_mid : Byte, base_high : Byte, used : BOOLEAN]

\* Flat segments, and a null descriptor without a limit; the rest of the
\* memory is zero.
init_gdt ==
  [p \in Places |->
     [limit_low |-> IF p - GDT_ADDR \in Entries \ {0} THEN Half - 1 ELSE 0,
      base_low |-> 0, base_mid |-> 0, base_high |-> 0, used |-> FALSE]]

SegInit ==
  /\ gdt = init_gdt /\ gdtr = GDT_ADDR
  /\ gs = 0
  /\ asked = [p \in Places |-> 0]
  /\ seen = [op |-> "none"]

\* The selector of an entry, with the privilege of a user program.
Selector(e) == 8 * e + 3
Number(sel) == sel \div 8                    \* descriptor number, bits 15-3
Found(sel)  == gdt[gdtr + (Number(sel) % GdtEntries)]

\* Mutant of get_gdt_base: the high part is shifted by two bytes, not three.
get_gdt_baseLow(sel) ==
  LET d == Found(sel) IN d.base_low + Half * (d.base_mid + d.base_high)

get_gdt_base(sel) ==
  LET d == Found(sel) IN d.base_low + Half * (d.base_mid + Radix * d.base_high)

get_gdt_limit(sel) == Found(sel).limit_low

\* A memory operand with a segment override.
eff_addr(sel, base, index, scale, disp) ==
  (get_gdt_base(sel) + base + index * scale + disp) % N

---------------------------------------------------------------------------
(* set_thread_area *)

\* Mutant of Free: entries that are in use are handed out again.
FreeOrUsed == TlsEntries

Free == {e \in TlsEntries : ~gdt[gdtr + e].used}

\* Mutant of Descr: the middle part of the base is taken from the low half.
DescrShifted(base, limit) ==
  [limit_low |-> limit % Half, base_low |-> base % Half,
   base_mid |-> Byte1(base), base_high |-> Byte3(base), used |-> TRUE]

\* The entry made of the guest's struct user_desc.
Descr(base, limit) ==
  [limit_low |-> limit % Half, base_low |-> base % Half,
   base_mid |-> Byte2(base), base_high |-> Byte3(base), used |-> TRUE]

\* Entry e is written, and returned in entry_number.
SetEntry(entry, e, base, limit) ==
  /\ gdt' = [gdt EXCEPT ![gdtr + e] = Descr(base, limit)]
  /\ asked' = [asked EXCEPT ![gdtr + e] = base]
  /\ seen' = [op |-> "set", entry |-> entry, index |-> e, result |-> 0]
  /\ UNCHANGED <<gdtr, gs>>

\* The search goes up from the first reserved entry and takes the first one
\* that is free.
SetFirstFree(base, limit) ==
  \E e \in Free :
    /\ \A f \in Free : e <= f
    /\ SetEntry(NoEntry, e, base, limit)

\* A number the guest gives is cut to a byte and not checked: it may be the
\* entry of the code segment, or lie past the table.
do_set_thread_area(entry, base, limit) ==
  \/ entry # NoEntry /\ SetEntry(entry, entry % IndexSize, base, limit)
  \/ entry = NoEntry /\ SetFirstFree(base, limit)
  \/ /\ entry = NoEntry /\ Free = {}
     /\ seen' = [op |-> "set", entry |-> entry, index |-> NoEntry, result |-> -1]
     /\ UNCHANGED <<gdt, gdtr, gs, asked>>

---------------------------------------------------------------------------
(* Instructions *)

\* The limit it also loads is not read by what is modelled here.
lgdt_i(table) ==
  /\ gdtr' = table
  /\ seen' = [op |-> "lgdt"]
  /\ UNCHANGED <<gdt, gs, asked>>

\* MOV to gs does not look at the table.
mov_gs(sel) ==
  /\ gs' = sel
  /\ seen' = [op |-> "mov"]
  /\ UNCHANGED <<gdt, gdtr, asked>>

Looked(op, sel, zf, value) ==
  /\ seen' = [op |-> op, sel |-> sel, zf |-> zf, value |-> value]
  /\ UNCHANGED <<gdt, gdtr, gs, asked>>

\* The register keeps its value (here 0) for a selector past the table.
lsl_i(sel) ==
  LET ok == Number(sel) < GdtEntries
  IN Looked("lsl", sel, ok, IF ok THEN get_gdt_limit(sel) ELSE 0)

\* "Contradictory manual INFO": ZF is clear for the segments of the table.
Verified(sel) == Number(sel) > 0 /\ Number(sel) < GdtEntries
verr_i(sel) == Looked("verr", sel, ~Verified(sel), 0)
verw_i(sel) == Looked("verw", sel, ~Verified(sel), 0)

Selectors == {Selector(e) : e \in 0..GdtEntries}

\* A guest loads gs with the selector of an entry of the table.
SegNext ==
  \/ \E entry \in Requested, base \in Addr, limit \in Addr :
       do_set_thread_area(entry, base, limit)
  \/ \E table \in GdtPlaces : lgdt_i(table)
  \/ \E e \in Entries : mov_gs(Selector(e))
  \/ \E sel \in Selectors : lsl_i(sel) \/ verr_i(sel) \/ verw_i(sel)

SegSpec == SegInit /\ [][SegNext]_segVars

---------------------------------------------------------------------------

SegTypeOK ==
  /\ gdt \in [Places -> Descriptor] /\ gdtr \in GdtPlaces
  /\ asked \in [Places -> Addr]
  /\ gs \in {0} \cup {Selector(e) : e \in Entries}

\* The parts a base is split into give it back: an address formed with a
\* segment is relative to the base that was last asked for at the place of
\* its descriptor, whatever entries (reserved, in use, of the code segment,
\* past the table) are requested and wherever LGDT moves the table in
\* between.  A descriptor no request has written to is flat.
SegmentBases ==
  \A e \in Entries : get_gdt_base(Selector(e)) = asked[gdtr + e]

\* So an access through gs, loaded before or after the area was set up,
\* reaches the area's byte.
GsAddresses ==
  \A disp \in Addr : eff_addr(gs, 0, 0, 1, disp) = (asked[gdtr + Number(gs)] + disp) % N

\* A request for any entry takes a reserved one that is not in use, one that
\* names an entry writes to it alone, and nothing else writes to a table:
\* areas of different threads stay apart unless a request names the entry of
\* another one.
AreasApart ==
  [][\A p \in Places :
       gdt'[p] # gdt[p] =>
         /\ seen'.op = "set" /\ gdt'[p].used
         /\ IF seen'.entry = NoEntry THEN p - gdtr \in TlsEntries /\ ~gdt[p].used
                                     ELSE p = gdtr + (seen'.entry % IndexSize)]_segVars
=============================================================================
