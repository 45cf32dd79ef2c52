------------------------------- MODULE Loader -------------------------------
(***************************************************************************)
(* The start of the emulator: main of src/src/proc.c, and src/src/loader.c,*)
(* which copies an ELF or a raw file into the guest's memory, lists the    *)
(* executable sections and the symbols for the debugger, and builds the    *)
(* stack a Linux program finds at its entry: argc, argv, envp and the      *)
(* auxiliary vector, over the strings they point to.                       *)
(*                                                                         *)
(* A string is a sequence of bytes other than 0.  An ELF file is a record  *)
(* of what the loader reads of it.  What the code leaves uninitialised is  *)
(* any member of Garbage.                                                  *)
(***************************************************************************)
EXTENDS Memory, SequencesExt

CONSTANTS STACK_BOTTOM,
          CommandLines,   \* [mode, args, env]: argv[1], argv[2..] and envp
          Files,          \* what argv[2] may name
          Auxvs,          \* the host's auxiliary vectors, without AT_NULL
          Platform,       \* the string "x86"
          Garbage

ElfSymbol  == [name : STRING, value : Addr, type : STRING]
ElfSection == [type : STRING, exec : BOOLEAN, addr : Addr, size : Addr, syms : Seq(ElfSymbol)]
ElfSegment == [type : STRING, vaddr : Addr, offset : Nat, filesz : Nat, memsz : Nat]
AuxvEntry  == [type : 1..52, val : Nat]
Text       == Seq(Byte \ {0})

\* What the loader believes of a file without a test: the headers are words, a
\* section has a list of symbols, an empty one if it is no symbol table, and
\* the loadable segments are in the file, no larger there than in memory, and
\* apart from each other.
ValidElf(f) ==
  /\ f.bytes \in Seq(Byte) /\ f.entry \in Addr
  /\ f.phoff \in Nat /\ f.phentsize \in Addr /\ Len(f.phdrs) \in Addr
  /\ f.shdrs \in Seq(ElfSection) /\ f.phdrs \in Seq(ElfSegment)
  /\ \A i \in DOMAIN f.phdrs :
       LET h == f.phdrs[i] IN
         h.type = "LOAD" =>
           /\ h.filesz <= h.memsz /\ h.offset + h.filesz <= Len(f.bytes)
           /\ \A j \in DOMAIN f.phdrs :
                j # i /\ f.phdrs[j].type = "LOAD" =>
                  \/ h.vaddr + h.memsz <= f.phdrs[j].vaddr
                  \/ f.phdrs[j].vaddr + f.phdrs[j].memsz <= h.vaddr

\* The host passes strings and words, and an auxiliary vector with types that
\* getters[] has a function for: the code indexes it without a check.
ASSUME LoaderAssumption ==
  /\ STACK_BOTTOM \in Addr /\ Garbage \subseteq Addr
  /\ Platform \in Text /\ Auxvs \subseteq Seq(AuxvEntry)
  /\ \A c \in CommandLines : c.args \in Seq(Text) /\ c.env \in Seq(Text)
  /\ \A f \in Files : f.kind = "ELF32" => ValidElf(f)

VARIABLES mem, esp, eip,
          status,         \* "start", "running", or how main ended
          sheader,        \* the executable sections: address and size
          symbols,        \* name and address, for the debugger
          given           \* history: command line, file and auxiliary vector

loaderVars == <<mem, esp, eip, status, sheader, symbols, given>>

Zeros == [a \in Addr |-> 0]

---------------------------------------------------------------------------
(* Writing below esp.  A stack is memory, esp and the addresses of the     *)
(* strings pushed last.                                                    *)

Below(a, n) == (a + N - n) % N

memcpy(m, a, bytes) ==
  [x \in Addr |-> IF Below(x, a) < Len(bytes) THEN bytes[Below(x, a) + 1] ELSE m[x]]

PushBytes(s, bytes) ==
  LET e == Below(s.esp, Len(bytes))
  IN [s EXCEPT !.mem = memcpy(@, e, bytes), !.esp = e]

Push(s, v) ==
  LET e == Below(s.esp, 4) IN [s EXCEPT !.mem = write32(@, e, v), !.esp = e]

\* Mutant of PushString: the terminating zero is not counted.
PushStringOpen(str, s) ==
  LET t == PushBytes(s, str) IN [t EXCEPT !.ptrs = <<t.esp>> \o @]

\* A string with its terminating zero; its address goes into the array.
PushString(str, s) ==
  LET t == PushBytes(s, str \o <<0>>) IN [t EXCEPT !.ptrs = <<t.esp>> \o @]

\* The last one first.
PushStrings(s, strs) ==
  LET n == Len(strs)
      pushed[k \in 0..n] == IF k = 0 THEN [s EXCEPT !.ptrs = <<>>]
                            ELSE PushString(strs[n - k + 1], pushed[k - 1])
  IN pushed[n]

PushWords(s, words) ==
  LET n == Len(words)
      pushed[k \in 0..n] == IF k = 0 THEN s ELSE Push(pushed[k - 1], words[n - k + 1])
  IN pushed[n]

---------------------------------------------------------------------------
(* The auxiliary vector *)

\* The function getters[] has for an entry of the host's vector.  g has the
\* globals the functions return; execfn is never assigned and is 0.
getters(x, g) ==
  CASE x.type = 3  -> g.ph_addr              \* AT_PHDR
    [] x.type = 4  -> g.ph_size              \* AT_PHENT
    [] x.type = 5  -> g.ph_num               \* AT_PHNUM
    [] x.type = 7  -> 0                      \* AT_BASE
    [] x.type = 9  -> g.eip                  \* AT_ENTRY
    [] x.type \in {15, 24} -> g.platform_addr
    [] x.type = 25 -> g.rr                   \* AT_RANDOM
    [] x.type = 31 -> 0                      \* AT_EXECFN
    [] OTHER -> x.val % N

SysInfo == {32, 33}                          \* "Dont push SYS and VDSO pointers"

\* The entries that are passed on, in the host's order.
Kept(auxv) ==
  LET kept[k \in 0..Len(auxv)] ==
        IF k = 0 THEN <<>>
        ELSE IF auxv[k].type \in SysInfo THEN kept[k - 1] ELSE Append(kept[k - 1], auxv[k])
  IN kept[Len(auxv)]

\* Mutant of PushEntry: a type is pushed before its value.
PushEntrySwapped(s, g, x) == Push(Push(s, x.type), getters(x, g))

PushEntry(s, g, x) == Push(Push(s, getters(x, g)), x.type)

\* AT_NULL is pushed first, then a value and a type for every entry.
read_auxv(s, g, auxv) ==
  LET kept == Kept(auxv)
      n == Len(kept)
      pushed[k \in 0..n] == IF k = 0 THEN Push(Push(s, 0), 0)
                            ELSE PushEntry(pushed[k - 1], g, kept[k])
  IN pushed[n]

\* args is the emulator's argv from argv[2] on.  argv_emu[1] is pushed
\* although the loop that fills the array stops before it.
load_stack(s, args, env, auxv, g, random, argv1) ==
  LET e == PushStrings(s, env)
      a == PushStrings(e, args)
      p == PushBytes(a, Platform \o <<0>>)
      r == Push(Push(p, random[1]), random[2])
      x == read_auxv([r EXCEPT !.esp = @ - (@ % 4)],
                     [g EXCEPT !.platform_addr = p.esp, !.rr = r.esp], auxv)
      v == PushWords(x, e.ptrs \o <<0>>)
  IN Push(PushWords(v, <<argv1>> \o a.ptrs \o <<0>>), Len(args) + 1)

\* The bytes the strings take, each with its zero.
StringBytes(strs) ==
  LET n == Len(strs)
      size[k \in 0..n] == IF k = 0 THEN 0 ELSE size[k - 1] + Len(strs[n - k + 1]) + 1
  IN size[n]

\* The bytes load_stack writes, with at most three of padding.
StackSize(args, env, auxv) ==
  StringBytes(env) + StringBytes(args) + Len(Platform) + 12
    + 8 * (Len(Kept(auxv)) + 1) + 4 * (Len(env) + 1) + 4 * (Len(args) + 2) + 4

---------------------------------------------------------------------------
(* Files *)

Loads(elf) == SelectSeq(elf.phdrs, LAMBDA h : h.type = "LOAD")

\* Mutant of LoadSegment: as many bytes are read as the segment has in memory.
LoadSegmentMemsz(m, elf, h) ==
  IF h.type = "LOAD"
    THEN memcpy(m, h.vaddr, SubSeq(elf.bytes, h.offset + 1, h.offset + h.memsz)) ELSE m

\* The bytes a loadable segment has in the file.
LoadSegment(m, elf, h) ==
  IF h.type = "LOAD"
    THEN memcpy(m, h.vaddr, SubSeq(elf.bytes, h.offset + 1, h.offset + h.filesz)) ELSE m

LoadImage(elf) ==
  LET n == Len(elf.phdrs)
      loaded[k \in 0..n] == IF k = 0 THEN Zeros ELSE LoadSegment(loaded[k - 1], elf, elf.phdrs[k])
  IN loaded[n]

\* The globals the auxiliary vector is made of.
Globals(elf) ==
  [ph_addr |-> IF elf.phdrs # <<>> /\ elf.phdrs[1].type = "LOAD"
                 THEN (elf.phdrs[1].vaddr + elf.phoff) % N ELSE 0,
   ph_size |-> elf.phentsize, ph_num |-> Len(elf.phdrs), eip |-> elf.entry,
   platform_addr |-> 0, rr |-> 0]

\* progbits[]: where the first segment begins and the last one ends.  With
\* one segment the second element is not initialised.
progbits(elf, garbage) ==
  LET h == Loads(elf)
  IN <<Head(h).vaddr, IF Len(h) = 1 THEN garbage ELSE Last(h).vaddr + Last(h).filesz>>

ExecSections(elf) ==
  LET s == SelectSeq(elf.shdrs, LAMBDA h : h.type = "PROGBITS" /\ h.exec)
  IN [i \in DOMAIN s |-> <<s[i].addr, s[i].size>>]

\* The last symbol table counts.
Symtab(elf) == elf.shdrs[Max({i \in DOMAIN elf.shdrs : elf.shdrs[i].type = "SYMTAB"})].syms

\* Functions, and symbols without type that lie in the segments, in the order
\* of the table.
Wanted(elf, bits) ==
  LET syms == Symtab(elf)
      Keep(y) == \/ y.type = "FUNC"
                 \/ y.type = "NOTYPE" /\ y.value >= bits[1] /\ y.value <= bits[2]
      found[k \in 0..Len(syms)] ==
        IF k = 0 THEN <<>>
        ELSE IF Keep(syms[k])
             THEN Append(found[k - 1], [name |-> syms[k].name, value |-> syms[k].value])
             ELSE found[k - 1]
  IN found[Len(syms)]

\* Mutant of Exchange: the addresses change places, the names stay.
ExchangeAddresses(s, i) ==
  LET j == CHOOSE j \in i..Len(s) :
             /\ \A k \in i..Len(s) : s[j].value <= s[k].value
             /\ \A k \in i..(j - 1) : s[k].value > s[j].value
  IN [s EXCEPT ![i].value = s[j].value, ![j].value = s[i].value]

\* One round of the selection sort: the first of the smallest addresses from
\* i on changes places with i.
Exchange(s, i) ==
  LET j == CHOOSE j \in i..Len(s) :
             /\ \A k \in i..Len(s) : s[j].value <= s[k].value
             /\ \A k \in i..(j - 1) : s[k].value > s[j].value
  IN [s EXCEPT ![i] = s[j], ![j] = s[i]]

\* Without symbols the bound (*ccc)-1 wraps and the rounds find nothing.
Sort(s) ==
  LET round[k \in 0..Len(s)] == IF k = 0 THEN s ELSE Exchange(round[k - 1], k)
  IN round[IF s = <<>> THEN 0 ELSE Len(s) - 1]

---------------------------------------------------------------------------
(* Operations *)

\* log.txt or the file cannot be opened, or there is no memory.
Refused(c) ==
  /\ status' = "failed"
  /\ given' = [given EXCEPT !.line = c]
  /\ UNCHANGED <<mem, esp, eip, sheader, symbols>>

\* Only the debugger asks for symbols.  A file without symbol table is left
\* out there: the section headers used for it are not initialised.
read_elf_file(c, elf, auxv, garbage) ==
  /\ elf.kind = "ELF32"
  /\ c.mode = "-ie" => \E i \in DOMAIN elf.shdrs : elf.shdrs[i].type = "SYMTAB"
  /\ LET s == load_stack([mem |-> LoadImage(elf), esp |-> STACK_BOTTOM, ptrs |-> <<>>],
                         c.args, c.env, auxv, Globals(elf), <<garbage, garbage>>, garbage)
     IN mem' = s.mem /\ esp' = s.esp
  /\ eip' = elf.entry
  /\ sheader' = ExecSections(elf)
  /\ symbols' = IF c.mode = "-ie" THEN Sort(Wanted(elf, progbits(elf, garbage))) ELSE <<>>
  /\ status' = "running"
  /\ given' = [line |-> c, file |-> elf, auxv |-> auxv, bits |-> progbits(elf, garbage)]

\* A raw file is copied to address 0 and gets no arguments.
read_raw_file(c, file) ==
  /\ mem' = memcpy(Zeros, 0, file.bytes)
  /\ esp' = STACK_BOTTOM /\ eip' = 0
  /\ status' = "running"
  /\ given' = [given EXCEPT !.line = c, !.file = file]
  /\ UNCHANGED <<sheader, symbols>>

\* The file ends before the size that was found.
ShortRead(c, file, n) ==
  /\ n < Len(file.bytes)
  /\ mem' = memcpy(Zeros, 0, SubSeq(file.bytes, 1, n))
  /\ esp' = STACK_BOTTOM
  /\ status' = "failed"
  /\ given' = [given EXCEPT !.line = c, !.file = file]
  /\ UNCHANGED <<eip, sheader, symbols>>

Ended(c, how) ==
  /\ status' = how
  /\ given' = [given EXCEPT !.line = c]
  /\ UNCHANGED <<mem, esp, eip, sheader, symbols>>

ElfModes == {"-ie", "-ne"}
RawModes == {"-ir", "-nr"}

main(c) ==
  /\ status = "start"
  /\ \/ c.mode = "-h" /\ Ended(c, "help")
     \/ /\ c.mode # "-h"
        /\ c.args = <<>> \/ c.mode \notin ElfModes \cup RawModes
        /\ Ended(c, "usage")
     \/ /\ c.args # <<>> /\ c.mode \in ElfModes
        /\ \E elf \in Files :
             \/ \E auxv \in Auxvs, garbage \in Garbage : read_elf_file(c, elf, auxv, garbage)
             \/ elf.kind # "ELF32" /\ Refused(c)
     \/ /\ c.args # <<>> /\ c.mode \in RawModes
        /\ \E file \in Files :
             \/ read_raw_file(c, file)
             \/ \E n \in {0, Len(file.bytes) - 1} : ShortRead(c, file, n)
     \/ c.args # <<>> /\ c.mode \in ElfModes \cup RawModes /\ Refused(c)

LoaderInit ==
  /\ mem = Zeros /\ esp = STACK_BOTTOM /\ eip = 0
  /\ status = "start"
  /\ sheader = <<>> /\ symbols = <<>>
  /\ given = [line |-> <<>>, file |-> <<>>, auxv |-> <<>>, bits |-> <<>>]

---------------------------------------------------------------------------
(* What a guest finds *)

\* The string at an address: the bytes before the first zero.
StringAt(m, a) ==
  LET n == CHOOSE n \in Addr : m[At(a, n)] = 0 /\ \A k \in 0..(n - 1) : m[At(a, k)] # 0
  IN [k \in 1..n |-> m[At(a, k - 1)]]

Word(k) == read32(mem, At(esp, 4 * k))
argc    == Word(0)
Argv(i) == Word(1 + i)
Envp(i) == Word(2 + argc + i)
Auxv(k) == Word(3 + argc + Len(given.line.env) + k)

ElfGuest == status = "running" /\ given.line.mode \in ElfModes

\* At the entry of an ELF guest esp is aligned, argv (from argv[1], the first
\* element the code fills) and envp name the strings of the command line and
\* end with a null pointer, although strings, padding and the three arrays
\* are pushed one below the other.
GuestFindsArguments ==
  ElfGuest =>
    LET args == given.line.args
        env  == given.line.env
    IN /\ esp % 4 = 0
       /\ argc = Len(args) + 1
       /\ \A i \in DOMAIN args : StringAt(mem, Argv(i)) = args[i]
       /\ Argv(argc) = 0
       /\ \A i \in DOMAIN env : StringAt(mem, Envp(i - 1)) = env[i]
       /\ Envp(Len(env)) = 0

\* The program headers of the file, as far as the first segment has them,
\* are at a.  Nothing is said of a first segment that is not the beginning of
\* the file; when the first header is not one of a segment, a is 0.
HeadersAt(a) ==
  LET f == given.file
      h == f.phdrs[1]
  IN IF f.phdrs # <<>> /\ h.type = "LOAD"
     THEN h.offset = 0 =>
            \A k \in f.phoff..(h.filesz - 1) : mem[At(a, k - f.phoff)] = f.bytes[k + 1]
     ELSE a = 0

\* The auxiliary vector begins behind envp, ends with AT_NULL, has every entry
\* of the host's but the VDSO's, and describes the guest and not the emulator:
\* AT_PHDR leads to the guest's program headers, AT_PHENT and AT_PHNUM are
\* their size and number, AT_ENTRY is its entry point, there is no
\* interpreter, and the strings are in its own memory.  AT_EXECFN is 0.
GuestFindsAuxv ==
  ElfGuest =>
    LET kept == Kept(given.auxv)
        n    == Len(kept)
    IN /\ Auxv(2 * n) = 0 /\ Auxv((2 * n) + 1) = 0
       /\ \A i \in 1..n :
            LET k == 2 * (n - i)
                type == Auxv(k)
                val  == Auxv(k + 1)
            IN /\ type = kept[i].type
               /\ type = 3 => HeadersAt(val)
               /\ type = 4 => val = given.file.phentsize
               /\ type = 5 => val = Len(given.file.phdrs)
               /\ type \in {7, 31} => val = 0
               /\ type = 9 => val = eip
               /\ type \in {15, 24} => StringAt(mem, val) = Platform
               /\ type = 25 => Below(val, esp) < Below(STACK_BOTTOM, esp)
               /\ type \notin {3, 4, 5, 7, 9, 15, 24, 25, 31} => val = kept[i].val % N

\* Building the stack leaves the image alone: every byte of a segment is the
\* file's, and the rest of a segment (.bss) is zero without being cleared.
ImageIntact ==
  ElfGuest =>
    \A i \in DOMAIN given.file.phdrs :
      LET h == given.file.phdrs[i] IN
        h.type = "LOAD" =>
          \A k \in 0..(h.memsz - 1) :
            mem[h.vaddr + k] = IF k < h.filesz THEN given.file.bytes[h.offset + k + 1] ELSE 0

\* The debugger looks symbols up by address: they are in order, and none is
\* lost, doubled or given the name of another.
SymbolsSorted ==
  status = "running" /\ given.line.mode = "-ie" =>
    LET all == Wanted(given.file, given.bits) IN
      /\ \A i, j \in DOMAIN symbols : i < j => symbols[i].value <= symbols[j].value
      /\ Len(symbols) = Len(all)
      /\ \A y \in ToSet(all) :
           Cardinality({i \in DOMAIN symbols : symbols[i] = y})
             = Cardinality({i \in DOMAIN all : all[i] = y})
=============================================================================
