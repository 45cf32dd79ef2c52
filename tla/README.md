# TLA+ development for the i386 emulator

The repository is a user-level emulator of the i386 written in C: it loads an
ELF or a raw file, disassembles one instruction at a time with Capstone,
dispatches it on its mnemonic to a handler, and passes `INT 0x80` on to the
host. It runs blind (`-ne`, `-nr`) or under an interactive debugger (`-ie`,
`-ir`). The modules here model the parts below, TLC checks them on small
instances, and TLAPS proves the central properties for every instance.

## 1. Inventory

| Part | Source | State | Operations | What makes it correct |
|---|---|---|---|---|
| Flag helpers | `flags.c`, `flags.h` | `eflags` | set, clear, complement, test; zero, sign, overflow, parity, adjust | the helper computes the flag of the operation it is used for |
| Arithmetic and logic | `instr.c` | registers, memory, `eflags` | 13 handlers | exact number or bits, untouched neighbours, exact flags |
| Jcc, SETcc | `instr.c` | `eip`, a byte | 32 jumps, 29 stores | the condition is the one its name states; both families agree |
| Shifts, rotates, bit tests | `instr.c` | operand, `eflags` | 16 handlers | every bit goes where it should, for every count |
| Strings, REP | `instr.c` | memory, esi, edi, ecx, DF | MOVS, STOS, LODS, CMPS, SCAS, REP | like memmove, memset and memcmp, interruptible between elements |
| Guest memory | `instr.c` | `mem` | read16/32, write16/32 | a word read is the word written |
| Instruction loop | `proc.c`, `instr.c` | registers, `eip`, `mem` | fetch, dispatch, stack and control handlers | return addresses survive, RET undoes CALL, exit ends the loop |
| Interrupts, system calls | `interrupts.c`, `trad_syscall.c`, `syscall.c` | `idt`, `syscalls` | `int_dispatcher`, `int80`, `do_*` | results reach eax, exit reaches the loop |
| Debugger | `proc.c`, `interface.c` | `ch`, `old_ch`, `focus`, `scr_c`, `scr_s`, `brkpts`, `brk_ctr`, the listed sections, terminal modes | s c n b d f x t q, arrows, ENTER | breakpoints honoured, windows in bounds, terminal handed over and restored |
| Drawing | `interface.c` | screen | `draw_screen` | output only |
| Command line, loader | `proc.c`, `loader.c` | `mem`, `eip`, `esp`, sections, symbols | `main`, `read_elf_file`, `read_raw_file`, `load_stack`, `read_auxv` | the guest finds its image, argv, envp and auxv; the debugger its symbols |
| GDT, segments | `instr.c`, `syscall.c` | table in `mem`, `gdtr`, gs | `init_gdt`, `get_gdt_base`, `set_thread_area`, LGDT, LSL, VERR, VERW | a base comes back whole; areas of threads stay apart |
| Multiplication, division, widening | `instr.c` | eax, edx, operand, `eflags` | MUL IMUL DIV IDIV, CBW to MOVZX, XCHG, BOUND | the integers the registers stand for |
| Decimal and flag instructions | `instr.c` | al, ah, `eflags` | AAA AAD AAM AAS DAA DAS, LAHF SAHF, XLAT, CLC to STI | multi-byte decimal arithmetic is exact |
| System call translation | `syscall.c` | `mem` | about 110 `do_*` wrappers | guest addresses reach the host as addresses in `mem`, integers unchanged |

**How they interact.** `main` picks a mode, whose loop first calls the
loader; it fills `mem` and builds the guest's stack below `STACK_BOTTOM`. The loops in `proc.c` call
`cs_disasm` and `dispatcher`, which calls one handler of `instructions[]`;
handlers share the globals `mem`, the registers and `eflags`. `int_i` calls
`int_dispatcher`, `int80` and an entry of `syscalls[]`, which replaces eax; the
value travels back through the return values to the loop, which leaves when it
is `0xdeadbeef`. The debugger runs the same handlers and switches the terminal
around every key, prompt and INT.

**What is hard.** There is one thread and nothing persistent. The difficulties
are sequences: a store that hits a return address used much later; flags left
by one handler and read by another; the debugger's state, which depends on the
mix of keys, prompts, system calls and what the guest did to esp in between; an
answer that is not a number, taken for one; a
REP instruction that is resumed between two elements; array and shift bounds;
instructions that make no progress; a stack image built by one file, read by the
guest and taken apart again by a system call; a segment base split in one file and
put together in another. `PROJECT.json` lists them as hazards, each
at its line.

## 2. Modules

| Module | Models |
|---|---|
| `Flags` | `flags.c`. EFLAGS is the set of flags that are set. |
| `Conditions` | The condition of each Jcc and SETcc handler, as tables from EFLAGS. |
| `Alu` | ADD ADC INC SUB SBB CMP DEC NEG AND OR XOR TEST NOT as operators from operands and EFLAGS to outcomes. |
| `Arith`, `MCArith` | One arithmetic instruction on every operand, followed by the conditions. |
| `Shifts`, `MCShifts` | SAL SHL SAR SHR SHRD RCL RCR ROL ROR, BT BTC BTR BTS BSF BSR, and SHLD as the code has it. |
| `Strings`, `MCStrings` | MOVS STOS LODS CMPS SCAS, REP MOVS, REP STOS, one element per step. |
| `Words`, `MCWords` | MUL IMUL DIV IDIV, CBW CWDE CWD CDQ MOVSX MOVZX XCHG BOUND, one instruction on every operand. |
| `Decimal`, `MCDecimal` | The decimal adjustments, LAHF, SAHF, XLAT and the flag instructions, executed by guests that work through numbers of several bytes with `Alu`'s ADC, SBB and INC. |
| `Memory` | The little endian accesses over an address space of Radix^4 bytes. |
| `Cpu` | The loop of `blind_elf_main`/`blind_raw_main`, `dispatcher` and the handlers that move data, esp and eip; `INT`, exit and read. |
| `CallStack` | Abstract: a program counter and a stack of return addresses. |
| `Calls`, `MCCalls` | `Cpu` under guests that keep the calling convention; refines `CallStack`. |
| `Programs` | Concrete guest programs for `Cpu`. |
| `Debugger`, `MCDebugger` | `interface_elf_main`, the terminal functions of `interface.c`, and what differs in `interface_raw_main` (constant `Raw`). |
| `Segments` | The GDT wherever `gdtr` says, `set_thread_area`, LGDT, MOV to gs, LSL, VERR, VERW, addresses through gs. |
| `Loader` | `main` and `loader.c`: files, sections, symbols, the guest's first stack. |
| `HostCalls` | The wrappers of `syscall.c` as tables of how each argument is passed; `open`, `sysfs`, `time`, `ioctl`, `rt_sigaction`, `writev`, `poll` and `execve` as operators. |
| `Process`, `MCProcess` | Composition of `Loader`, `Segments` and `HostCalls` over one memory. |
| `ArithProofs`, `WordsProofs`, `ShiftsProofs`, `StringsProofs`, `CallsProofs`, `DebuggerProofs`, `ProcessProofs` | The theorems of these components, `Segments` and `Loader` with `Process`. |
| `MemoryProofs` | Lemmas about the accesses, for the proofs of the components that use memory. |

Definitions have the names of the functions they model; `PROJECT.json` maps each
to its lines. An operator introduced as a *mutant* is a wrong version of the
definition that follows it. It is not part of the model: putting it in the place
of that definition must make the named property fail.

### Abstractions

* A register, word or address has four digits in base `Radix` (256 in the code).
  Everything wraps as `uint32_t` does. An access that straddles the last address
  leaves the allocation in the code; `Memory` lets it wrap.
* In `Alu`, `Shifts` and `Words` the widths of bytes, words and double words are the
  constant `Width`. An operand is the low part of its cell: `regs[]` gives AH, BH, CH
  and DH the address of the whole register, so in this code they are AL, BL, CL and
  DL. C's `&`, `|` and `^` are the constants `BitAnd`, `BitOr` and
  `BitXor`; the MC modules give them the operators of `Bitwise`, and
  `BitwiseAssumption` states what the proofs use of them.
* `Code` maps an address to the set of instructions Capstone may decode there.
  Several members stand for all programs with one of them; no member for bytes
  that do not decode. Self-modifying code is therefore left out.
* `Cpu` has no EFLAGS: a conditional jump goes either way. `Arith` is about the
  flags.
* `Cpu` uses the 32 bit register forms of ADD and SUB; `Alu` has all forms.
  Segment bases are zero, as in the table `init_gdt` writes for cs, ds, es and ss.
* In `Cpu` a system call returns any of `HostResults`, and `read` also stores that
  many bytes of `HostData` at ecx. In `Process` every wrapper named by `syscalls[]`
  makes its request; what the host then stores through the pointers is left out,
  except for `poll`, whose wrapper copies the answers itself. `mmap`, `mremap`,
  `shmat` and `getcwd` subtract `mem` from what the host returns, also from an error;
  `brk` subtracts nothing and cuts the host's 64 bit answer to a word. The results
  are therefore any of `HostResults`.
* In `Process` a guest makes one request or works on its segments (bounds `Asks`
  and `MaxAreas`). The wrappers keep no state of their own, so a second request
  starts from the same place.
* Strings are sequences of bytes other than 0, an ELF file is a record of what the
  loader reads of it, the host's auxiliary vector a sequence of types and values.
  What the code leaves uninitialised (`argv_emu[1]`, `progbits[1]`, the random
  bytes) is any member of `Garbage`. A stripped file under `-ie` is left out: the
  section headers used there are never read.
* `Words`: rm is the operand the handler reads. MUL, DIV and IDIV read
  `operands[1]`, which is the explicit operand only where Capstone lists the
  accumulator first. The three-operand IMUL has a source other than its
  destination. The host stops the emulator where C's division is undefined.
* `Decimal` uses the full 8 bits of a byte. Its guests keep the carry in AH,
  because INC overwrites CF in this code.
* `Strings!cmps_i` includes the guest's JNE back to it, which is how a comparison
  of several elements is written here: there is no REPE CMPS.
* Undefined behaviour: a C shift out of range takes its count modulo the width of
  `uint32_t`, which is what the host's instruction does in the repository's build
  (`gcc` without optimisation). OR and XOR to memory take their flags from a word
  that is somewhere else: any word. `brkpts` starts with arbitrary contents. The
  searches that run past the disassembled instructions find nothing, find the
  address there, or kill the process. A prompt that ended without a number leaves
  its variable unwritten: any address, any breakpoint number.
* In `Debugger` the guest is reduced to where an instruction may go, whether it
  is an INT or the exit call, and how many words are on its stack. The code window
  lists the instructions of `cc` sections one after the other; section i ends at
  line `counts[i]` and has `siz[i]` bytes, at least one for an instruction. A search
  for an address goes through the sections in order, `siz[i]` entries in each.
* In `Segments` memory is counted in descriptors: a table starts at a place and goes
  over the following ones, and two tables may overlap. An entry number is cut to
  `IndexSize` (256) and indexes from the table's place, as in the code, also past its
  end. Guests write to a table with `set_thread_area` only, and gs selects an
  entry of the table.
* The host's auxiliary vector has types up to 52, the ones `getters[]` has functions
  for; the code does not check the index.

## 3. Runs

| Run | Properties | Shows |
|---|---|---|
| `arith` | `UnsignedCompare`, `SetccFollowsJcc`, `AddFlagsExact`, `ResultExact` | After CMP every unsigned condition is right for all operand kinds and sizes; the flags of ADD, and those INC's header names, are of the exact sum; numbers (ADD to NEG) and bits (AND, OR, XOR, NOT) are exact and neighbours untouched, with the exceptions the properties name |
| `calls` | `TypeOK`, `FramesIntact`, `FramesNested`, `RefinesCallStack` | Pushes, pops, calls and stores never damage a live return address; RET goes to where its CALL came from |
| `programs` | `RegistersRestored`, `Terminates` | A guest with nested calls, pushad/popad and a read gets its registers back and ends, for every host result, the sentinel included |
| `debugger` | `TypeOK`, `ScannedEntriesAreSet`, `ContinueHonoursBreakpoints` | c stops at breakpoints while d gets numbers of slots, also after answers to b without a number; the initial content of the array is never scanned |
| `windows` | `TerminalModes`, `CodeScrollInBounds`, `StackScrollInBounds`, `CommandsReturn` | The windows stay in bounds while the guest moves esp, with instructions longer than a byte and two sections, until a search takes an entry behind a section for its address; keys, prompts, system calls and the shell get the right terminal; every command but c and n comes back or leaves, provided the guest's system calls return |
| `shifts` | `ShiftsExact`, `RotatesExact`, `RclNarrowExact`, `ShrdExact`, `BitsExact` | Each bit goes where it should; the carry RCL leaves is right for a single rotate and never misses a bit; BTC, BTR and BTS change one bit and report it |
| `strings` | `MovesLikeMemmove`, `FillsLikeMemset`, `ComparesLikeMemcmp`, `RepeatEnds` | REP can be stopped and resumed at any element, in both directions, with overlap; a CMPS loop ends where memcmp does, with the flags of the unsigned comparison |
| `words` | `ProductsExact`, `QuotientsExact`, `WideningExact` | Products (the upper half of 8 and 16 bit ones, the low half of all but IMUL 0x69) and quotients (IDIV of words for prepared dividends) are the integers', or the division is refused with every register as it was; widening keeps the signed value and the bytes above |
| `decimal` | `DecimalSum`, `DecimalDifference`, `DigitsExact` | ADC with DAA, SBB with DAS or AAS, and AAM with AAD give the right digits and carry over several bytes; for DAA unless the high digits of two bytes add up to 15 while the low ones carry |
| `process` | `GuestFindsArguments`, `GuestFindsAuxv`, `ImageIntact`, `SymbolsSorted`, `PointersTranslated`, `ExecvePassesArguments`, `SegmentBases`, `AreasApart` | What the loader builds is what the guest, the debugger and `execve` find, AT_PHDR and its headers included; pointers are translated and integers are not; whatever entries are requested and wherever LGDT moves the table, the base last asked for at a descriptor's place comes back whole, a search takes free reserved entries only and a request writes to no entry but its own |

Two runs show that the code does not do what its own comments or the README
say (`findings` in `PROJECT.json` has the quotations):

| Run | Property | What happens |
|---|---|---|
| `jl` | `SignedCompare` | OF after CMP is that of an addition, so JL is wrong for some operands (0 and 1) |
| `dbg_wrap` | `ContinueHonoursAllBreakpoints` | with `MAX_BRK` breakpoints c sees none |

Other differences met while modelling are in the model as the code has them, and
properties are stated around them:

* Control: LEAVE reads 16 bits of the saved frame pointer (`instr.c:4049`); LOOP
  jumps when ecx becomes zero (`instr.c:4566`); JECXZ is misspelt in `inss[]`, so
  it is never dispatched and eip stays (`instr.c:36`).
* Flags and shifts: JLE tests a conjunction (`instr.c:3306`) where its comment says
  or; RCR places the carry at the wrong bit and RCL of 32 bits
  shifts out of range for counts 0 and 1; RCL sets CF if any bit leaves, not the last
  one, and clears it for a count of 0 (`instr.c:5399`), so `RclNarrowExact` says of CF
  only what holds; SHR by one takes OF from the shifted
  value; SETG, SETNA and SETNLE differ from the jump of the same name; SHLD is
  empty; BSF and BSR do not scan; BT, BTC, BTR and
  BTS set CF if any bit from the named one upwards is set, so `BitsExact` uses only
  the direction that holds; BTC and BTR of memory write through a pointer that is
  never set, and are left out.
* Registers: AH, BH, CH and DH are the low bytes (`regs[]`, `instr.c:27`).
* Arithmetic: INC and DEC write CF (`instr.c:2703`), which their headers do not list
  (`instr.c:2649`), so `AddFlagsExact` speaks of CF for ADD only; OR and XOR to memory
  take the destination's address from the source operand (`instr.c:1783`), so
  `ResultExact` covers them in registers; NEG and NOT of memory assign the operand's
  type where they should compare (`instr.c:4839`, `instr.c:4914`), take a null register
  and are left out; DAA's `*al += 6` wraps for sums from FA to FF
  (`instr.c:2072`), so 99 + 66 gives 05 and no carry, and `DecimalSum` excludes
  exactly those bytes; MUL and one-operand IMUL of 32 bits lose the upper half; IMUL 0x69
  with two operands assigns the immediate; a refused division returns -1000, which
  nothing handles; IDIV of DX:AX takes a negative AX as the whole dividend; AAA
  tests the lowest bit instead of the digit and clears ZF for CF; AAM and AAD set
  ZF for a result that is not zero.
* Segments: VERR and VERW clear ZF for segments that exist; `set_thread_area` checks no
  entry number, so a guest may rewrite the descriptor of cs or ds, another thread's, or
  memory past the table (`syscall.c:2052`); SGDT stores 24 bits of the base.
* Strings: LODS and SCAS leave their pointer; INSB, INSW and INSD read the port into edi
  itself and OUTSB, OUTSW and OUTSD write edi (not modelled).
* Loader: the guest's argv[0] is whatever `argv_emu[1]` held and its argv is shifted
  by one; AT_RANDOM points to 8 bytes; AT_EXECFN is 0; AT_PHDR is 0 unless the first
  program header is a loaded segment (`loader.c:294`), and leads to the headers only if
  that segment begins the file; types above 52 index past `getters[]`; a file that cannot be loaded
  ends `main` with 0, the result of success.
* System calls: `fchown` passes a descriptor to `chown`, `mremap` calls
  `sched_yield`, `time` passes the guest's address as it is, `stat`, `fstat` and
  `lstat` never copy their result to the guest, `rt_sigaction` reads its argument
  also when it is null, `exit_group` is unimplemented, and errors arrive as -1, the
  result of `syscall()`, not as -errno.
* Debugger: an answer to b that ends before a number makes `sscanf` return EOF, which
  ends the loop, and an address nobody has written is stored (`proc.c:669`), where the
  comment says that b asks again; `ScannedEntriesAreSet` exempts those slots, and c may
  stop there; a file that cannot be loaded sets the terminal to modes that were never
  saved (`proc.c:218`, below the comment "Set terminal to default"), so `TerminalModes`
  speaks of the exits of the loop; a deleted breakpoint is a breakpoint at address 0; ENTER does not repeat
  a choice that ended at `no_print`; f in the raw debugger shows the line above; an
  answer to d without a number deletes an arbitrary slot, after which
  `ContinueHonoursBreakpoints` says nothing; the searches for eip are bounded by bytes
  instead of instructions, in every section before the one that holds it too, so the
  window may be anywhere after one that found its address behind a listing.

### Bounds

* `arith`: widths 4, 5, 6. Each size is narrower than the next, bit 4 (which
  `adjust` looks at) is inside the wider two, and every content of the narrow part
  occurs under an empty and a full upper part. `shifts`: widths 3, 4, 6, all
  contents, counts 0..8, past the widest operand and its carry.
* `words`: widths 3, 6, 8, with contents on both sides of every sign and carry.
  `decimal`: two bytes; packed digits that carry or not at either place, with high
  digits adding up to 15 among them; every number below 100 for AAM.
* `process`: `Radix` 4, 256 addresses; an image of one or two segments with a .bss,
  one to three arguments (an empty one too), an environment of none or two, an
  auxiliary vector with every kind of entry, a first program header that is loaded and
  one that is not; four GDT entries of which
  two are reserved, so that the third request meets a full table; entries of
  the code segment, past the table and beyond a byte; two tables that overlap. The structures of the guest
  have 24 bytes (`ScratchSize`) between image and stack, room for the largest array
  of `Iovecs` and `Answers`.
* `calls`, `programs`: `Radix` 3, 81 addresses; `strings`: `Radix` 4. In `calls` the stack
  starts at 20, room for five words, so frames nest several deep and the
  discipline's limits are reached. `strings` moves up to three elements between
  seven positions, so all overlaps occur.
* `debugger`: `MAX_BRK` 3 (wrap after three), four addresses, every initial content
  of `brkpts`, one section with more bytes than instructions. `windows`: stack depth up
  to 2, two sections, the first also with more bytes than instructions; b and d are
  pressed in `debugger` only. `UintMax` 15 keeps the wrap of d and f.

`CHECK_DEADLOCK FALSE` is set where the program may end: the instruction loop, the
debugger and the emulator's `main` exit, a string instruction retires, and a disciplined guest may have
no allowed instruction left.

### Fairness

`CpuSpec` and `Strings!Spec` assume weak fairness of their next-state relation:
the C loop runs on as long as an iteration is possible. `Debugger!Spec` assumes it
for the emulator's own steps only (`Machine`); the user need not press a key or answer a
prompt, and the host need not return from a system call (`Host`): a read or a pause
waits for someone else. `CommandsReturn` therefore has as its hypothesis that no system call
lasts for ever. `Programs` is about one guest whose read the host answers. No fairness is assumed of the choice between host results or successors,
so `CommandsReturn` does not speak of c and n, which a looping guest keeps busy.

## 4. Proofs

For every radix above 2, every program, host and stack position (`CallsProofs`):

* `TypeCorrect`: `TypeOK` of `Calls`.
* `ReturnAddressesIntact`, `ReturnSlotsNested`: `FramesIntact`, `FramesNested`. The
  inductive invariant is their conjunction with `TypeOK`. Neither is inductive
  alone: that a push does not hit a slot needs the slots above esp, and that RET
  closes the last frame needs the slot's content. `MemoryProofs` has the facts
  about accesses: a word read back is the word written (`ReadBack`), a write leaves
  disjoint words alone (`ReadElsewhere`), four digits make a word.
* `LoopRefinesCallStack`: the loop implements `CallStack!Spec`, where the abstract
  stack is the sequence of the frames' return addresses.

For every guest, key set, `MAX_BRK` and mode (`DebuggerProofs`):

* `DebuggerTypeCorrect`, `TerminalRestored` (strengthened by what `olde` holds in
  each phase), `NoUninitialisedBreakpoint`, `BreakpointsHonoured` (strengthened:
  while `brk_ctr` has not wrapped, every live breakpoint is in the scanned part),
  `StackWindowOnStack`, and `CodeWindowInListing`, for any sections, whatever the lengths
  of their instructions.

For every radix, table size and sequence of requests (`ProcessProofs`):

* `SegmentBasesKept`: `SegmentBases`, for requests of any entry number and a table that
  LGDT moves. `SegmentBases` speaks of the table in use and is not inductive: LGDT may
  bring another one back. The invariant is `PlaceBases`, the same of every place,
  with `SegTypeOK`; the step rests on `BaseSplit`: an address is its low half and its
  two upper digits, whatever the radix.
* `GsReachesTheArea`: an access through gs reaches the byte at that displacement of
  the area, also when the area was set up after gs was loaded.
* `ThreadAreasApart`: the action property `AreasApart`. A request that names the entry of
  another thread overwrites it, in the code and in the model; the property confines the
  write to that entry.
* `ProcessUsesSegments`: `Process!Spec` implements `Segments!SegSpec`. The request is
  taken from a structure in guest memory there: `FilledReads` says that the words a
  guest stores are the ones a wrapper reads, wherever `Scratch` lies and also across
  the end of memory. `ProcessSegmentBases` and `ProcessAreasApart` follow.

For every set of registers, host results, iovec arrays and ELF files (`ProcessProofs`):

* `PointersReachTheHost`: `PointersTranslated`. `TablesAgree` compares every entry of
  every table with the prototype; the requests that are made from no table are
  treated one by one, `writev` again through `FilledReads`.
* `SymbolListSorted`: `SymbolsSorted`, with what `main` starts from. One round puts one
  more address in its place (`RoundPlaces`) and is an exchange, which loses and doubles
  nothing (`SwapCounts`, by a bijection); the rounds are counted by `Counting`.
  `History` shows that the recursive functions in `Wanted` and `Sort` exist.

For every ELF file, command line, environment, auxiliary vector and content of
uninitialised words that fit in memory, for every radix, and through every system call
that writes into a structure of the guest (`ProcessProofs`):

* `ArgumentsOnTheStack`, `AuxvOnTheStack`, `ImageStaysIntact`: `GuestFindsArguments`,
  `GuestFindsAuxv`, `ImageIntact`.
* `ExecveGetsTheArguments`: `ExecvePassesArguments`. `PointersCounted` says that
  `buffer_size` stops at the null pointer `load_stack` pushed: the pointers before it are
  not null because the strings lie above esp, and esp above the structures.

  The four rest on one inductive invariant, `LoadedInv`: before `main` nothing is known of
  a guest and nothing was asked of the host, and afterwards an ELF guest is `AsLoaded`.
  None of the properties is inductive by itself. What the guest finds through argv does
  not say where strings and arrays lie, so a later write could not be shown to miss them;
  `AsLoaded` gives the addresses (`Built`: the words from esp up, the strings above them)
  and keeps esp above the structures and the segments (`Whole`) below, from which
  `HeadersFound` concludes what AT_PHDR leads to. It is
  established in three parts. `ImageLoaded` follows the copying of the segments, which are
  apart, header by header. `StackBuilt` follows `load_stack` push by push: `Grown` says how
  far esp moved and that nothing outside of these bytes changed, so what was pushed before
  is still there (`SameString`, `SameWords`, `SameVector`). `GuestLoaded` puts the stack over
  the image. It is kept because every step writes only between `Scratch` and
  `Scratch + ScratchSize` (`WritevBeside`, `PollBeside`, `AreaBeside`). TLC checks the four
  properties; it cannot evaluate `Built`, which quantifies over sequences of addresses.

For every radix, memory, pointer, count and direction (`StringsProofs`):

* `RepMovsIsMemmove`, `RepStosIsMemset`, `CmpsIsMemcmp`: the three properties of
  `Strings`. The inductive invariant `StringInv` adds to them that the pointers are as
  far from their start as ecx has been counted down: memory alone does not tell where
  the next element goes. The overlap condition is the one of memmove.

For every `Width` with bytes narrower than words and words than double words, every
operand kind and every content:

* `SetccIsJcc`, `UnsignedJumpsCompare`, `AdditionFlags`, `NumericResults`, `LogicResults`, `ResultsExact`
  (`ArithProofs`).
  The inductive invariant `ArithInv` says that the destination and EFLAGS are an outcome
  of the handler that ran, on the operands it found; the flags are then followed from
  the bit tests of `flags.c` to the exact sum or difference, and the logic operations bit
  by bit from `BitwiseAssumption`. What the properties leave out (CF of INC, OR and XOR to
  memory, SUB and DEC of narrow memory) the theorems leave out too.
* `Products`, `Quotients`, `Widening` (`WordsProofs`), where words are twice as wide as
  bytes. `WordsInv` is the three properties with the types of the registers. They say
  nothing of the upper half of a 32 bit product, of IMUL 0x69 with two operands and of
  IDIV where DX does not extend a negative AX, which the code gets wrong.
* `ShiftsMultiply`, `RotatesMoveBits`, `RclMovesBits`, `ShrdShiftsPair`, `BitsChangeOne`
  (`ShiftsProofs`), also for counts where the C shift is out of range; of the carry that
  RCL leaves they prove the direction that holds (`RclCarry`). A lemma for each
  operator says where it takes a bit; `SameBits` concludes that two words are equal. The
  invariant is `ShiftsInv`, the five properties with the types.

Assumptions are the named `ASSUME`s of the modules, which TLC evaluates on every run:

* types and sizes of the constants (`RadixAssumption`, `WidthAssumption`,
  `GdtAssumption` and the like); `ProcessAssumption` (structures fit in their part of
  memory);
* `LoaderAssumption`: strings have no zero inside, an auxiliary vector has types below 53, and an
  ELF file is one the code can load (`ValidElf`): headers are words, the bytes of a
  loadable segment are in the file and not more than it has in memory, and segments are
  apart. `read_elf_file` tests none of this; linkers write such files;
* `LayoutAssumption`: image, structures and stack lie one above the other. Nothing in the
  code keeps a stack from growing into an image; with `STACK_BOTTOM` at the top of
  4 GB it takes gigabytes of arguments;
* `BlocksAssumption`: the blocks of a string instruction do not reach an end of the
  address space, so a pointer does not wrap on its way;
* `PowersAssumption` and `BitwiseAssumption`: the laws 2^(m+n) = 2^m * 2^n, and what
  `&`, `|` and `^` do to a bit. They are facts of arithmetic and of C for which the
  prover has no theory, not restrictions.

The discipline of the guest in `Calls` is part of its next-state relation: a guest that
overwrites its own return address is not covered.

Induction over data is by least elements: the library's induction theorems take an
operator, which the provers cannot instantiate, but `WFMin` takes a set. `LeastElement`,
`Counting` and `History` are built on it.

Only model-checked:

* liveness (`Terminates`, `CommandsReturn`, `RepeatEnds`), which is out of the prover's
  reach;
* `RegistersRestored`, which is about concrete programs;
* `DecimalSum`, `DecimalDifference`, `DigitsExact`: the first two need the powers of a base
  other than 2 and the carry out of the low digit bit by bit.

## 5. Not modelled, and plan

Not modelled: drawing (`draw_screen` only prints); IN, OUT, INS and OUTS in all their
forms, which open `/dev/port` and read or write a device of the host, and return 1
when they cannot; SGDT, SIDT, LIDT, LLDT, SLDT, LMSW, SMSW, ARPL and LAR, which copy
between operands and system registers (nothing else reads idtr, ldtr or cr0); the
handlers that only move eip (CLTS, HLT, IRET, IRETD, LTR, LOCK, WAIT, REP INS,
REP OUTS); wrappers `syscalls[]` never names; PUSHA, POPA, PUSHF, POPF, ENTER and the
far loads (LDS, LES and the others); the example guests, which are not part of the
emulator; the files and memory of the host. In `Cpu` an address has no segment base.

Left to do, in this order:

1. PUSHF, POPF, PUSHA, POPA and ENTER in `Cpu`, with EFLAGS as part of its state, so
   that conditional jumps follow the flags in `Programs`.
2. The host's stores through the pointers of a request (`read`, `pipe`, `getgroups`).
3. Proofs: `DigitsExact`, then `DecimalSum` and `DecimalDifference` with the invariant
   that the bytes done so far, and the carry in AH, are the sum of the numbers so far.
