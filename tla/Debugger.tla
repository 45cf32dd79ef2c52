------------------------------ MODULE Debugger ------------------------------
(***************************************************************************)
(* The interactive loop of interface_elf_main (src/src/proc.c) with the    *)
(* terminal modes of src/src/interface.c.  interface_raw_main repeats the  *)
(* loop for a raw file; it differs in what f does on the code window.      *)
(*                                                                         *)
(* The loop waits for a key, dispatches the choice, and for s, c and n     *)
(* executes guest instructions until the command is over; b, f, x, t and d *)
(* ask for a line of input first.  The guest is reduced to what the loop   *)
(* sees of it: where an instruction goes, whether it is an INT, whether it *)
(* can be decoded, and how many words are on the stack.  An instruction    *)
(* that dispatcher() does not know has itself as its successor.  The code  *)
(* window lists the instructions of the sections one after the other, the  *)
(* one at address a with index a.                                          *)
(***************************************************************************)
EXTENDS Integers

CONSTANTS MAX_BRK,        \* 25
          UintMax,        \* 0xFFFFFFFF
          Pc,             \* guest addresses
          Succ,           \* address -> the set of next addresses
          Kind,           \* address -> "plain", "int", "exit" or "bad"
          cc,             \* number of sections, 1 for a raw file
          counts,         \* section -> instructions listed up to its end
          siz,            \* section -> bytes in it
          MaxDepth,       \* bound on the words on the guest's stack
          Keys,           \* the keys the user presses
          Raw             \* -ir rather than -ie

ASSUME DebuggerAssumption ==
  /\ MAX_BRK \in Nat \ {0} /\ UintMax \in Nat
  /\ cc \in Nat \ {0} /\ (Raw => cc = 1)
  /\ counts \in [1..cc -> Nat] /\ siz \in [1..cc -> Nat] /\ counts[cc] > 0
  /\ \A i \in 1..cc : \A j \in 1..i : counts[j] <= counts[i]
  /\ MaxDepth \in Nat /\ MaxDepth <= (UintMax + 1) \div 4
  /\ Pc \subseteq Nat /\ 0 \in Pc
  /\ Succ \in [Pc -> SUBSET Pc]
  /\ Kind \in [Pc -> {"plain", "int", "exit", "bad"}]
  /\ Raw \in BOOLEAN

Slots    == 0..(MAX_BRK - 1)
Prompts  == {"b", "f", "x", "t", "d"}
Runs     == {"s", "c", "n"}
\* "none" is a key no branch tests, the end of input (getch returns -1) and
\* the initial value of ch and old_ch.
Choices  == Prompts \cup Runs \cup {"q", "up", "down", "left", "right", "none"}
NoBreak  == -1      \* no breakpoint was set, or it was deleted
Unread   == -2      \* the answer to b had no number

Count  == counts[cc]
ini(i) == IF i = 1 THEN 0 ELSE counts[i - 1]

\* An instruction has at least one byte.
ASSUME SectionsAssumption == \A i \in 1..cc : ini(i) + siz[i] >= counts[i]

ASSUME KeysAssumption == Keys \subseteq Choices \cup {"enter"}

VARIABLES
  phase,                    \* where the loop is: a member of Phases
  ch, old_ch,               \* the choice and the one ENTER repeats
  focus,                    \* 0 code, 1 stack
  scr_c, scr_s,             \* scroll of the code and of the stack window
  brkpts, brk_ctr,
  eip, depth, stop,         \* the guest and the target of n
  tty, olde,                \* the terminal's local modes, and what disable_echo saved
  live,                     \* history: the breakpoints the user set and did not delete,
  wrapped, misnumbered,     \* whether brk_ctr wrapped, whether d got no number of a
  below, astray             \* slot, whether f looked up a word below esp, whether the
                            \* code window follows a search that left its section

window  == <<focus, scr_c, scr_s, below, astray>>
scroll  == <<scr_c, scr_s, below, astray>>
guest   == <<eip, depth>>
brk     == <<brkpts, brk_ctr, live, wrapped, misnumbered>>
term    == <<tty, olde>>
vars    == <<phase, ch, old_ch, focus, scr_c, scr_s, brkpts, brk_ctr, eip, depth,
             stop, tty, olde, live, wrapped, misnumbered, below, astray>>

\* "start" is before the file is loaded; "exited" and "failed" are the exits
\* of the function, "killed" is the process without one.
Phases == {"start", "key", "dispatch", "prompt", "run", "syscall", "found",
           "exited", "failed", "killed"}

---------------------------------------------------------------------------
(* Terminal modes (interface.c) *)

Modes == [canon : BOOLEAN, echo : BOOLEAN]

\* The configuration init_raw_mode saves.
oldt == [canon |-> TRUE, echo |-> TRUE]

\* A struct termios that was never written: globals start as zeros.
Unsaved == [canon |-> FALSE, echo |-> FALSE]

\* init_raw_mode and enable_raw_mode clear ICANON only.
RawMode == [oldt EXCEPT !.canon = FALSE]

\* disable_echo saves the current modes and clears ECHO.
disable_echo(t) == olde' = t /\ tty' = [t EXCEPT !.echo = FALSE]

\* enable_echo starts from the saved modes and clears ECHO again.
enable_echo == tty' = [olde EXCEPT !.echo = FALSE] /\ UNCHANGED olde

---------------------------------------------------------------------------
(* The loop *)

\* Mutant of contains: the last breakpoint is not looked at.
containsButLast(a) == \E k \in 0..(brk_ctr - 2) : brkpts[k] = a

contains(a) == \E k \in 0..(brk_ctr - 1) : brkpts[k] = a

\* label no_print: back to getch with the terminal in modes t.
NoPrint(t) == phase' = "key" /\ disable_echo(t) /\ UNCHANGED <<ch, old_ch>>

\* label exit1: everything is freed and the terminal is restored.
Exit == phase' = "exited" /\ tty' = oldt /\ UNCHANGED <<ch, old_ch, olde>>

\* The end of the loop's body with the terminal in modes t.
EndOfBody(t) == phase' = "key" /\ old_ch' = ch /\ disable_echo(t) /\ UNCHANGED ch

Init ==
  /\ phase = "start" /\ ch = "none" /\ old_ch = "none"
  /\ focus = 0 /\ scr_s = 0 /\ scr_c = 0
  /\ brkpts \in [Slots -> Pc] /\ brk_ctr = 0
  /\ eip \in IF Raw THEN {0} ELSE Pc
  /\ depth \in 0..MaxDepth /\ stop = 0
  /\ tty = oldt /\ olde = Unsaved
  /\ live = [k \in Slots |-> NoBreak] /\ wrapped = FALSE /\ misnumbered = FALSE
  /\ below = FALSE /\ astray = FALSE

\* The file is loaded and listed, init_raw_mode switches the terminal, and
\* the window is moved to eip, as after s.
Load ==
  /\ phase = "start"
  /\ phase' = "found" /\ tty' = RawMode
  /\ UNCHANGED <<ch, old_ch, olde, window, brk, guest, stop>>

\* The file cannot be loaded: label exit restores modes that were never saved.
LoadFails ==
  /\ phase = "start"
  /\ phase' = "failed" /\ tty' = Unsaved
  /\ UNCHANGED <<ch, old_ch, olde, window, brk, guest, stop>>

\* Nothing can be disassembled: the function returns at once.
NothingListed ==
  /\ phase = "start"
  /\ phase' = "exited"
  /\ UNCHANGED <<ch, old_ch, term, window, brk, guest, stop>>

\* getch returns; ENTER stands for the stored choice.
GetKey(k) ==
  /\ phase = "key"
  /\ phase' = "dispatch"
  /\ ch' = IF k = "enter" THEN old_ch ELSE k
  /\ enable_echo
  /\ UNCHANGED <<old_ch, window, brk, guest, stop>>

Dispatch(choice) == phase = "dispatch" /\ ch = choice

\* No branch is taken; the loop's condition is tested afterwards.
Quit ==
  /\ Dispatch("q")
  /\ Exit
  /\ UNCHANGED <<window, brk, guest, stop>>

\* A choice no branch tests.
Nothing ==
  /\ Dispatch("none")
  /\ EndOfBody(tty)
  /\ UNCHANGED <<window, brk, guest, stop>>

---------------------------------------------------------------------------
(* Scrolling *)

Scroll(choice, codeOK, codeTo, stackOK, stackTo) ==
  /\ Dispatch(choice)
  /\ IF focus = 0
     THEN IF codeOK THEN scr_c' = codeTo /\ UNCHANGED scr_s /\ EndOfBody(tty)
                    ELSE UNCHANGED <<scr_c, scr_s>> /\ NoPrint(tty)
     ELSE IF stackOK THEN scr_s' = stackTo /\ UNCHANGED scr_c /\ EndOfBody(tty)
                     ELSE UNCHANGED <<scr_c, scr_s>> /\ NoPrint(tty)
  /\ UNCHANGED <<focus, below, astray, brk, guest, stop>>

\* Mutant of Down: the bound of the code window is off by one.
DownPastCode == Scroll("down", scr_c < Count, scr_c + 1, scr_s + 1 < depth, scr_s + 1)

Down == Scroll("down", scr_c + 1 < Count, scr_c + 1, scr_s + 1 < depth, scr_s + 1)
Up   == Scroll("up", scr_c > 0, scr_c - 1, scr_s > 0, scr_s - 1)

Focus(choice, f) ==
  /\ Dispatch(choice)
  /\ focus' = f
  /\ NoPrint(tty)
  /\ UNCHANGED <<scroll, brk, guest, stop>>

Left  == Focus("left", 0)
Right == Focus("right", 1)

---------------------------------------------------------------------------
(* Commands that ask for a line (get_str) *)

Ask ==
  /\ phase = "dispatch" /\ ch \in Prompts
  /\ phase' = "prompt"
  /\ tty' = oldt
  /\ UNCHANGED <<ch, old_ch, window, brk, guest, stop, olde>>

\* sscanf returns 0: get_str is called again.  EOF, the value for an answer
\* that ends before a number (an empty one to d, "0x" to the others), ends
\* the loop too, and the variable is used as it was: any value.
WrongFormat == phase = "prompt" /\ UNCHANGED vars

Answered(choice) ==
  /\ phase = "prompt" /\ ch = choice
  /\ EndOfBody(RawMode)
  /\ UNCHANGED <<guest, stop, focus>>

\* Mutants of SetBreakpoint: brk_ctr does not wrap, or moves before the store.
SetBreakpointNoWrap(dir, given) ==
  /\ Answered("b")
  /\ brkpts' = [brkpts EXCEPT ![brk_ctr] = dir]
  /\ live' = [live EXCEPT ![brk_ctr] = given]
  /\ brk_ctr' = brk_ctr + 1
  /\ UNCHANGED <<scroll, wrapped, misnumbered>>

SetBreakpointLate(dir, given) ==
  /\ Answered("b")
  /\ brk_ctr' = (brk_ctr + 1) % MAX_BRK
  /\ brkpts' = [brkpts EXCEPT ![brk_ctr'] = dir]
  /\ live' = [live EXCEPT ![brk_ctr] = given]
  /\ wrapped' = (wrapped \/ brk_ctr + 1 = MAX_BRK)
  /\ UNCHANGED <<scroll, misnumbered>>

\* given is the address in the answer, or Unread.
SetBreakpoint(dir, given) ==
  /\ Answered("b")
  /\ brkpts' = [brkpts EXCEPT ![brk_ctr] = dir]
  /\ live' = [live EXCEPT ![brk_ctr] = given]
  /\ brk_ctr' = (brk_ctr + 1) % MAX_BRK
  /\ wrapped' = (wrapped \/ brk_ctr + 1 = MAX_BRK)
  /\ UNCHANGED <<scroll, misnumbered>>

\* The number is decremented as an unsigned and reduced modulo MAX_BRK; given
\* tells whether it was in the answer.
DeleteBreakpoint(n, given) ==
  /\ Answered("d")
  /\ LET k == (IF n = 0 THEN UintMax ELSE n - 1) % MAX_BRK IN
       brkpts' = [brkpts EXCEPT ![k] = 0]
  /\ live' = IF given /\ n \in 1..MAX_BRK THEN [live EXCEPT ![n - 1] = NoBreak] ELSE live
  /\ misnumbered' = (misnumbered \/ ~(given /\ n \in 1..MAX_BRK))
  /\ UNCHANGED <<scroll, brk_ctr, wrapped>>

---------------------------------------------------------------------------
(* Searches in the code window *)

\* The searches for eip, and all of them in a raw file, go through the
\* sections in order and in each over siz[i] entries of insns[i], which has
\* only as many as there are instructions.  What lies behind them may hold
\* the address or not, or end the process.

\* The sections a search for address a goes through to their end.
Searched(a) == {i \in 1..cc : counts[i] <= a}

\* Nothing was disassembled: insns[i] is a null pointer.
Null(i) == counts[i] = ini(i) /\ siz[i] > 0

\* The search reads behind the entries of some section, and the indices where
\* it may find the address there.
Overrun(a) == \E i \in Searched(a) : ini(i) + siz[i] > counts[i]
Stray(a) ==
  UNION {counts[i]..(ini(i) + siz[i] - 1) : i \in {j \in Searched(a) : \A l \in 1..j : ~Null(l)}}

\* The line above the one found becomes the top of the window.
LineAbove(k) == IF k > 0 THEN k - 1 ELSE 0

FoundBehind(a) == astray' = TRUE /\ \E k \in Stray(a) : scr_c' = LineAbove(k)

FoundOrNot(a) ==
  /\ \A i \in Searched(a) : ~Null(i)
  /\ scr_c' = IF a < Count THEN LineAbove(a) ELSE scr_c
  /\ astray' = (a >= Count /\ astray)

Searches(a) == FoundBehind(a) \/ FoundOrNot(a)

\* f on the code window: the search is bounded by the instructions and the
\* line found becomes the top line.
FindCode(dir) ==
  /\ ~Raw /\ Answered("f") /\ focus = 0
  /\ scr_c' = IF dir < Count THEN dir ELSE scr_c
  /\ astray' = (dir >= Count /\ astray)
  /\ UNCHANGED <<scr_s, below, brk>>

ShowFound(dir) ==
  /\ Answered("f")
  /\ Searches(dir)
  /\ UNCHANGED <<scr_s, below, brk>>

KilledInFind(dir) ==
  /\ phase = "prompt" /\ ch = "f" /\ Overrun(dir)
  /\ phase' = "killed" /\ tty' = RawMode
  /\ UNCHANGED <<ch, old_ch, olde, window, brk, guest, stop>>

FindCodeRaw(dir) == Raw /\ focus = 0 /\ (ShowFound(dir) \/ KilledInFind(dir))

\* f on the stack window, d words below the bottom, which itself is refused;
\* (dir - esp) / 4 is unsigned, so an address below esp scrolls far down.
FindStack(d) ==
  /\ Answered("f") /\ focus = 1
  /\ scr_s' = CASE d = 0 -> scr_s
                [] d \in 1..depth -> depth - d
                [] OTHER -> ((UintMax + 1) \div 4) - (d - depth)
  /\ below' = (d > depth \/ (d = 0 /\ below))
  /\ UNCHANGED <<scr_c, astray, brk>>

Dump ==
  /\ (Answered("x") \/ Answered("t"))
  /\ UNCHANGED <<scroll, brk>>

---------------------------------------------------------------------------
(* Commands that execute the guest *)

\* n decodes the instruction at eip first to find out where to stop.
Start ==
  /\ phase = "dispatch" /\ ch \in Runs
  /\ IF ch = "n" /\ Kind[eip] = "bad"
     THEN Exit /\ stop' = stop
     ELSE /\ phase' = "run"
          /\ stop' = IF ch = "n" THEN eip + 1 ELSE stop
          /\ UNCHANGED <<ch, old_ch, term>>
  /\ UNCHANGED <<window, brk, guest>>

\* The condition of the command's loop.
More == CASE ch = "c" -> ~contains(eip) [] ch = "n" -> eip # stop [] OTHER -> TRUE

\* Mutant of AfterInsn: s goes on like c.
AfterInsnGoesOn == phase' = "run"

AfterInsn == phase' = IF ch = "s" THEN "found" ELSE "run"

Execute ==
  /\ eip' \in Succ[eip]
  /\ depth' \in 0..MaxDepth

DisasmFails ==
  /\ phase = "run" /\ More /\ Kind[eip] = "bad"
  /\ Exit
  /\ UNCHANGED <<window, brk, guest, stop>>

ExecPlain ==
  /\ phase = "run" /\ More /\ Kind[eip] = "plain"
  /\ Execute /\ AfterInsn
  /\ UNCHANGED <<ch, old_ch, window, brk, stop, term>>

\* The terminal is given back for the time of the system call.
BeginInt ==
  /\ phase = "run" /\ More /\ Kind[eip] \in {"int", "exit"}
  /\ phase' = "syscall" /\ tty' = oldt
  /\ UNCHANGED <<ch, old_ch, window, brk, guest, stop, olde>>

\* Mutant of EndInt: raw mode is not enabled again.
EndIntCooked ==
  /\ phase = "syscall" /\ Kind[eip] = "int"
  /\ Execute /\ AfterInsn
  /\ UNCHANGED <<ch, old_ch, window, brk, stop, term>>

EndInt ==
  /\ phase = "syscall" /\ Kind[eip] = "int"
  /\ tty' = RawMode
  /\ Execute /\ AfterInsn
  /\ UNCHANGED <<ch, old_ch, window, brk, stop, olde>>

\* The sentinel: enable_raw_mode, then exit1.
EndExit ==
  /\ phase = "syscall" /\ Kind[eip] = "exit"
  /\ Exit
  /\ UNCHANGED <<window, brk, guest, stop>>

RunOver ==
  /\ phase = "run" /\ ~More
  /\ phase' = "found"
  /\ UNCHANGED <<ch, old_ch, window, brk, guest, stop, term>>

\* Mutant of ShowEip: the stack window keeps its scroll.
ShowEipKeepsStack ==
  /\ Searches(eip) /\ UNCHANGED <<scr_s, below>>
  /\ EndOfBody(tty)

\* The code window follows eip and the stack window esp.
ShowEip ==
  /\ Searches(eip) /\ scr_s' = 0 /\ below' = FALSE
  /\ EndOfBody(tty)

Killed ==
  /\ Overrun(eip)
  /\ phase' = "killed"
  /\ UNCHANGED <<ch, old_ch, scroll, term>>

Locate ==
  /\ phase = "found"
  /\ ShowEip \/ Killed
  /\ UNCHANGED <<focus, brk, guest, stop>>

---------------------------------------------------------------------------

User ==
  \/ \E k \in Keys : GetKey(k)
  \/ \E dir \in Pc : \/ SetBreakpoint(dir, dir) \/ SetBreakpoint(dir, Unread)
                       \/ FindCode(dir) \/ FindCodeRaw(dir)
  \/ \E n \in 0..(MAX_BRK + 1), given \in BOOLEAN : DeleteBreakpoint(n, given)
  \/ \E d \in 0..MaxDepth : FindStack(d)
  \/ WrongFormat

Machine ==
  \/ Load \/ LoadFails \/ NothingListed
  \/ Quit \/ Nothing \/ Down \/ Up \/ Left \/ Right \/ Ask \/ Dump \/ Start
  \/ DisasmFails \/ ExecPlain \/ BeginInt \/ EndExit \/ RunOver \/ Locate

\* A system call of the guest comes back.
Host == EndInt

Next == User \/ Machine \/ Host

\* The emulator's own steps are those of a running process; the user owes
\* nothing, and a system call (read, pause) may wait for ever.
Spec == Init /\ [][Next]_vars /\ WF_vars(Machine)

---------------------------------------------------------------------------

TypeOK ==
  /\ phase \in Phases
  /\ ch \in Choices /\ old_ch \in Choices
  /\ focus \in {0, 1} /\ scr_c \in Int /\ scr_s \in Int
  /\ brkpts \in [Slots -> Pc] /\ brk_ctr \in Slots
  /\ eip \in Pc /\ depth \in 0..MaxDepth /\ stop \in Int
  /\ tty \in Modes /\ olde \in Modes
  /\ live \in [Slots -> Pc \cup {NoBreak, Unread}]
  /\ wrapped \in BOOLEAN /\ misnumbered \in BOOLEAN /\ below \in BOOLEAN /\ astray \in BOOLEAN

\* Whatever mix of keys, prompts and system calls came before, a key is read
\* without line buffering and echo, the user's line and the guest's system
\* call get the terminal as the emulator found it, and so does the shell
\* after every way out of the loop (q, exit, nothing to disassemble).  A file
\* that could not be loaded is not a way out of the loop.
TerminalModes ==
  /\ phase = "key" => tty = [canon |-> FALSE, echo |-> FALSE]
  /\ phase \in {"prompt", "syscall", "exited"} => tty = oldt

\* The entries contains() scans are never the array's uninitialised content:
\* each is the breakpoint the user has under its number, or a zero.  A slot
\* is exempt only while it was filled by an answer to b without a number.
ScannedEntriesAreSet ==
  \A k \in 0..(brk_ctr - 1) : live[k] # Unread => brkpts[k] \in {live[k], 0}

\* The code window is on a line of its listing, whether the user scrolls,
\* looks an address up or the window follows eip; from a search that took
\* what lies behind a section's entries for the address to the next one that
\* found its own, it may be anywhere.
CodeScrollInBounds == ~astray => scr_c \in 0..(Count - 1)

\* Whenever the user may scroll, the word at the top of the stack window is
\* on the guest's stack, although the guest pops while it runs; the one
\* exception is a word below esp that f was asked for.
StackScrollInBounds ==
  /\ scr_s >= 0
  /\ phase = "key" /\ ~below => scr_s = 0 \/ scr_s < depth

ExecutesGuest == phase \in {"run", "syscall"} /\ guest' # guest
AtBreakpoint  == \E k \in Slots : live[k] = eip

\* c never executes the instruction at a breakpoint the user has, as long as
\* there were fewer than MAX_BRK and every answer to d was the number of a
\* slot; answers to b without a number do no harm.
ContinueHonoursBreakpoints ==
  [][ch = "c" /\ ExecutesGuest /\ ~wrapped /\ ~misnumbered => ~AtBreakpoint]_vars

\* Every command except c and n comes back to the user or leaves, unless a
\* system call of the guest never returns.
CommandsReturn ==
  []<>(phase # "syscall") =>
    ((phase = "dispatch" /\ ch \notin {"c", "n"})
       ~> (phase \in {"key", "prompt", "exited", "killed"}))

---------------------------------------------------------------------------
(* What the documentation says and the loop does not do *)

\* "c continues the execution until it finds a breakpoint", and "If counter
\* overflows MAX, override the existing ones": also with MAX_BRK breakpoints
\* c does not run through one of them.
ContinueHonoursAllBreakpoints ==
  [][ch = "c" /\ ExecutesGuest /\ ~misnumbered => ~AtBreakpoint]_vars
=============================================================================
