--------------------------- MODULE DebuggerProofs ---------------------------
(***************************************************************************)
(* The safety properties of the interactive loop for every guest, every    *)
(* MAX_BRK and every set of keys.                                          *)
(***************************************************************************)
EXTENDS Debugger, TLAPS

\* The line buffering is off from the key to the end of the command unless
\* the terminal was given away, and what disable_echo saved is such a mode.
TerminalInv ==
  /\ TerminalModes
  /\ phase = "start" => tty = oldt
  /\ phase \in {"key", "dispatch", "run", "found"} => ~tty.canon
  /\ phase = "key" => ~olde.canon

\* A breakpoint the user has is in the table and in its scanned part.
LiveInv ==
  ~wrapped /\ ~misnumbered =>
    \A k \in Slots : live[k] \in Pc => k < brk_ctr /\ brkpts[k] = live[k]

\* Under c a system call begins only where c does not stop.
SyscallInv == phase = "syscall" /\ ch = "c" => ~contains(eip)

\* The bounds of the stack window hold until the guest runs.
StackInv ==
  /\ scr_s >= 0
  /\ phase \in {"key", "dispatch", "prompt"} /\ ~below => scr_s = 0 \/ scr_s < depth

---------------------------------------------------------------------------

\* What DebuggerAssumption says of the constants other than the sections.
LEMMA ConstantFacts ==
  /\ MAX_BRK \in Nat \ {0} /\ UintMax \in Nat
  /\ MaxDepth \in Nat /\ MaxDepth <= (UintMax + 1) \div 4
  /\ Pc \subseteq Nat /\ 0 \in Pc
  /\ Succ \in [Pc -> SUBSET Pc]
BY DebuggerAssumption

\* MAX_BRK numbers the slots from 0, and a number reduced modulo it is one.
LEMMA SlotFacts ==
  /\ 0 \in Slots
  /\ \A n \in Slots : n \in Nat /\ n + 1 \in Nat
  /\ \A n \in Nat : n % MAX_BRK \in Slots
  /\ \A n \in Slots : n % MAX_BRK = n
  /\ \A n \in Slots : n + 1 # MAX_BRK => (n + 1) % MAX_BRK = n + 1
BY ConstantFacts DEF Slots

\* Every value disable_echo, enable_echo and the raw mode give is a mode.
LEMMA ModeFacts ==
  /\ oldt \in Modes /\ RawMode \in Modes /\ Unsaved \in Modes
  /\ \A t \in Modes : [t EXCEPT !.echo = FALSE] \in Modes
  /\ \A t \in Modes : [t EXCEPT !.echo = FALSE].canon = t.canon
  /\ \A t \in Modes : [t EXCEPT !.echo = FALSE].echo = FALSE
  /\ RawMode.canon = FALSE
BY DEF Modes, oldt, RawMode, Unsaved

\* The listing has lines, and what a search finds is an index.
LEMMA SearchFacts ==
  /\ Count \in Nat \ {0}
  /\ \A a \in Pc : a \in Nat /\ LineAbove(a) \in Int
  /\ \A a \in Pc : \A k \in Stray(a) : LineAbove(k) \in Int
BY DebuggerAssumption DEF Count, Searched, Stray, LineAbove, ini

\* A search gives the code window a line, or leaves it where it was.
LEMMA SearchType ==
  ASSUME NEW a \in Pc, TypeOK, Searches(a)
  PROVE  scr_c' \in Int /\ astray' \in BOOLEAN
BY SearchFacts DEF Searches, FoundBehind, FoundOrNot, TypeOK

\* The loop starts in a state of the right type.
LEMMA InitType == Init => TypeOK
<1> SUFFICES ASSUME Init PROVE TypeOK
  OBVIOUS
<1>1. tty \in Modes /\ olde \in Modes
  BY ModeFacts DEF Init
<1>2. live \in [Slots -> Pc \cup {NoBreak, Unread}]
  BY DEF Init
<1>3. ch \in Choices /\ old_ch \in Choices
  BY DEF Init, Choices
<1>4. wrapped \in BOOLEAN /\ misnumbered \in BOOLEAN /\ below \in BOOLEAN /\ astray \in BOOLEAN
  BY DEF Init
<1>5. phase \in Phases /\ eip \in Pc
  BY ConstantFacts DEF Init, Phases
<1> QED
  BY <1>1, <1>2, <1>3, <1>4, <1>5, ConstantFacts, SlotFacts DEF Init, TypeOK

\* Every step keeps the type.
LEMMA StepType == TypeOK /\ [Next]_vars => TypeOK'
<1> SUFFICES ASSUME TypeOK, [Next]_vars PROVE TypeOK'
  OBVIOUS
<1> USE ConstantFacts, KeysAssumption, SlotFacts, ModeFacts, SearchFacts DEF Phases
<1>1. CASE \E k \in Keys : GetKey(k)
  <2>1. tty' \in Modes /\ olde' \in Modes
    BY <1>1 DEF GetKey, enable_echo, TypeOK
  <2>2. ch' \in Choices
    BY <1>1 DEF GetKey, TypeOK
  <2> QED
    BY <1>1, <2>1, <2>2 DEF GetKey, TypeOK, window, scroll, guest, brk, term
<1>2. CASE \E dir \in Pc : \E given \in {dir, Unread} : SetBreakpoint(dir, given)
  <2> PICK dir \in Pc : \E given \in {dir, Unread} : SetBreakpoint(dir, given)
    BY <1>2
  <2> PICK given \in {dir, Unread} : SetBreakpoint(dir, given)
    OBVIOUS
  <2>a. brk_ctr + 1 \in Nat
    BY DEF TypeOK
  <2>1. brk_ctr' \in Slots
    BY <2>a DEF SetBreakpoint
  <2>2. brkpts' \in [Slots -> Pc] /\ live' \in [Slots -> Pc \cup {NoBreak, Unread}]
    BY DEF SetBreakpoint, TypeOK
  <2>3. wrapped' \in BOOLEAN
    BY DEF SetBreakpoint
  <2>4. tty' \in Modes /\ olde' \in Modes
    BY DEF SetBreakpoint, Answered, EndOfBody, disable_echo
  <2> QED
        BY <2>1, <2>2, <2>3, <2>4 DEF SetBreakpoint, Answered, EndOfBody, TypeOK,
        window, scroll, guest, brk, term
<1>3. CASE \E dir \in Pc : FindCode(dir)
  BY <1>3
    DEF FindCode, Answered, EndOfBody, disable_echo, TypeOK, Choices, Prompts, Runs,
      window, scroll, guest, brk, term
<1>4. CASE \E n \in 0..(MAX_BRK + 1), given \in BOOLEAN : DeleteBreakpoint(n, given)
  <2> PICK n \in 0..(MAX_BRK + 1), given \in BOOLEAN : DeleteBreakpoint(n, given)
    BY <1>4
  <2> DEFINE k == (IF n = 0 THEN UintMax ELSE n - 1) % MAX_BRK
  <2>a. (IF n = 0 THEN UintMax ELSE n - 1) \in Nat
    OBVIOUS
  <2>1. k \in Slots
    BY <2>a
  <2>2. brkpts' = [brkpts EXCEPT ![k] = 0]
    BY DEF DeleteBreakpoint
  <2> HIDE DEF k
  <2>3. brkpts' \in [Slots -> Pc]
    BY <2>1, <2>2 DEF TypeOK
  <2>4. live' \in [Slots -> Pc \cup {NoBreak, Unread}] /\ misnumbered' \in BOOLEAN
    BY DEF DeleteBreakpoint, TypeOK
  <2>5. tty' \in Modes /\ olde' \in Modes
    BY DEF DeleteBreakpoint, Answered, EndOfBody, disable_echo
  <2> QED
        BY <2>3, <2>4, <2>5 DEF DeleteBreakpoint, Answered, EndOfBody, TypeOK, window,
        scroll, guest, brk, term
<1>5. CASE \E d \in 0..MaxDepth : FindStack(d)
  <2> PICK d \in 0..MaxDepth : FindStack(d)
    BY <1>5
  <2>1. scr_s' \in Int
    BY DEF FindStack, TypeOK
  <2>2. below' \in BOOLEAN
    BY Zenon DEF FindStack
  <2>3. tty' \in Modes /\ olde' \in Modes
    BY DEF FindStack, Answered, EndOfBody, disable_echo
  <2> QED
        BY <2>1, <2>2, <2>3 DEF FindStack, Answered, EndOfBody, TypeOK, window,
        scroll, guest, brk, term
<1>6. CASE WrongFormat
  BY <1>6
    DEF WrongFormat, vars, TypeOK, Choices, Prompts, Runs, window, scroll, guest, brk,
      term
<1>7. CASE Quit
  BY <1>7
    DEF Quit, Dispatch, Exit, TypeOK, Choices, Prompts, Runs, window, scroll, guest,
      brk, term
<1>8. CASE Nothing
  BY <1>8
    DEF Nothing, Dispatch, EndOfBody, disable_echo, TypeOK, Choices, Prompts, Runs,
      window, scroll, guest, brk, term
<1>9. CASE Down
  BY <1>9
    DEF Down, Scroll, Dispatch, EndOfBody, NoPrint, disable_echo, TypeOK, Choices,
      Prompts, Runs, window, scroll, guest, brk, term
<1>10. CASE Up
  BY <1>10
    DEF Up, Scroll, Dispatch, EndOfBody, NoPrint, disable_echo, TypeOK, Choices,
      Prompts, Runs, window, scroll, guest, brk, term
<1>11. CASE Left
  BY <1>11
    DEF Left, Focus, Dispatch, NoPrint, disable_echo, TypeOK, Choices, Prompts, Runs,
      window, scroll, guest, brk, term
<1>12. CASE Right
  BY <1>12
    DEF Right, Focus, Dispatch, NoPrint, disable_echo, TypeOK, Choices, Prompts, Runs,
      window, scroll, guest, brk, term
<1>13. CASE Ask
  BY <1>13
  DEF Ask, TypeOK, Choices, Prompts, Runs, window, scroll, guest, brk, term
<1>14. CASE Dump
  BY <1>14
    DEF Dump, Answered, EndOfBody, disable_echo, TypeOK, Choices, Prompts, Runs,
      window, scroll, guest, brk, term
<1>15. CASE Start
  BY <1>15
  DEF Start, Exit, TypeOK, Choices, Prompts, Runs, window, scroll, guest, brk, term
<1>16. CASE DisasmFails
  BY <1>16
    DEF DisasmFails, Exit, TypeOK, Choices, Prompts, Runs, window, scroll, guest, brk,
      term
<1>17. CASE ExecPlain
  BY <1>17
    DEF ExecPlain, Execute, AfterInsn, TypeOK, Choices, Prompts, Runs, window, scroll,
      guest, brk, term
<1>18. CASE BeginInt
  BY <1>18
  DEF BeginInt, TypeOK, Choices, Prompts, Runs, window, scroll, guest, brk, term
<1>19. CASE EndInt
  BY <1>19
    DEF EndInt, Execute, AfterInsn, TypeOK, Choices, Prompts, Runs, window, scroll,
      guest, brk, term
<1>20. CASE EndExit
  BY <1>20
  DEF EndExit, Exit, TypeOK, Choices, Prompts, Runs, window, scroll, guest, brk, term
<1>21. CASE RunOver
  BY <1>21
  DEF RunOver, TypeOK, Choices, Prompts, Runs, window, scroll, guest, brk, term
<1>22. CASE Locate
  <2>1. CASE ShowEip
    <3>1. scr_c' \in Int /\ astray' \in BOOLEAN
      BY <2>1, SearchType DEF ShowEip, TypeOK
    <3>2. tty' \in Modes /\ olde' \in Modes
      BY <2>1 DEF ShowEip, EndOfBody, disable_echo, TypeOK
    <3>3. phase' = "key" /\ old_ch' = ch /\ ch' = ch /\ scr_s' = 0 /\ below' = FALSE
      BY <2>1 DEF ShowEip, EndOfBody
    <3>4. UNCHANGED <<focus, brkpts, brk_ctr, live, wrapped, misnumbered, eip, depth, stop>>
      BY <1>22 DEF Locate, guest, brk
    <3>5. phase' \in Phases /\ ch' \in Choices /\ old_ch' \in Choices /\ scr_s' \in Int
      BY <3>3 DEF TypeOK
    <3>6. below' \in BOOLEAN
      BY <3>3, Zenon
    <3> QED
      BY <3>1, <3>2, <3>4, <3>5, <3>6 DEF TypeOK
  <2>2. CASE Killed
    BY <1>22, <2>2 DEF Locate, Killed, Phases, TypeOK, scroll, guest, brk, term
  <2> QED
    BY <1>22, <2>1, <2>2 DEF Locate
<1>23. CASE \E dir \in Pc : FindCodeRaw(dir)
  <2> PICK dir \in Pc : FindCodeRaw(dir)
    BY <1>23
  <2>1. CASE ShowFound(dir)
    <3>1. scr_c' \in Int /\ astray' \in BOOLEAN
      BY <2>1, SearchType DEF ShowFound
    <3>2. tty' \in Modes /\ olde' \in Modes
      BY <2>1 DEF ShowFound, Answered, EndOfBody, disable_echo
    <3> QED
      BY <2>1, <3>1, <3>2 DEF ShowFound, Answered, EndOfBody, Phases, TypeOK, guest, brk
  <2>2. CASE KilledInFind(dir)
    BY <2>2 DEF KilledInFind, Phases, TypeOK, window, guest, brk
  <2> QED
    BY <2>1, <2>2 DEF FindCodeRaw
<1>24. CASE UNCHANGED vars
  BY <1>24 DEF vars, TypeOK, Choices, Prompts, Runs
<1>25. CASE Load
  BY <1>25
  DEF Load, Phases, Choices, Prompts, Runs, TypeOK, window, scroll, guest, brk, term
<1>26. CASE LoadFails
  BY <1>26
  DEF LoadFails, Phases, Choices, Prompts, Runs, TypeOK, window, scroll, guest, brk, term
<1>27. CASE NothingListed
  BY <1>27
  DEF NothingListed, Phases, Choices, Prompts, Runs, TypeOK, window, scroll, guest, brk, term
<1> QED
    BY <1>1, <1>2, <1>3, <1>4, <1>5, <1>6, <1>7, <1>8, <1>9, <1>10, <1>11, <1>12,
      <1>13, <1>14, <1>15, <1>16, <1>17, <1>18, <1>19, <1>20, <1>21, <1>22, <1>23,
      <1>24, <1>25, <1>26, <1>27 DEF Next, User, Machine, Host

---------------------------------------------------------------------------

\* Every step keeps the terminal in the mode its phase needs.
LEMMA StepTerminal == TypeOK /\ TerminalInv /\ [Next]_vars => TerminalInv'
<1> SUFFICES ASSUME TypeOK, TerminalInv, [Next]_vars PROVE TerminalInv'
  OBVIOUS
<1> USE DEF Modes, RawMode, oldt, Unsaved
<1>1. CASE \E k \in Keys : GetKey(k)
  BY <1>1
    DEF GetKey, enable_echo, TerminalInv, TerminalModes, TypeOK, window, scroll,
      guest, brk, term
<1>2. CASE \E dir \in Pc : \E given \in {dir, Unread} : SetBreakpoint(dir, given)
  BY <1>2
    DEF SetBreakpoint, Answered, EndOfBody, disable_echo, TerminalInv, TerminalModes,
      TypeOK, window, scroll, guest, brk, term
<1>3. CASE \E dir \in Pc : FindCode(dir)
  BY <1>3
    DEF FindCode, Answered, EndOfBody, disable_echo, TerminalInv, TerminalModes,
      TypeOK, window, scroll, guest, brk, term
<1>4. CASE \E n \in 0..(MAX_BRK + 1), given \in BOOLEAN : DeleteBreakpoint(n, given)
  BY <1>4
    DEF DeleteBreakpoint, Answered, EndOfBody, disable_echo, TerminalInv,
      TerminalModes, TypeOK, window, scroll, guest, brk, term
<1>5. CASE \E d \in 0..MaxDepth : FindStack(d)
  BY <1>5
    DEF FindStack, Answered, EndOfBody, disable_echo, TerminalInv, TerminalModes,
      TypeOK, window, scroll, guest, brk, term
<1>6. CASE WrongFormat
  BY <1>6
    DEF WrongFormat, vars, TerminalInv, TerminalModes, TypeOK, window, scroll, guest,
      brk, term
<1>7. CASE Quit
  BY <1>7
    DEF Quit, Dispatch, Exit, TerminalInv, TerminalModes, TypeOK, window, scroll,
      guest, brk, term
<1>8. CASE Nothing
  BY <1>8
    DEF Nothing, Dispatch, EndOfBody, disable_echo, TerminalInv, TerminalModes,
      TypeOK, window, scroll, guest, brk, term
<1>9. CASE Down
  BY <1>9
    DEF Down, Scroll, Dispatch, EndOfBody, NoPrint, disable_echo, TerminalInv,
      TerminalModes, TypeOK, window, scroll, guest, brk, term
<1>10. CASE Up
  BY <1>10
    DEF Up, Scroll, Dispatch, EndOfBody, NoPrint, disable_echo, TerminalInv,
      TerminalModes, TypeOK, window, scroll, guest, brk, term
<1>11. CASE Left
  BY <1>11
    DEF Left, Focus, Dispatch, NoPrint, disable_echo, TerminalInv, TerminalModes,
      TypeOK, window, scroll, guest, brk, term
<1>12. CASE Right
  BY <1>12
    DEF Right, Focus, Dispatch, NoPrint, disable_echo, TerminalInv, TerminalModes,
      TypeOK, window, scroll, guest, brk, term
<1>13. CASE Ask
  BY <1>13
  DEF Ask, TerminalInv, TerminalModes, TypeOK, window, scroll, guest, brk, term
<1>14. CASE Dump
  BY <1>14
    DEF Dump, Answered, EndOfBody, disable_echo, TerminalInv, TerminalModes, TypeOK,
      window, scroll, guest, brk, term
<1>15. CASE Start
  BY <1>15
    DEF Start, Exit, TerminalInv, TerminalModes, TypeOK, window, scroll, guest, brk,
      term
<1>16. CASE DisasmFails
  BY <1>16
    DEF DisasmFails, Exit, TerminalInv, TerminalModes, TypeOK, window, scroll, guest,
      brk, term
<1>17. CASE ExecPlain
  BY <1>17
    DEF ExecPlain, Execute, AfterInsn, TerminalInv, TerminalModes, TypeOK, window,
      scroll, guest, brk, term
<1>18. CASE BeginInt
  BY <1>18
  DEF BeginInt, TerminalInv, TerminalModes, TypeOK, window, scroll, guest, brk, term
<1>19. CASE EndInt
  BY <1>19
    DEF EndInt, Execute, AfterInsn, TerminalInv, TerminalModes, TypeOK, window,
      scroll, guest, brk, term
<1>20. CASE EndExit
  BY <1>20
    DEF EndExit, Exit, TerminalInv, TerminalModes, TypeOK, window, scroll, guest, brk,
      term
<1>21. CASE RunOver
  BY <1>21
  DEF RunOver, TerminalInv, TerminalModes, TypeOK, window, scroll, guest, brk, term
<1>22. CASE Locate
  BY <1>22
    DEF Locate, ShowEip, Killed, EndOfBody, disable_echo, TerminalInv, TerminalModes,
      TypeOK, window, scroll, guest, brk, term
<1>23. CASE \E dir \in Pc : FindCodeRaw(dir)
  BY <1>23
    DEF FindCodeRaw, ShowFound, KilledInFind, LineAbove, Answered, EndOfBody, disable_echo, TerminalInv,
      TerminalModes, TypeOK, window, scroll, guest, brk, term
<1>24. CASE UNCHANGED vars
  BY <1>24 DEF vars, TerminalInv, TerminalModes, TypeOK
<1>25. CASE Load
  BY <1>25
  DEF Load, TerminalInv, TerminalModes, TypeOK, window, scroll, guest, brk, term
<1>26. CASE LoadFails
  BY <1>26
  DEF LoadFails, TerminalInv, TerminalModes
<1>27. CASE NothingListed
  BY <1>27
  DEF NothingListed, TerminalInv, TerminalModes, term
<1> QED
    BY <1>1, <1>2, <1>3, <1>4, <1>5, <1>6, <1>7, <1>8, <1>9, <1>10, <1>11, <1>12,
      <1>13, <1>14, <1>15, <1>16, <1>17, <1>18, <1>19, <1>20, <1>21, <1>22, <1>23,
      <1>24, <1>25, <1>26, <1>27 DEF Next, User, Machine, Host

\* Only b and d touch the breakpoint table.
LEMMA TableSteps ==
  ASSUME [Next]_vars
  PROVE  \/ UNCHANGED brk
         \/ \E dir \in Pc : \E given \in {dir, Unread} : SetBreakpoint(dir, given)
         \/ \E n \in 0..(MAX_BRK + 1), given \in BOOLEAN : DeleteBreakpoint(n, given)
BY DEF Next, User, Machine, Host, Load, LoadFails, NothingListed, vars, brk, AfterInsn, Answered, Ask, BeginInt,
    DisasmFails, Dispatch, Down, Dump, EndExit, EndInt, EndOfBody, ExecPlain, Execute,
    Exit, FindCode, FindCodeRaw, ShowFound, KilledInFind, FindStack, Focus, GetKey, Killed, Left, LineAbove,
    Locate, NoPrint, Nothing, Quit, Right, RunOver, Scroll, ShowEip, Start, Up,
    WrongFormat, disable_echo, enable_echo

\* In the scanned part of the table there are the user's entries and zeros.
LEMMA StepScanned == TypeOK /\ ScannedEntriesAreSet /\ [Next]_vars => ScannedEntriesAreSet'
<1> SUFFICES ASSUME TypeOK, ScannedEntriesAreSet, [Next]_vars PROVE ScannedEntriesAreSet'
  OBVIOUS
<1>1. ASSUME NEW dir \in Pc, NEW given \in {dir, Unread}, SetBreakpoint(dir, given) PROVE ScannedEntriesAreSet'
  <2> SUFFICES ASSUME NEW k \in 0..(brk_ctr' - 1), live'[k] # Unread PROVE brkpts'[k] \in {live'[k], 0}
    BY DEF ScannedEntriesAreSet
  <2>1. k \in Slots /\ k <= brk_ctr
    <3>1. CASE brk_ctr + 1 = MAX_BRK
      <4> brk_ctr' = 0
        BY <1>1, <3>1, ConstantFacts DEF SetBreakpoint
      <4> QED
        OBVIOUS
    <3>2. CASE brk_ctr + 1 # MAX_BRK
      <4> brk_ctr' = brk_ctr + 1
        BY <1>1, <3>2, SlotFacts DEF SetBreakpoint, TypeOK
      <4> QED
        BY ConstantFacts DEF TypeOK, Slots
    <3> QED
      BY <3>1, <3>2
  <2>2. CASE k = brk_ctr
    BY <1>1, <2>1, <2>2 DEF SetBreakpoint, TypeOK
  <2>3. CASE k # brk_ctr
    <3> k \in 0..(brk_ctr - 1)
      BY <2>1, <2>3, ConstantFacts DEF TypeOK, Slots
    <3> QED
      BY <1>1, <2>1, <2>3 DEF SetBreakpoint, ScannedEntriesAreSet, TypeOK
  <2> QED
    BY <2>2, <2>3
<1>2. ASSUME NEW n \in 0..(MAX_BRK + 1), NEW given \in BOOLEAN, DeleteBreakpoint(n, given) PROVE ScannedEntriesAreSet'
  <2> SUFFICES ASSUME NEW k \in 0..(brk_ctr - 1), live'[k] # Unread PROVE brkpts'[k] \in {live'[k], 0}
    BY <1>2 DEF ScannedEntriesAreSet, DeleteBreakpoint
  <2>1. k \in Slots
    BY ConstantFacts DEF TypeOK, Slots
  <2> DEFINE i == (IF n = 0 THEN UintMax ELSE n - 1) % MAX_BRK
  <2>2. brkpts' = [brkpts EXCEPT ![i] = 0]
    BY <1>2 DEF DeleteBreakpoint
  <2>3. n \in 1..MAX_BRK => i = n - 1
    BY ConstantFacts, SlotFacts DEF Slots
  <2> HIDE DEF i
  <2>4. CASE k = i
    BY <2>1, <2>2, <2>4 DEF TypeOK
  <2>5. CASE k # i
    <3>1. brkpts'[k] = brkpts[k]
      BY <2>1, <2>2, <2>5 DEF TypeOK
    <3>2. live'[k] = live[k]
      BY <1>2, <2>1, <2>3, <2>5 DEF DeleteBreakpoint, TypeOK
    <3> QED
      BY <3>1, <3>2 DEF ScannedEntriesAreSet
  <2> QED
    BY <2>4, <2>5
<1>3. CASE UNCHANGED brk
  BY <1>3 DEF brk, ScannedEntriesAreSet
<1> QED
  BY <1>1, <1>2, <1>3, TableSteps

\* The user's breakpoints stay in the scanned part of the table.
LEMMA StepLive == TypeOK /\ LiveInv /\ [Next]_vars => LiveInv'
<1> SUFFICES ASSUME TypeOK, LiveInv, [Next]_vars PROVE LiveInv'
  OBVIOUS
<1>1. ASSUME NEW dir \in Pc, NEW given \in {dir, Unread}, SetBreakpoint(dir, given) PROVE LiveInv'
  <2> SUFFICES ASSUME ~wrapped', ~misnumbered', NEW k \in Slots, live'[k] \in Pc
               PROVE  k < brk_ctr' /\ brkpts'[k] = live'[k]
    BY DEF LiveInv
  <2>1. ~wrapped /\ brk_ctr + 1 # MAX_BRK /\ ~misnumbered
    BY <1>1 DEF SetBreakpoint
  <2>2. brk_ctr' = brk_ctr + 1
    BY <1>1, <2>1, SlotFacts DEF SetBreakpoint, TypeOK
  <2>3. CASE k = brk_ctr
    <3>1. live'[k] = given /\ brkpts'[k] = dir
      BY <1>1, <2>3 DEF SetBreakpoint, TypeOK
    <3>2. given = dir
      BY <3>1, ConstantFacts DEF Unread
    <3> QED
      BY <2>2, <2>3, <3>1, <3>2, SlotFacts DEF TypeOK
  <2>4. CASE k # brk_ctr
    <3>1. live[k] \in Pc /\ live'[k] = live[k] /\ brkpts'[k] = brkpts[k]
      BY <1>1, <2>4 DEF SetBreakpoint, TypeOK
    <3>2. k < brk_ctr /\ brkpts[k] = live[k]
      BY <2>1, <3>1 DEF LiveInv
    <3> QED
      BY <2>2, <3>1, <3>2, SlotFacts DEF TypeOK
  <2> QED
    BY <2>3, <2>4
<1>2. ASSUME NEW n \in 0..(MAX_BRK + 1), NEW given \in BOOLEAN, DeleteBreakpoint(n, given) PROVE LiveInv'
  <2> SUFFICES ASSUME ~wrapped', ~misnumbered', NEW k \in Slots, live'[k] \in Pc
               PROVE  k < brk_ctr' /\ brkpts'[k] = live'[k]
    BY DEF LiveInv
  <2>1. ~wrapped /\ ~misnumbered /\ n \in 1..MAX_BRK /\ brk_ctr' = brk_ctr
    BY <1>2 DEF DeleteBreakpoint
  <2>2. n - 1 \in Slots /\ (n - 1) % MAX_BRK = n - 1 /\ n # 0
    BY <2>1, ConstantFacts DEF Slots
  <2>3. /\ live' = [live EXCEPT ![n - 1] = NoBreak]
        /\ brkpts' = [brkpts EXCEPT ![n - 1] = 0]
    BY <1>2, <2>1, <2>2 DEF DeleteBreakpoint
  <2>4. k # n - 1 /\ live'[k] = live[k] /\ brkpts'[k] = brkpts[k]
    BY <2>2, <2>3, ConstantFacts DEF TypeOK, NoBreak
  <2> QED
    BY <2>1, <2>4 DEF LiveInv
<1>3. CASE UNCHANGED brk
  BY <1>3 DEF brk, LiveInv
<1> QED
  BY <1>1, <1>2, <1>3, TableSteps

\* c gives the terminal to a system call only where it does not stop.
LEMMA StepSyscall == SyscallInv /\ [Next]_vars => SyscallInv'
<1> SUFFICES ASSUME SyscallInv, [Next]_vars, phase' = "syscall", ch' = "c" PROVE ~contains(eip)'
  BY DEF SyscallInv
<1>1. CASE BeginInt
  BY <1>1 DEF BeginInt, More, contains, brk, guest
<1>2. CASE UNCHANGED vars
  BY <1>2 DEF vars, SyscallInv, contains
<1>3. BeginInt \/ UNCHANGED vars
  BY DEF Next, User, Machine, Host, Load, LoadFails, NothingListed,
    AfterInsn, Answered, Ask, DisasmFails, Dispatch, Down, Dump, EndExit, EndInt,
  EndOfBody, ExecPlain, Execute, Exit, FindCode, FindCodeRaw, ShowFound, KilledInFind, FindStack, Focus,
  GetKey, Killed, Left, LineAbove, Locate, NoPrint, Nothing, Quit, Right, RunOver,
  Scroll, ShowEip, Start, Up, WrongFormat, disable_echo, enable_echo, SetBreakpoint,
  DeleteBreakpoint
<1> QED
  BY <1>1, <1>2, <1>3

\* A step that executes a guest instruction under c starts where c does not
\* stop.
LEMMA ContinueSteps ==
  ASSUME SyscallInv, [Next]_vars, ch = "c", ExecutesGuest
  PROVE  ~contains(eip)
<1>1. ExecPlain \/ EndInt
  BY DEF ExecutesGuest, Next, User, Machine, Host, Load, LoadFails, NothingListed, vars, guest,
    AfterInsn, Answered, Ask, BeginInt, DisasmFails, Dispatch, Down, Dump, EndExit,
  EndOfBody, Execute, Exit, FindCode, FindCodeRaw, ShowFound, KilledInFind, FindStack, Focus, GetKey, Killed,
  Left, LineAbove, Locate, NoPrint, Nothing, Quit, Right, RunOver, Scroll, ShowEip,
  Start, Up, WrongFormat, disable_echo, enable_echo, SetBreakpoint, DeleteBreakpoint
<1>2. CASE ExecPlain
  BY <1>2 DEF ExecPlain, More
<1>3. CASE EndInt
  BY <1>3 DEF EndInt, SyscallInv
<1> QED
  BY <1>1, <1>2, <1>3

\* Every step keeps the stack window on the stack.
LEMMA StepStack == TypeOK /\ StackInv /\ [Next]_vars => StackInv'
<1> SUFFICES ASSUME TypeOK, StackInv, [Next]_vars PROVE StackInv'
  OBVIOUS
<1> USE ConstantFacts
<1>1. CASE \E k \in Keys : GetKey(k)
  BY <1>1
  DEF GetKey, enable_echo, StackInv, TypeOK, window, scroll, guest, brk, term
<1>2. CASE \E dir \in Pc : \E given \in {dir, Unread} : SetBreakpoint(dir, given)
  BY <1>2
    DEF SetBreakpoint, Answered, EndOfBody, disable_echo, StackInv, TypeOK, window,
      scroll, guest, brk, term
<1>3. CASE \E dir \in Pc : FindCode(dir)
  BY <1>3
    DEF FindCode, Answered, EndOfBody, disable_echo, StackInv, TypeOK, window, scroll,
      guest, brk, term
<1>4. CASE \E n \in 0..(MAX_BRK + 1), given \in BOOLEAN : DeleteBreakpoint(n, given)
  BY <1>4
    DEF DeleteBreakpoint, Answered, EndOfBody, disable_echo, StackInv, TypeOK, window,
      scroll, guest, brk, term
<1>5. CASE \E d \in 0..MaxDepth : FindStack(d)
  <2> PICK d \in 0..MaxDepth : FindStack(d)
    BY <1>5
  <2>1. CASE d = 0
    <3>1. scr_s' = scr_s /\ depth' = depth /\ phase = "prompt" /\ phase' = "key"
      BY <2>1 DEF FindStack, Answered, EndOfBody, guest
    <3>2. ~below' => ~below
      BY <2>1 DEF FindStack
    <3> QED
      BY <3>1, <3>2 DEF StackInv
  <2>2. CASE d \in 1..depth
    BY <2>2 DEF FindStack, Answered, EndOfBody, StackInv, TypeOK, guest
  <2>3. CASE d > depth
    <3>1. scr_s' = ((UintMax + 1) \div 4) - (d - depth)
      BY <2>3 DEF FindStack, TypeOK
    <3>2. below' = TRUE
      BY <2>3 DEF FindStack
    <3>3. (UintMax + 1) \div 4 \in Nat
      OBVIOUS
    <3> QED
      BY <2>3, <3>1, <3>2, <3>3 DEF StackInv, TypeOK
  <2> QED
    BY <2>1, <2>2, <2>3 DEF TypeOK
<1>6. CASE WrongFormat
  BY <1>6
  DEF WrongFormat, vars, StackInv, TypeOK, window, scroll, guest, brk, term
<1>7. CASE Quit
  BY <1>7
  DEF Quit, Dispatch, Exit, StackInv, TypeOK, window, scroll, guest, brk, term
<1>8. CASE Nothing
  BY <1>8
    DEF Nothing, Dispatch, EndOfBody, disable_echo, StackInv, TypeOK, window, scroll,
      guest, brk, term
<1>9. CASE Down
  BY <1>9
    DEF Down, Scroll, Dispatch, EndOfBody, NoPrint, disable_echo, StackInv, TypeOK,
      window, scroll, guest, brk, term
<1>10. CASE Up
  BY <1>10
    DEF Up, Scroll, Dispatch, EndOfBody, NoPrint, disable_echo, StackInv, TypeOK,
      window, scroll, guest, brk, term
<1>11. CASE Left
  BY <1>11
    DEF Left, Focus, Dispatch, NoPrint, disable_echo, StackInv, TypeOK, window,
      scroll, guest, brk, term
<1>12. CASE Right
  BY <1>12
    DEF Right, Focus, Dispatch, NoPrint, disable_echo, StackInv, TypeOK, window,
      scroll, guest, brk, term
<1>13. CASE Ask
  BY <1>13
  DEF Ask, StackInv, TypeOK, window, scroll, guest, brk, term
<1>14. CASE Dump
  BY <1>14
    DEF Dump, Answered, EndOfBody, disable_echo, StackInv, TypeOK, window, scroll,
      guest, brk, term
<1>15. CASE Start
  BY <1>15
  DEF Start, Exit, StackInv, TypeOK, window, scroll, guest, brk, term
<1>16. CASE DisasmFails
  BY <1>16
  DEF DisasmFails, Exit, StackInv, TypeOK, window, scroll, guest, brk, term
<1>17. CASE ExecPlain
  BY <1>17
    DEF ExecPlain, Execute, AfterInsn, StackInv, TypeOK, window, scroll, guest, brk,
      term
<1>18. CASE BeginInt
  BY <1>18
  DEF BeginInt, StackInv, TypeOK, window, scroll, guest, brk, term
<1>19. CASE EndInt
  BY <1>19
  DEF EndInt, Execute, AfterInsn, StackInv, TypeOK, window, scroll, guest, brk, term
<1>20. CASE EndExit
  BY <1>20
  DEF EndExit, Exit, StackInv, TypeOK, window, scroll, guest, brk, term
<1>21. CASE RunOver
  BY <1>21
  DEF RunOver, StackInv, TypeOK, window, scroll, guest, brk, term
<1>22. CASE Locate
  BY <1>22
    DEF Locate, ShowEip, Killed, EndOfBody, disable_echo, StackInv, TypeOK, window,
      scroll, guest, brk, term
<1>23. CASE \E dir \in Pc : FindCodeRaw(dir)
  BY <1>23
    DEF FindCodeRaw, ShowFound, KilledInFind, LineAbove, Answered, EndOfBody, disable_echo, StackInv, TypeOK,
      window, scroll, guest, brk, term
<1>24. CASE UNCHANGED vars
  BY <1>24 DEF vars, StackInv, TypeOK
<1>25. CASE Load
  BY <1>25
  DEF Load, StackInv, TypeOK, window, scroll, guest, brk, term
<1>26. CASE LoadFails
  BY <1>26
  DEF LoadFails, StackInv, TypeOK, window, scroll, guest, brk, term
<1>27. CASE NothingListed
  BY <1>27
  DEF NothingListed, StackInv, TypeOK, window, scroll, guest, brk, term
<1> QED
    BY <1>1, <1>2, <1>3, <1>4, <1>5, <1>6, <1>7, <1>8, <1>9, <1>10, <1>11, <1>12,
      <1>13, <1>14, <1>15, <1>16, <1>17, <1>18, <1>19, <1>20, <1>21, <1>22, <1>23,
      <1>24, <1>25, <1>26, <1>27 DEF Next, User, Machine, Host

\* Every step keeps the code window in its listing as long as no search took
\* for an address what is not one.
LEMMA StepCode == TypeOK /\ CodeScrollInBounds /\ [Next]_vars => CodeScrollInBounds'
<1> SUFFICES ASSUME TypeOK, CodeScrollInBounds, [Next]_vars PROVE CodeScrollInBounds'
  OBVIOUS
<1> USE SearchFacts
<1>1. CASE Down \/ Up
  <2>1. astray' = astray
    BY <1>1 DEF Down, Up, Scroll
  <2>2. \/ scr_c' = scr_c
        \/ scr_c + 1 < Count /\ scr_c' = scr_c + 1
        \/ scr_c > 0 /\ scr_c' = scr_c - 1
    BY <1>1 DEF Down, Up, Scroll
  <2>3. Count' = Count
    BY DEF Count
  <2> QED
    BY <2>1, <2>2, <2>3 DEF CodeScrollInBounds, TypeOK
<1>2. CASE \E dir \in Pc : FindCode(dir)
  <2> PICK dir \in Pc : FindCode(dir)
    BY <1>2
  <2>1. CASE dir < Count
    BY <2>1 DEF FindCode, CodeScrollInBounds
  <2>2. CASE ~(dir < Count)
    <3>1. scr_c' = scr_c
      BY <2>2 DEF FindCode
    <3>2. dir >= Count
      BY <2>2
    <3>3. astray' = (dir >= Count /\ astray)
      BY DEF FindCode
    <3>4. astray => astray'
      BY <3>2, <3>3, Zenon
    <3> QED
      BY <3>1, <3>4 DEF CodeScrollInBounds
  <2> QED
    BY <2>1, <2>2
<1>3. ASSUME NEW a \in Pc, Searches(a) PROVE CodeScrollInBounds'
  BY <1>3 DEF Searches, FoundBehind, FoundOrNot, LineAbove, CodeScrollInBounds, TypeOK
<1>4. CASE UNCHANGED <<scr_c, astray>>
  BY <1>4 DEF CodeScrollInBounds
<1>5. CASE Locate
  BY <1>3, <1>4, <1>5 DEF Locate, ShowEip, Killed, scroll, TypeOK
<1>6. CASE \E dir \in Pc : FindCodeRaw(dir)
  BY <1>3, <1>4, <1>6 DEF FindCodeRaw, ShowFound, KilledInFind, window
<1>7. Down \/ Up \/ (\E dir \in Pc : FindCode(dir))
      \/ (\E dir \in Pc : FindCodeRaw(dir)) \/ Locate \/ UNCHANGED <<scr_c, astray>>
    BY DEF Next, User, Machine, Host, Load, LoadFails, NothingListed, vars, window,
      scroll, Answered, Ask, BeginInt, DeleteBreakpoint, DisasmFails, Dispatch, Dump,
      EndExit, EndInt, ExecPlain, FindStack, Focus, GetKey, Left, Nothing, Quit, Right,
      RunOver, SetBreakpoint, Start, WrongFormat
<1> QED
  BY <1>1, <1>2, <1>4, <1>5, <1>6, <1>7

---------------------------------------------------------------------------

\* The interactive loop keeps the types of its variables.
THEOREM DebuggerTypeCorrect == Spec => []TypeOK
<1>1. Init => TypeOK
  BY InitType
<1>2. TypeOK /\ [Next]_vars => TypeOK'
  BY StepType
<1> QED
  BY <1>1, <1>2, PTL DEF Spec

\* In every order of keys, prompts and system calls the terminal has the mode
\* its reader needs, and after every exit of the loop the one it was found in.
THEOREM TerminalRestored == Spec => []TerminalModes
<1>1. Init => TerminalInv
  BY DEF Init, TerminalInv, TerminalModes, RawMode, oldt
<1>2. TypeOK /\ TerminalInv /\ [Next]_vars => TerminalInv'
  BY StepTerminal
<1>3. TerminalInv => TerminalModes
  BY DEF TerminalInv
<1> QED
  BY <1>1, <1>2, <1>3, DebuggerTypeCorrect, PTL DEF Spec

\* contains() never compares eip with the uninitialised part of brkpts: a
\* scanned entry is the user's, a zero, or what an answer to b without a
\* number left in a slot that was filled.
THEOREM NoUninitialisedBreakpoint == Spec => []ScannedEntriesAreSet
<1>1. Init => ScannedEntriesAreSet
  BY DEF Init, ScannedEntriesAreSet
<1>2. TypeOK /\ ScannedEntriesAreSet /\ [Next]_vars => ScannedEntriesAreSet'
  BY StepScanned
<1> QED
  BY <1>1, <1>2, DebuggerTypeCorrect, PTL DEF Spec

\* With fewer than MAX_BRK breakpoints, and as long as every answer to d was
\* the number of a slot, c never runs through a breakpoint: LiveInv says that
\* each is in the part of the table contains() scans.  Answers to b without a
\* number are among the steps.
THEOREM BreakpointsHonoured == Spec => ContinueHonoursBreakpoints
<1>1. Init => LiveInv
  BY ConstantFacts DEF Init, LiveInv, NoBreak
<1>2. TypeOK /\ LiveInv /\ [Next]_vars => LiveInv'
  BY StepLive
<1>3. Init => SyscallInv
  BY DEF Init, SyscallInv
<1>4. SyscallInv /\ [Next]_vars => SyscallInv'
  BY StepSyscall
<1>5. TypeOK /\ LiveInv /\ SyscallInv /\ [Next]_vars =>
        [ch = "c" /\ ExecutesGuest /\ ~wrapped /\ ~misnumbered => ~AtBreakpoint]_vars
  <2> SUFFICES ASSUME TypeOK, LiveInv, SyscallInv, [Next]_vars,
                      ch = "c", ExecutesGuest, ~wrapped, ~misnumbered,
                      NEW k \in Slots, live[k] = eip
               PROVE  FALSE
    BY DEF AtBreakpoint
  <2>1. ~contains(eip)
    BY ContinueSteps
  <2>2. live[k] \in Pc
    BY DEF TypeOK
  <2>3. k < brk_ctr /\ brkpts[k] = eip
    BY <2>2 DEF LiveInv
  <2>4. k \in 0..(brk_ctr - 1)
    BY <2>3, ConstantFacts DEF TypeOK, Slots
  <2> QED
    BY <2>1, <2>3, <2>4 DEF contains
<1> QED
    BY <1>1, <1>2, <1>3, <1>4, <1>5, DebuggerTypeCorrect, PTL DEF Spec,
      ContinueHonoursBreakpoints

\* The word at the top of the stack window is on the guest's stack.
THEOREM StackWindowOnStack == Spec => []StackScrollInBounds
<1>1. Init => StackInv
  BY DEF Init, StackInv
<1>2. TypeOK /\ StackInv /\ [Next]_vars => StackInv'
  BY StepStack
<1>3. StackInv => StackScrollInBounds
  BY DEF StackInv, StackScrollInBounds
<1> QED
  BY <1>1, <1>2, <1>3, DebuggerTypeCorrect, PTL DEF Spec

\* Whatever sections the file has, the code window is on a line of its
\* listing unless a search read behind the entries of a section and took what
\* it found there for the address.
THEOREM CodeWindowInListing == Spec => []CodeScrollInBounds
<1>1. Init => CodeScrollInBounds
  BY SearchFacts DEF Init, CodeScrollInBounds
<1>2. TypeOK /\ CodeScrollInBounds /\ [Next]_vars => CodeScrollInBounds'
  BY StepCode
<1> QED
  BY <1>1, <1>2, DebuggerTypeCorrect, PTL DEF Spec

=============================================================================
