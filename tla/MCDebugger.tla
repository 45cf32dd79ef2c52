----------------------------- MODULE MCDebugger -----------------------------
(***************************************************************************)
(* A guest of four instructions: a branch or loop at 0, a system call at   *)
(* 1, the exit system call at 2 and, outside the listing of the code       *)
(* window, bytes that cannot be decoded at 3.  The ELF file has the first  *)
(* two in one section of five bytes and the third in one of two, so that a *)
(* search leaves the entries of a section for an address of the next one;  *)
(* the raw file is one section.  Its guest is the one without the last     *)
(* instruction, and the exit is outside its listing.                       *)
(***************************************************************************)
EXTENDS Debugger, TLC

MCPc   == 0..3
MCSucc == 0 :> {0, 1, 2, 3} @@ 1 :> {0, 2} @@ 2 :> {2} @@ 3 :> {3}
MCKind == 0 :> "plain" @@ 1 :> "int" @@ 2 :> "exit" @@ 3 :> "bad"

ElfCounts == <<2, 3>>
ElfSiz    == <<5, 2>>

RawPc     == 0..2
RawSucc   == 0 :> {0, 1, 2} @@ 1 :> {0, 2} @@ 2 :> {2}
RawKind   == 0 :> "plain" @@ 1 :> "int" @@ 2 :> "exit"
RawCounts == <<2>>
RawSiz    == <<3>>

\* The keys of the runs about breakpoints and about the windows.
BreakpointKeys == {"s", "c", "b", "d", "f", "enter"}
WindowKeys     == {"s", "n", "f", "x", "t", "up", "down", "left", "right", "q", "none", "enter"}
=============================================================================
