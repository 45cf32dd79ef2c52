----------------------------- MODULE MCProcess -----------------------------
(***************************************************************************)
(* 256 bytes of memory: an image below 64, structures at 72, the stack from*)
(* 240 down.                                                               *)
(***************************************************************************)
EXTENDS Process

Line(mode, args, env) == [mode |-> mode, args |-> args, env |-> env]

\* Strings of different lengths, an empty one, and none.
MCArgs == {<<<<1>>>>, <<<<1>>, <<2, 3>>>>, <<<<3, 2, 1>>, << >>, <<2>>>>}
MCEnvs == {<< >>, <<<<3>>, <<1, 1, 2>>>>}

MCCommandLines ==
  {Line("-ne", a, e) : a \in MCArgs, e \in MCEnvs}
    \cup {Line("-ie", <<<<1>>, <<2, 3>>>>, <<<<3>>>>), Line("-nr", <<<<1>>>>, << >>),
          Line("-ir", <<<<1>>>>, << >>), Line("-h", << >>, << >>), Line("-nr", << >>, << >>),
          Line("-x", <<<<1>>>>, << >>)}

Image == <<1, 2, 3, 1, 2, 3, 3, 2, 1, 1, 2, 2, 3, 3, 1, 2, 3, 1, 1, 1>>

Segment(type, vaddr, offset, filesz, memsz) ==
  [type |-> type, vaddr |-> vaddr, offset |-> offset, filesz |-> filesz, memsz |-> memsz]
Section(type, exec, addr, size, syms) ==
  [type |-> type, exec |-> exec, addr |-> addr, size |-> size, syms |-> syms]
Symbol(name, value, type) == [name |-> name, value |-> value, type |-> type]

\* Out of order, twice at one address, and outside of the segments.
Symbols == <<Symbol("d", 40, "FUNC"), Symbol("b", 18, "FUNC"), Symbol("x", 60, "NOTYPE"),
             Symbol("c", 33, "NOTYPE"), Symbol("a", 18, "NOTYPE"), Symbol("o", 20, "OBJECT")>>

TwoSegments ==
  [kind |-> "ELF32", bytes |-> Image, entry |-> 18, phoff |-> 4, phentsize |-> 32,
   phdrs |-> <<Segment("LOAD", 16, 0, 8, 8), Segment("NOTE", 0, 0, 4, 4),
               Segment("LOAD", 32, 8, 6, 12)>>,
   shdrs |-> <<Section("PROGBITS", TRUE, 18, 4, << >>), Section("PROGBITS", FALSE, 24, 4, << >>),
               Section("SYMTAB", FALSE, 0, 0, Symbols), Section("PROGBITS", TRUE, 32, 6, << >>)>>]

OneSegment ==
  [kind |-> "ELF32", bytes |-> Image, entry |-> 17, phoff |-> 4, phentsize |-> 32,
   phdrs |-> <<Segment("NOTE", 0, 0, 4, 4), Segment("LOAD", 16, 4, 5, 9)>>,
   shdrs |-> <<Section("SYMTAB", FALSE, 0, 0, SubSeq(Symbols, 3, 3))>>]

NotElf == [kind |-> "other", bytes |-> SubSeq(Image, 1, 6)]

MCFiles == {TwoSegments, OneSegment, NotElf}

Aux(type, val) == [type |-> type, val |-> val]
MCAuxvs == {<< >>,
            <<Aux(6, 64), Aux(3, 1000), Aux(33, 5), Aux(5, 9), Aux(9, 1000), Aux(15, 1000),
              Aux(25, 1000), Aux(11, 300), Aux(4, 56), Aux(7, 1000)>>}

MCPlatform  == <<3, 1, 2>>
MCGarbage   == {0, 37}
MCRegisters == {<<0, 0, 0, 0, 0, 0>>, <<2, 5, 3, 7, 9, 11>>, <<1, 2, 4, 6, 8, 10>>}
MCIovecs    == {<< >>, <<<<16, 3>>>>, <<<<16, 2>>, <<33, 0>>, <<35, 4>>>>}
MCAnswers   == {<< >>, <<1>>, <<0, 6>>}
\* Any free entry; the code segment, one past the table, and a reserved one by
\* a number of more than a byte.
MCEntries   == {NoEntry, 1, 6, 11}
MCHandlers  == {0, 1, 17}
=============================================================================
