------------------------------ MODULE MCExecutor ------------------------------
(***************************************************************************)
(* Sessions at the prompt of the first emulator, with programs that the    *)
(* first assembler made: from listings like those of Assembler/Tests, of   *)
(* which recursion.asm is without the "#" that lets it work at 0 only, and *)
(* from what My Compilier writes.                                          *)
(***************************************************************************)
EXTENDS Executor

CONSTANT Binaries       \* MCBinaries: what replaces a constant is evaluated once

OpcodeNumbers ==
  [HALT |-> 1, LOAD |-> 2, LOADL |-> 3, LOADH |-> 4, STORE |-> 5, ADD |-> 6, SUB |-> 7, MUL |-> 8, DIV |-> 9,
   SUBR |-> 10, DIVR |-> 11, CMP |-> 12, JMPG |-> 13, JMPL |-> 14, JMPE |-> 15, JMPGE |-> 16, JMPLE |-> 17,
   JMP |-> 18, PRINT |-> 19, NEWL |-> 20, CALL |-> 21, RET |-> 22, PUSH |-> 23, POP |-> 24, IOOP |-> 25,
   JMPNE |-> 26, MOD |-> 27, IRET |-> 28, AND |-> 29, OR |-> 30, FLAG |-> 31, MOV |-> 32]
Inverted(f) == [v \in {f[x] : x \in DOMAIN f} |-> CHOOSE x \in DOMAIN f : f[x] = v]
MCRegName == Inverted([r \in 0 .. 11 |-> "R" \o ToString(r)]) @@ ("FP" :> 13) @@ ("SP" :> 14) @@ ("PC" :> 15)
MCNumeral == Inverted([n \in 0 .. 60 \cup {1024} |-> ToString(n)])
Numbered == {p \o ToString(n) : p \in {"whiles", "whiled", "when", "unl", "funs", "ifd"}, n \in 0 .. 8}
            \cup {"if" \o ToString(n) \o "e" \o ToString(k) : n, k \in 0 .. 3}
Labels ==
  {"top", "bot", "main", "io", "dev", "block", "addr", "again", "rev", "de", "buf", "bad",
   "io_op", "io_dev", "io_block", "io_addr", "printc", "printf", "printi", "readi", "readf", "readc", "HP",
   "create", "destroy", "destroyif0e1", "destroyifd0", "destroyif1e1", "destroyifd1", "destroywhiles0",
   "destroywhiled0", "destroywhen0",
   "seed", "next", "show", "fill", "swap", "sort", "sorted", "biggest", "fact", "deep"}
  \cup Numbered
MCLabelName == Inverted([l \in Labels |-> l \o ":"])
MCOpcodes == OpcodeNumbers
Asm == INSTANCE FirstAssembler WITH opcodes <- MCOpcodes, RegName <- MCRegName, Numeral <- MCNumeral,
                                    LabelName <- MCLabelName
C == INSTANCE CCompiler WITH Number <- MCNumeral

\* newtest.asm, with PRINT
Factorial ==
  << <<"LOAD", "R1", "6">>, <<"LOAD", "R2", "1">>, <<"LOAD", "R3", "1", ";", "comment">>,
     <<"top:", "CMP", "R2", "R1">>, <<"JMPG", "bot">>, <<"MUL", "R3", "R2", ";">>, <<"ADD", "R2", "1">>,
     <<"JMP", "top">>, <<"bot:", "PRINT", "R3">>, <<"HALT">> >>

\* recursion.asm: reads a number, and prints its digits from the last on
Backwards ==
  << <<"JMP", "main">>, << >>, <<".define", "IN", "0">>, <<".define", "INT", "1">>,
     <<"io:", ".data", "0">>, <<"dev:", ".data", "IN">>, <<".data", "INT">>, <<"addr:", ".data", "0">>,
     <<"main:">>, <<"LOAD", "FP", "SP">>, <<"PUSH", "R1">>, <<"PUSH", "R1">>,
     <<"again:", "IOOP", "R1", "io">>, <<"CMP", "R1", "0">>, <<"JMPE", "again">>, <<"STORE", "R1", "FP", "-", "1">>,
     <<"LOAD", "R2", "1">>, <<"STORE", "R2", "io">>, <<"STORE", "R2", "dev">>,
     <<"PUSH", "*", "FP", "-", "1">>, <<"PUSH", "FP">>, <<"CALL", "rev">>, <<"POP", "FP">>, <<"POP", "R1">>,
     <<"POP", "R1">>, <<"HALT">>,
     <<"rev:", "LOAD", "FP", "SP", "+", "1">>, <<"PUSH", "R1">>, <<"PUSH", "R2">>,
     <<"LOAD", "R1", "*", "FP", "+", "2">>, <<"DIV", "R1", "10">>, <<"STORE", "R1", "FP", "-", "1">>,
     <<"LOAD", "R1", "*", "FP", "+", "2">>, <<"MOD", "R1", "10">>, <<"STORE", "R1", "FP", "-", "2">>,
     <<"LOAD", "R1", "*", "FP", "-", "2">>, <<"STORE", "R1", "addr">>, <<"IOOP", "R1", "io">>,
     <<"LOAD", "R1", "*", "FP", "-", "1">>, <<"CMP", "R1", "0">>, <<"JMPE", "de">>,
     <<"PUSH", "R1">>, <<"PUSH", "FP">>, <<"CALL", "rev">>, <<"POP", "FP">>, <<"POP", "R1">>,
     <<"de:", "POP", "R2">>, <<"POP", "R1">>, <<"RET">> >>

\* a disc of two blocks: what is written to block 1 is read back from there,
\* under the number the disc was mounted with
Control1(op, dev) == << <<"LOAD", "R1", op>>, <<"STORE", "R1", "io">> >>
                     \o IF dev = "" THEN << >> ELSE << <<"LOAD", "R1", dev>>, <<"STORE", "R1", "dev">> >>
Disc ==
  << <<"JMP", "main">>, <<"io:", ".data", "4">>, <<"dev:", ".data", "0">>, <<"block:", ".data", "2">>, <<"addr:", ".data", "0">>,
     <<"buf:", ".space", "2">>,
     <<"main:", "LOAD", "R2", "buf">>, <<"STORE", "R2", "addr">>, <<"IOOP", "R1", "io">> >>
  \o Control1("2", "")
  \o << <<"IOOP", "R3", "io">>, <<"STORE", "R3", "dev">>, <<"LOAD", "R1", "1">>,
        <<"STORE", "R1", "block">>, <<"LOAD", "R1", "7">>, <<"STORE", "R1", "R2", "+", "1">> >>
  \o Control1("1", "")
  \o << <<"IOOP", "R1", "io">>, <<"STORE", "R1", "R2", "+", "1">> >>
  \o Control1("0", "")
  \o << <<"IOOP", "R1", "io">>, <<"PRINT", "R1">>, <<"PRINT", "*", "R2", "+", "1">> >>
  \o Control1("3", "")
  \o << <<"IOOP", "R1", "io">>, <<"PRINT", "R1">>, <<"HALT">> >>

\* the operations the others have no use for
Zoo ==
  << <<"LOAD", "R1", "6">>, <<"SUBR", "R1", "7">>, <<"ADD", "R1", "-", "3">>, <<"FLAG", "R2", "7">>, <<"PRINT", "R2">>,
     <<"MUL", "R1", "-", "2">>, <<"CMP", "R1", "4">>, <<"JMPNE", "bad">>, <<"JMPL", "bad">>, <<"JMPG", "bad">>,
     <<"JMPLE", "top">>, <<"HALT">>, <<"top:", "JMPGE", "de">>, <<"HALT">>,
     <<"de:", "MOV", "R2", "R1">>, <<"DIVR", "R2", "10">>, <<"OR", "R3", "R2">>, <<"AND", "R3", "0">>,
     <<"FLAG", "R1", "2">>, <<"LOADH", "R2", "1">>, <<"LOADL", "R3", "5">>, <<"ADD", "R3", "R2">>,
     <<"ADD", "R3", "R1">>, <<"PRINT", "R3">>, <<"NEWL">>, <<"IRET">>, <<"HALT">>,
     <<"bad:", "PRINT", "R1">>, <<"HALT">> >>

\* these are killed: by a division, and by a store where there is no memory
Zero == << <<"IOOP", "R1", "io">>, <<"DIV", "R1", "0">>, <<"HALT">>,
           <<"io:", ".data", "7">>, << ".space", "3">> >>
Wild == << <<"LOAD", "R1", "10">>, <<"MUL", "R1", "R1">>, <<"MUL", "R1", "R1">>, <<"STORE", "R1", "R1">>, <<"HALT">> >>

-----------------------------------------------------------------------------
(* Programs in the language of My Compilier, each line the sequence of its *)
(* lexemes.                                                                *)
Fun(name, params, body) ==
  << <<"FUNCTION", name, ":">> \o params \o <<"GIVES", "INT", "IS", "{">> >> \o body \o << <<"}", "END", ";">> >>
VarInt(i) == <<"VAR", i, ":", "INT", ";">>
Array == <<"PTR", "INT", "loc", ",", "INT", "len">>
\* while i < len, body, i = i + 1
For(i, from, len, body) ==
  << VarInt(i), <<i, "=">> \o from \o <<";">>, <<"WHILE", i, "<", len, "DO", "{">> >> \o body
  \o << <<";", i, "=", i, "+", "1", "}", "END", ";">> >>

\* test2.cml with other numbers, and what is left of demo.cml
Sort ==
  << <<"VAR", "seed", ":", "GLOBAL", "INT", ";", "seed", "=", "7", ";">> >>
  \o Fun("next", << >>, << <<"seed", "=", "(", "seed", "*", "5", "+", "3", ")", "%", "16", ";", "RETURN", "seed">> >>)
  \o Fun("fill", Array, For("i", <<"0">>, "len", << <<"loc", "!", "i", "=", "next", "(", ")">> >>) \o << <<"RETURN", "loc">> >>)
  \o Fun("show", Array, For("i", <<"0">>, "len", << <<"PRINT", "loc", "!", "i">> >>) \o << <<"RETURN", "0">> >>)
  \o Fun("biggest", Array \o <<",", "INT", "start">>,
         << VarInt("pos"), VarInt("val"), <<"pos", "=", "start", ";", "val", "=", "loc", "!", "start", ";">>,
            <<"WHILE", "start", "<", "len", "DO", "{">>,
            <<"IF", "(", "loc", "!", "start", ">", "val", ")", "THEN", "{">>,
            <<"val", "=", "loc", "!", "start", ";", "pos", "=", "start">>,
            <<"}", "END", ";", "start", "=", "start", "+", "1", "}", "END", ";", "RETURN", "pos">> >>)
  \o Fun("swap", <<"PTR", "INT", "loc", ",", "INT", "one", ",", "INT", "two">>,
         << VarInt("temp"), <<"temp", "=", "loc", "!", "one", ";", "loc", "!", "one", "=", "loc", "!", "two", ";">>,
            <<"loc", "!", "two", "=", "temp", ";", "RETURN", "0", ";">> >>)
  \o Fun("sort", Array,
         << VarInt("temp") >>
         \o For("i", <<"0">>, "len", << <<"temp", "=", "biggest", "(", "loc", ",", "len", ",", "i", ")", ";">>,
                                 <<"temp", "=", "swap", "(", "loc", ",", "i", ",", "temp", ")">> >>)
         \o << <<"RETURN", "0">> >>)
  \o Fun("sorted", Array,
         For("i", <<"1">>, "len", << <<"IF", "loc", "!", "(", "i", "-", "1", ")", "<", "loc", "!", "i", "THEN", "RETURN", "0", "END">> >>)
         \o << <<"RETURN", "1">> >>)
  \o << VarInt("temp"), <<"VAR", "a", ":", "PTR", "INT", ";">>,
        <<"a", "=", "fill", "(", "CREATE", "INT", "4", ",", "4", ")", ";", "temp", "=", "sort", "(", "a", ",", "4", ")", ";">>,
        <<"temp", "=", "show", "(", "a", ",", "4", ")", ";", "PRINT", "sorted", "(", "a", ",", "4", ")", ";">>,
        <<"a", "!", "1", "=", "30", ";", "PRINT", "sorted", "(", "a", ",", "4", ")", ";", "DESTROY", "a">> >>

Sums ==
  << <<"PRINT", "1", "+", "2", "*", "3", ";", "PRINT", "10", "-", "4", "-", "3", ";", "PRINT", "20", "/", "2", "%", "3", ";">>,
     <<"PRINT", "(", "1", "+", "2", ")", "*", "3", ";", "PRINT", "2", "*", "3", ">", "5", "AND", "1", "=", "1">> >>

\* a function that calls itself, and one that returns from a scope in a scope
Calls ==
  Fun("fact", <<"INT", "n">>, << <<"IF", "n", "<", "2", "THEN", "RETURN", "1", "END", ";">>,
                                 <<"RETURN", "fact", "(", "n", "-", "1", ")", "*", "n">> >>)
  \o Fun("deep", <<"INT", "n">>,
         << VarInt("a"), <<"a", "=", "1", ";", "WHILE", "a", "<", "60", "DO", "{">>, VarInt("b"),
            <<"b", "=", "a", "+", "n", ";", "WHEN", "b", ">", "9", "THEN", "{">>, VarInt("a"),
            <<"a", "=", "b", "+", "n", ";", "RETURN", "a", "}", "END", ";", "a", "=", "b", "}", "END", ";", "RETURN", "0">> >>)
  \o << VarInt("k"), <<"k", "=", "5", ";", "PRINT", "fact", "(", "4", ")", ";", "PRINT", "deep", "(", "6", ")", ";", "PRINT", "k">> >>

Ways ==
  << VarInt("x"), <<"READ", "x", ";", "IF", "x", "<", "10", "THEN", "PRINT", "1", "ELSIF", "x", "=", "42", "THEN", "PRINT", "2">>,
     <<"ELSE", "PRINT", "3", "END", ";", "WHEN", "x", ">=", "10", "THEN", "PRINT", "x", "END", ";">>,
     <<"UNLESS", "x", ">=", "10", "THEN", "PRINT", "0", "END", ";">>,
     <<"VAR", "ch", ":", "CHAR", ";", "ch", "=", "x", ";", "PRINT", "ch">> >>

\* a block that was destroyed is found again, and what is too big for its
\* rest comes from behind
Blocks ==
  << <<"VAR", "a", ",", "b", ",", "c", ":", "PTR", "INT", ";", "VAR", "p", ":", "PTR", "PTR", "INT", ";">>,
     <<"a", "=", "CREATE", "INT", "6", ";", "b", "=", "CREATE", "INT", "2", ";", "b", "~", "=", "3", ";", "b", "!", "1", "=", "4", ";">>,
     <<"DESTROY", "a", ";", "c", "=", "CREATE", "INT", ";", "c", "~", "=", "5", ";", "c", "!", "1", "=", "6", ";">>,
     <<"p", "=", "CREATE", "PTR", "INT", "7", ";", "p", "~", "=", "b", ";", "PRINT", "p", "~", "~", ";">>,
     <<"PRINT", "c", "~", "+", "b", "!", "1", ";", "PRINT", "c", "!", "1", ";", "PRINT", "c", "=", "a">> >>

-----------------------------------------------------------------------------
Code(listing) == Asm!Assembled(listing).file
MCCompiledNames == {"sort", "sums", "calls", "ways", "blocks"}
Text(name) == FlattenSeq(CASE name = "sort" -> Sort [] name = "sums" -> Sums [] name = "calls" -> Calls
                           [] name = "ways" -> Ways [] name = "blocks" -> Blocks)
MCBinaries == [factorial |-> Code(Factorial), reverse |-> Code(Backwards), disc |-> Code(Disc), zoo |-> Code(Zoo),
               zero |-> Code(Zero), wild |-> Code(Wild)]
              @@ [name \in MCCompiledNames |-> Code(C!Compiled(Text(name)).code)]
\* with LET, TLC's coverage statistics do not descend into the compiler
MCFiles == LET files == MCBinaries IN files

\* what they are written for
MCSays(name, number) ==
  CASE name = "factorial" -> <<6 * 5 * 4 * 3 * 2>>
    [] name = "reverse" -> IF number < 10 THEN <<number>> ELSE <<number % 10, number \div 10>>
    [] name = "disc" -> <<1, 7, 0>>
    [] name = "zoo" -> <<0, 5>>
    [] name = "sort" -> <<11, 8, 6, 1, 1, 0>>
    [] name = "sums" -> <<7, 3, 1, 9, 1>>
    [] name = "calls" -> <<4 * 3 * 2, 7 + 6 + 6, 5>>
    [] name = "ways" -> IF number < 10 THEN <<1, 0, number>> ELSE <<2, number, number>>
    [] name = "blocks" -> <<3, 5 + 4, 6, 1>>
=============================================================================
