--------------------------- MODULE FirstAssembler ---------------------------
(***************************************************************************)
(* chmarti/Assembler/assem.cpp: from lines of text to words, in two passes.*)
(* A line is the sequence of its words (what stands between blanks, without*)
(* the comma).  The first pass builds the labels, the second writes; both  *)
(* are assemble(), told apart by buildLabels.  The words of the file are   *)
(* integers with the fields of an instruction: opcode 7 bits, indirect 1,  *)
(* reg1 4, reg2 4, sign 1, constant 15.                                    *)
(***************************************************************************)
EXTENDS Integers, Sequences, SequencesExt

CONSTANTS opcodes,      \* the name of every operation -> its number
          RegName,      \* what names a register -> its number, 0 .. 19
          Numeral,      \* what is a number -> its value
          LabelName     \* what ends in ":" -> the label before it

SingleOps == {"JMPG", "JMPL", "JMPE", "JMPGE", "JMPLE", "JMP", "PRINT", "NEWL", "CALL", "PUSH"}
isOpSingle(op) == \E s \in SingleOps \cap DOMAIN opcodes : opcodes[s] = op

REG_SP == 14
REG_PC == 15
getConstant(w, checkLarge) ==
  IF w \notin DOMAIN Numeral \/ (checkLarge /\ Numeral[w] > 32767) THEN -1 ELSE Numeral[w]

LabelInfo(position, isConst) == [position |-> position, isConst |-> isConst]
\* map::insert: the first definition of a label stays
Inserted(labels, l, info) == labels @@ (l :> info)

-----------------------------------------------------------------------------
(* getBinary(): the words of a line one after the other, each taken for    *)
(* the first thing it can be and that was not seen yet.                    *)
Seen == {"Opcode", "FirstReg", "SecondReg", "Const", "Label", "Sign"}
Fields(labels) ==
  [opcode |-> 0, indirect |-> 0, reg1 |-> 0, reg2 |-> 0, constant |-> 0, negative |-> FALSE,
   seen |-> {}, noOffset |-> FALSE, labels |-> labels, over |-> "no"]
Take(f, what) == [f EXCEPT !.seen = @ \cup {what}]
\* (slip: a label is its place in the file, not its distance)
LabelledAbsolute(f, info, command) ==
  [Take(f, "Label") EXCEPT !.constant = info.position]
Labelled(f, info, command) ==
  IF info.isConst \/ f.noOffset THEN [Take(f, "Label") EXCEPT !.constant = info.position]
  ELSE [Take(Take(f, "Label"), "Sign") EXCEPT !.constant = info.position - command - 1, !.reg2 = REG_PC]
WithConstant(f, v) ==
  IF "Label" \notin f.seen THEN [Take(f, "Const") EXCEPT !.constant = v]
  ELSE IF "Sign" \notin f.seen THEN [f EXCEPT !.over = "error"]
  ELSE [Take(f, "Const") EXCEPT !.constant = IF f.negative THEN @ - v ELSE @ + v]

First(f, what) == what \notin f.seen
WithOpcode(f, op) == [f EXCEPT !.opcode = op, !.seen = @ \cup IF isOpSingle(op) THEN {"Opcode", "FirstReg"} ELSE {"Opcode"}]
Part(f, w, command, buildLabels) ==
  CASE f.over # "no" -> f
    [] w \in DOMAIN LabelName ->
         IF buildLabels THEN [f EXCEPT !.labels = Inserted(@, LabelName[w], LabelInfo(command, FALSE))] ELSE f
    [] First(f, "Opcode") /\ w \in DOMAIN opcodes -> WithOpcode(f, opcodes[w])
    [] First(f, "FirstReg") /\ w \in DOMAIN RegName -> [Take(f, "FirstReg") EXCEPT !.reg1 = RegName[w]]
    [] First(f, "SecondReg") /\ w \in DOMAIN RegName -> [Take(f, "SecondReg") EXCEPT !.reg2 = RegName[w]]
    [] First(f, "Const") /\ getConstant(w, TRUE) # -1 -> WithConstant(f, Numeral[w])
    [] First(f, "Label") /\ w \in DOMAIN f.labels -> Labelled(f, f.labels[w], command)
    [] First(f, "Sign") /\ w = "+" -> Take(f, "Sign")
    [] First(f, "Sign") /\ w = "-" -> [Take(f, "Sign") EXCEPT !.negative = TRUE]
    [] w = "#" -> [f EXCEPT !.noOffset = TRUE]
    [] w = "*" -> [f EXCEPT !.indirect = 1]
    [] w = ";" -> [f EXCEPT !.over = "comment"]
    [] OTHER -> [f EXCEPT !.over = IF buildLabels THEN "placeholder" ELSE "error"]

Bit(b) == IF b THEN 1 ELSE 0
\* registers 16 to 19 do not fit into 4 bits: "|" puts their fifth into the
\* field above
Or(word, bit) == IF (word \div bit) % 2 = 1 THEN word ELSE word + bit
Field(word, v, shift) ==
  IF v < 16 THEN word + v * shift ELSE Or(word + (v - 16) * shift, 16 * shift)
Constant(f) == IF f.constant < 0 THEN Bit(~f.negative) * 2^15 - f.constant ELSE Bit(f.negative) * 2^15 + f.constant
Encode(f) ==
  Field(Field(f.opcode * 2^25 + f.indirect * 2^24, f.reg1, 2^20), f.reg2, 2^16) + Constant(f)

Binary(n, labels) == [ok |-> TRUE, word |-> n, labels |-> labels]
BadBinary(labels) == [ok |-> FALSE, word |-> 0, labels |-> labels]
BinaryOf(f, buildLabels) ==
  CASE f.over = "placeholder" -> Binary(1, f.labels)
    [] f.over = "error" -> BadBinary(f.labels)
    [] f.constant # 0 /\ f.reg2 # 0 /\ "Sign" \notin f.seen /\ ~buildLabels -> BadBinary(f.labels)
    [] OTHER -> Binary(Encode(f), f.labels)
getBinary(line, command, labels, buildLabels) ==
  BinaryOf(FoldLeft(LAMBDA f, w : Part(f, w, command, buildLabels), Fields(labels), line), buildLabels)

-----------------------------------------------------------------------------
(* handleDirective().                                                      *)
directives == {".data", ".space", ".loc", ".define", ".forget", ".macro"}
Operands(labels) == [seen |-> {}, first |-> 0, second |-> 0, label |-> "", labels |-> labels, over |-> "no"]
DirectivePart(d, w, offset, buildLabels) ==
  CASE d.over # "no" -> d
    [] w = ";" -> [d EXCEPT !.over = "comment"]
    [] w \in DOMAIN LabelName ->
         IF buildLabels THEN [d EXCEPT !.labels = Inserted(@, LabelName[w], LabelInfo(offset, FALSE))] ELSE d
    [] First(d, "Directive") /\ w \in directives -> Take(d, "Directive")
    [] First(d, "First") /\ getConstant(w, FALSE) # -1 -> [Take(d, "First") EXCEPT !.first = Numeral[w]]
    [] First(d, "Second") /\ getConstant(w, FALSE) # -1 -> [Take(d, "Second") EXCEPT !.second = Numeral[w]]
    [] ~buildLabels /\ w \in DOMAIN d.labels /\ First(d, "First") -> [d EXCEPT !.first = d.labels[w].position]
    [] ~buildLabels /\ w \in DOMAIN d.labels /\ First(d, "Second") -> [d EXCEPT !.second = d.labels[w].position]
    [] buildLabels /\ First(d, "First") -> [Take(d, "First") EXCEPT !.label = w]
    [] OTHER -> [d EXCEPT !.over = "error"]

\* what a pass has: the labels, the words counted and written, and whether it
\* goes on
Go(p, n, words) == [p EXCEPT !.linesWritten = @ + n, !.file = @ \o words]
Fail(p) == [p EXCEPT !.ok = FALSE]
Zeros(n) == [k \in 1 .. n |-> 0]
Directed(p, d, directive, buildLabels) ==
  CASE d.over = "error" -> Fail(p)
    [] directive = ".data" -> Go(p, 1, IF buildLabels THEN << >> ELSE <<d.first>>)
    [] directive = ".space" -> Go(p, d.first, IF buildLabels THEN << >> ELSE Zeros(d.first))
    [] directive = ".define" ->
         IF buildLabels THEN [p EXCEPT !.labels = Inserted(@, d.label, LabelInfo(d.second, TRUE))] ELSE p
    \* the place in the file is moved by so many bytes, the count set to it in words
    [] directive = ".loc" /\ p.linesWritten = 0 ->
         [p EXCEPT !.linesWritten = d.first, !.file = Zeros(d.first \div 4)]
    [] OTHER -> Fail(p)
WithLabels(p, labels) == [p EXCEPT !.labels = labels]
handleDirective(p, directive, d, buildLabels) == Directed(WithLabels(p, d.labels), d, directive, buildLabels)

\* A "." anywhere in a line makes it a directive.
IsDirective(line) == \E k \in DOMAIN line : line[k] \in directives
DirectiveOf(line) == line[CHOOSE k \in DOMAIN line : line[k] \in directives
                                                   /\ \A j \in 1 .. k - 1 : line[j] \notin directives]
Encoded(p, b, buildLabels) == CASE ~b.ok -> Fail(p)
                                [] b.word = 0 -> p
                                [] OTHER -> Go(p, 1, IF buildLabels THEN << >> ELSE <<b.word>>)
WithBinary(p, b, buildLabels) == Encoded(WithLabels(p, b.labels), b, buildLabels)
Line(p, line, buildLabels) ==
  CASE IsDirective(line) ->
         handleDirective(p, DirectiveOf(line),
                         FoldLeft(LAMBDA d, w : DirectivePart(d, w, p.linesWritten, buildLabels),
                                  Operands(p.labels), line), buildLabels)
    [] OTHER -> WithBinary(p, getBinary(line, p.linesWritten, p.labels, buildLabels), buildLabels)
\* the lines one after the other, the first half of them before the second
RECURSIVE Lines(_, _, _)
Lines(p, lines, buildLabels) ==
  LET half == Len(lines) \div 2
  IN CASE ~p.ok \/ lines = << >> -> p
       [] Len(lines) = 1 -> Line(p, lines[1], buildLabels)
       [] OTHER -> Lines(Lines(p, SubSeq(lines, 1, half), buildLabels), SubSeq(lines, half + 1, Len(lines)), buildLabels)
assemble(lines, labels, buildLabels) ==
  Lines([labels |-> labels, linesWritten |-> 0, file |-> << >>, ok |-> TRUE], lines, buildLabels)

\* main(): what the first pass returns is not looked at, and after an error
\* in the second one the file is left with what was written
NoLabels == [l \in {} |-> LabelInfo(0, FALSE)]
FirstPass(lines) == assemble(lines, NoLabels, TRUE)
Assembled(lines) == assemble(lines, FirstPass(lines).labels, FALSE)
=============================================================================
