----------------------------- MODULE Translator -----------------------------
(***************************************************************************)
(* EEN521/compiler/translator.cpp: from the nodes of Parser to assembly.   *)
(* c is everything the functions share: the code written so far, the last  *)
(* label used, the words of local variables, the symbol table, the stack   *)
(* of labels to break to, and what is written at the end of the file.      *)
(*                                                                         *)
(* An instruction has an operation, a register, and an operand: a base (a  *)
(* constant, a register, FP, or a place in the program) with a number,     *)
(* taken as it is or, when ind, as the address of the value.               *)
(***************************************************************************)
EXTENDS Parser, SequencesExt

FP == 13
SP == 14
Instr(op, r, base, name, n, ind) ==
  [op |-> op, reg |-> r, base |-> base, name |-> name, n |-> n, ind |-> ind]
Const(op, r, n) == Instr(op, r, "const", "", n, FALSE)
Regs(op, r, q)  == Instr(op, r, "reg", "", q, FALSE)
At(op, r, q)    == Instr(op, r, "reg", "", q, TRUE)
Frame(op, r, n, ind) == Instr(op, r, "frame", "", n, ind)
Place(op, r, kind, name, ind) == Instr(op, r, kind, name, 0, ind)
ToLabel(op, r, l) == Instr(op, r, "L", "", l, FALSE)
LabelHere(l) == ToLabel("label", 0, l)
Jcond(cond, l) == Instr("JCOND", 0, "L", cond, l, FALSE)
Bare(op) == Const(op, 0, 0)

Empty == [code |-> << >>, labels |-> 0, totalsize |-> 0, ST |-> << >>, breaks |-> << >>,
          strings |-> << >>, exports |-> << >>, mallocs |-> << >>, said |-> FALSE, exit |-> FALSE]
Emit(c, is) == [c EXCEPT !.code = @ \o is]
Say(c)  == [c EXCEPT !.said = TRUE]        \* a message, and it goes on
Exit(c) == [c EXCEPT !.exit = TRUE]        \* a message and exit(), or a NULL followed

-----------------------------------------------------------------------------
(* The symbol table: for a name the declarations in force, innermost       *)
(* first.  lookup() declares a name it does not find as unknown; a name    *)
(* whose last declaration was removed gives a NULL.                        *)
Info(kind, n) == [kind |-> kind, info |-> n]
Unknown == Info("u", 0)
Null == Info("null", 0)
Declarations(c, s) == IF s \in DOMAIN c.ST THEN c.ST[s] ELSE << >>
lookup(c, s) == IF s \notin DOMAIN c.ST THEN Unknown
                ELSE IF c.ST[s] = << >> THEN Null ELSE c.ST[s][1]
WithEntry(c, s, ds) == [c EXCEPT !.ST = [x \in DOMAIN @ \cup {s} |-> IF x = s THEN ds ELSE @[x]]]
LookedUp(c, s) == IF s \in DOMAIN c.ST THEN c ELSE WithEntry(c, s, <<Unknown>>)
declare(c, s, kind, n) == WithEntry(c, s, <<Info(kind, n)>> \o Declarations(c, s))
remove_declaration(c, s) ==
  IF s \notin DOMAIN c.ST THEN c
  ELSE IF c.ST[s] = << >> THEN Exit(c) ELSE WithEntry(c, s, Tail(c.ST[s]))

\* the size that ":" gives: a number, 1 without one, or a named constant
ItemSize(c, item) == IF item.value > 0 THEN item.value
                     ELSE IF item.value = 0 THEN 1 ELSE lookup(c, item.ref_var).info
SizeKnown(c, item) == item.value >= 0 \/ lookup(c, item.ref_var).kind = "c"

-----------------------------------------------------------------------------
Relation == {"<", ">", "<=", ">=", "=", "!="}
Logical == {"and", "or", "not"}
IfFalse == [x \in Relation |-> CASE x = ">" -> "LEQ" [] x = "<" -> "GEQ" [] x = ">=" -> "LSS"
                                 [] x = "<=" -> "GTR" [] x = "=" -> "NEQ" [] x = "!=" -> "EQL"]
IfTrue  == [x \in Relation |-> CASE x = ">" -> "GTR" [] x = "<" -> "LSS" [] x = ">=" -> "GEQ"
                                 [] x = "<=" -> "LEQ" [] x = "=" -> "EQL" [] x = "!=" -> "NEQ"]
Arithmetic == [x \in {"+", "-", "*", "/", "%"} |->
                 CASE x = "+" -> "ADD" [] x = "-" -> "SUB" [] x = "*" -> "MUL"
                   [] x = "/" -> "DIV" [] x = "%" -> "MOD"]

NewLabel(c) == [c EXCEPT !.labels = @ + 1]

RECURSIVE translateexpression(_, _, _, _), translatejumpiffalse(_, _, _, _),
          translatejumpiftrue(_, _, _, _), PushArguments(_, _, _), translatestatement(_, _),
          translatesequence(_, _, _)

Expr(n, reg, c) == translateexpression(n, reg, FALSE, c)
\* both operands, each into a register of its own
Operands(n, reg, c) == Expr(n.part[2], reg + 1, Expr(n.part[1], reg, c))
Compared(n, reg, c) == Emit(Operands(n, reg, c), <<Regs("COMP", reg, reg + 1)>>)

\* Every operator evaluates and compares its operands first, and "and" and
\* "or" evaluate them once more for their own jumps.
ComparedFirst(n, reg, c) == IF n.tag = "binop" THEN Compared(n, reg, c) ELSE c
jumpiffalse(n, where, reg, c) ==
  LET lab1 == c.labels + 1
  IN CASE n.tag = "binop" /\ n.detail \in Relation -> Emit(c, <<Jcond(IfFalse[n.detail], where)>>)
       [] n.tag = "binop" /\ n.detail = "and" ->
            translatejumpiffalse(n.part[2], where, reg, translatejumpiffalse(n.part[1], where, reg, c))
       [] n.tag = "binop" /\ n.detail = "or" ->
            Emit(translatejumpiffalse(n.part[2], where, reg,
                                      translatejumpiftrue(n.part[1], lab1, reg, NewLabel(c))),
                 <<LabelHere(lab1)>>)
       [] n.tag = "binop" /\ n.detail = "not" -> translatejumpiftrue(n.part[1], where, reg, c)
       [] OTHER -> Emit(Expr(n, reg, c), <<ToLabel("JZER", reg, where)>>)
translatejumpiffalse(n, where, reg, c) == jumpiffalse(n, where, reg, ComparedFirst(n, reg, c))

jumpiftrue(n, where, reg, c) ==
  LET lab1 == c.labels + 1
  IN CASE n.tag = "binop" /\ n.detail \in Relation -> Emit(c, <<Jcond(IfTrue[n.detail], where)>>)
       [] n.tag = "binop" /\ n.detail = "or" ->
            translatejumpiftrue(n.part[2], where, reg, translatejumpiftrue(n.part[1], where, reg, c))
       [] n.tag = "binop" /\ n.detail = "and" ->
            Emit(translatejumpiftrue(n.part[2], where, reg,
                                     translatejumpiffalse(n.part[1], lab1, reg, NewLabel(c))),
                 <<LabelHere(lab1)>>)
       [] n.tag = "binop" /\ n.detail = "not" -> translatejumpiffalse(n.part[1], where, reg, c)
       [] OTHER -> Emit(Expr(n, reg, c), <<ToLabel("JNZ", reg, where)>>)
translatejumpiftrue(n, where, reg, c) == jumpiftrue(n, where, reg, ComparedFirst(n, reg, c))

-----------------------------------------------------------------------------
(* Expressions.                                                            *)
LoadVariable(s, reg, must_be_var, c) ==
  LET v == lookup(c, s)
      d == LookedUp(c, s)
  IN CASE v.kind = "null" -> Exit(d)
       [] v.kind = "u" -> Say(d)
       [] v.kind = "l" -> Emit(d, <<Frame("LOAD", reg, v.info, TRUE)>>)
       [] v.kind = "L" -> Emit(d, <<Frame("LOAD", reg, v.info, FALSE)>>)
       [] v.kind = "g" -> Emit(d, <<Place("LOAD", reg, "g", s, TRUE)>>)
       [] v.kind = "G" -> Emit(d, <<Place("LOAD", reg, "g", s, FALSE)>>)
       [] v.kind = "c" /\ ~must_be_var -> Emit(d, <<Const("LOAD", reg, v.info)>>)
       [] v.kind = "f" -> Emit(d, <<Place("LOAD", reg, "f_]", s, FALSE)>>)
       [] OTHER -> d

GetPointer(s, reg, c) ==
  LET v == lookup(c, s)
      d == LookedUp(c, s)
  IN CASE v.kind = "null" -> Exit(d)
       [] v.kind = "u" -> Say(d)
       [] v.kind = "l" -> Emit(d, <<Frame("LOAD", reg, v.info, FALSE)>>)
       [] v.kind = "g" -> Emit(d, <<Place("LOAD", reg, "g", s, FALSE)>>)
       [] OTHER -> d

\* a relation or logical operator as a value: its operands once for nothing,
\* then 0, or 1 unless it jumps
Truth(n, reg, c) ==
  LET lab1 == c.labels + 1
      no == Emit(NewLabel(c), <<Const("LOAD", reg, 0)>>)
  IN Emit(translatejumpiffalse(n, lab1, reg + 1, no), <<Const("LOAD", reg, 1), LabelHere(lab1)>>)

\* Arguments are pushed from the last, all through R1.
PushArguments(parts, i, c) ==
  IF i = 0 THEN c
  ELSE PushArguments(parts, i - 1, Emit(Expr(parts[i], 1, c), <<Regs("PUSH", 0, 1)>>))
\* The registers in use are pushed before the arguments and popped after the
\* call, with the arguments still on the stack.
Call(n, reg, c) ==
  LET saved == Emit(c, [k \in 1 .. reg |-> Regs("PUSH", 0, reg - k + 1)])
      called == Emit(PushArguments(n.part, n.value, saved), <<Place("CALL", 0, "f", n.detail, FALSE)>>)
  IN Emit(called, [k \in 1 .. reg |-> Regs("POP", 0, k)]
                  \o IF reg # 0 THEN <<Regs("STORE", 0, reg)>> ELSE << >>)

MallocStat(n, reg, c) ==
  LET size == IF n.value > 0 THEN Info("c", n.value) ELSE lookup(c, n.ref_var)
      \* neither a constant nor unknown: the label line has no size
      d == IF size.kind = "c" THEN LookedUp(c, n.ref_var) ELSE Say(LookedUp(c, n.ref_var))
  IN Emit([d EXCEPT !.mallocs = Append(@, IF size.kind = "c" THEN size.info ELSE 0)],
          <<Instr("LOAD", reg, "malloc", "", Len(c.mallocs), FALSE)>>)

Operate(n, reg, c) ==
  CASE n.detail \in DOMAIN Arithmetic -> Emit(c, <<Regs(Arithmetic[n.detail], reg, reg + 1)>>)
    [] n.detail \in Relation \cup Logical -> Truth(n, reg, c)
    [] OTHER -> Exit(c)
translateexpression(n, reg, must_be_var, c) ==
  CASE n.tag = "const_or_var" -> LoadVariable(n.detail, reg, must_be_var, c)
    [] n.tag = "number" -> Emit(c, <<Const("LOAD", reg, n.value)>>)     \* with LOADH if it is large
    [] n.tag = "neg" -> Emit(Expr(n.part[1], 1, c), <<Const("MUL", 1, -1)>>)
    [] n.tag = "stringindex" -> Emit(Operands(n, reg, c), <<Regs("LDCH", reg, reg + 1)>>)
    [] n.tag = "malloc_stat" -> MallocStat(n, reg, c)
    [] n.tag = "binop" ->
         Operate(n, reg, Expr(n.part[2], reg + 1, translateexpression(n.part[1], reg, must_be_var, c)))
    [] n.tag = "get_ptr" -> GetPointer(n.part[1].detail, reg, c)
    [] n.tag = "functioncall" -> Call(n, reg, c)
    [] n.tag = "follow_ptr" -> Emit(Expr(n.part[1], reg, c), <<At("LOAD", reg, reg)>>)
    [] n.tag = "string" -> Emit([c EXCEPT !.strings = Append(@, n.value)],
                                <<Instr("LOAD", reg, "string", "", n.value, FALSE)>>)
    [] n.tag = "inchar" -> Emit(c, <<Place("FAKEIT", 1, "const", "readchar", FALSE)>>)
    [] OTHER -> Exit(c)

-----------------------------------------------------------------------------
(* Statements.                                                             *)

\* mallocStat's address is stored without the brackets
StoreIn(s, v, ind, c) ==
  CASE v.kind = "null" -> Exit(c)
    [] v.kind \in {"u", "f", "L", "G"} -> Say(c)
    [] v.kind = "l" -> Emit(c, <<Frame("STORE", 1, v.info, ind)>>)
    [] v.kind = "g" -> Emit(c, <<Place("STORE", 1, "g", s, ind)>>)
    [] OTHER -> c
Stored(s, ind, c) == StoreIn(s, lookup(c, s), ind, LookedUp(c, s))
Assign(n, c) == Stored(n.part[1].detail, n.part[2].tag # "malloc_stat", Expr(n.part[2], 1, c))

StoreChar(tag, c) ==
  CASE tag = "string" -> Emit(c, <<Const("LOAD", 0, 0), Regs("LDCH", 0, 1), Regs("STCH", 3, 2)>>)
    [] tag \in {"const_or_var", "stringindex", "number"} -> Emit(c, <<Regs("LOAD", 0, 1), Regs("STCH", 3, 2)>>)
    [] OTHER -> Say(c)
AssignChar(n, c) ==
  StoreChar(n.part[3].tag, Expr(n.part[2], 2, Expr(n.part[3], 1, Expr(n.part[1], 3, c))))

\* a break jumps to the label on top and takes it off the stack
Break(c) == IF c.breaks = << >> THEN Exit(c)
            ELSE [Emit(c, <<ToLabel("JUMP", 0, c.breaks[1])>>) EXCEPT !.breaks = Tail(@)]

Entering(n, c) ==
  translatejumpiffalse(n.part[1], c.labels + 2, 1, Emit([c EXCEPT !.labels = @ + 2], <<LabelHere(c.labels + 1)>>))
Body(n, lab2, c) == translatestatement(n.part[2], [c EXCEPT !.breaks = <<lab2>> \o @])
Popped(lab2, c) == IF c.breaks # << >> /\ c.breaks[1] = lab2 THEN [c EXCEPT !.breaks = Tail(@)] ELSE c
\* (slip: the label behind the loop before the jump back)
WhileForEver(n, c) ==
  LET lab2 == c.labels + 2
  IN Emit(Popped(lab2, Body(n, lab2, Entering(n, c))), <<LabelHere(lab2), ToLabel("JUMP", 0, lab2 - 1)>>)
While(n, c) ==
  LET lab2 == c.labels + 2
  IN Emit(Popped(lab2, Body(n, lab2, Entering(n, c))), <<ToLabel("JUMP", 0, lab2 - 1), LabelHere(lab2)>>)

\* the jump over the else-part goes to the label after the if's own; the
\* else-part takes the next label that is free when it is translated
EndIf(n, lab1, c) ==
  IF n.detail = "else"
  THEN translatestatement(n.part[3], Emit(c, <<ToLabel("JUMP", 0, lab1 + 1), LabelHere(lab1)>>))
  ELSE Emit(c, <<LabelHere(lab1)>>)
If(n, c) ==
  LET lab1 == c.labels + 1
  IN EndIf(n, lab1, translatestatement(n.part[2], translatejumpiffalse(n.part[1], lab1, 1, NewLabel(c))))
\* (slip: the label is not counted)
ElseUncounted(n, c) == Emit(translatestatement(n.part[1], c), <<LabelHere(c.labels + 1)>>)
Else(n, c) == Emit(translatestatement(n.part[1], NewLabel(c)), <<LabelHere(c.labels + 1)>>)

\* (slip: the offset of the words before)
LocalItemAbove(c, item) ==
  LET size == ItemSize(c, item)
      kind == IF item.value = 0 THEN "l" ELSE "L"
      d == Emit([c EXCEPT !.totalsize = @ + size], <<Const("SUB", SP, size)>>)
  IN declare(d, item.detail, kind, -c.totalsize)
LocalItem(c, item) ==
  LET size == ItemSize(c, item)
      kind == IF item.value = 0 THEN "l" ELSE "L"
      d == Emit([c EXCEPT !.totalsize = @ + size], <<Const("SUB", SP, size)>>)
  IN IF SizeKnown(c, item) THEN declare(d, item.detail, kind, -d.totalsize) ELSE Exit(c)
Locals(n, c) == FoldLeft(LocalItem, c, n.part)

ConstItem(c, item) ==
  IF lookup(c, item.detail).kind = "u" THEN declare(LookedUp(c, item.detail), item.detail, "c", item.value)
  ELSE c
Constants(n, c) == FoldLeft(ConstItem, c, n.part)

\* (slip: FP is left as it is)
ReturnNoFP == <<Regs("LOAD", SP, FP), Const("ADD", SP, 1), Bare("RET")>>
Return == <<Regs("LOAD", SP, FP), Regs("POP", 0, FP), Bare("RET")>>

\* embedded assembly: the name in <> becomes its place in the frame, whatever
\* it is, or its global
Assembly(n, c) == Emit(c, <<Place("ASM", 0, "const", n.detail, FALSE)>>)

Fake(n, c, what) == Emit(Expr(n.part[1], 1, c), <<Place("FAKEIT", 1, "const", what, FALSE)>>)

translatesequence(parts, i, c) ==
  IF i > Len(parts) THEN c ELSE translatesequence(parts, i + 1, translatestatement(parts[i], c))

translatestatement(n, c) ==
  CASE n.tag = "sequence" -> translatesequence(n.part, 1, c)
    [] n.tag = "stringindex" -> AssignChar(n, c)
    [] n.tag = "assignment" -> Assign(n, c)
    [] n.tag = "assign_ptr" ->
         Emit(translateexpression(n.part[1], 2, TRUE, Expr(n.part[2], 1, c)), <<At("STORE", 1, 2)>>)
    [] n.tag = "break" -> Break(c)
    [] n.tag = "print" -> Fake(n, c, "printint")
    [] n.tag \in {"printchar", "printstr"} -> Fake(n, c, n.tag)
    [] n.tag = "const" -> Constants(n, c)
    [] n.tag = "while" -> While(n, c)
    [] n.tag = "if" -> If(n, c)
    [] n.tag = "else" -> Else(n, c)
    [] n.tag = "halt" -> Emit(c, <<Bare("HALT")>>)
    [] n.tag = "local" -> Locals(n, c)
    [] n.tag = "functioncall" -> Expr(n, 0, c)
    [] n.tag = "assembly" -> Assembly(n, c)
    [] n.tag = "return" ->
         Emit(IF n.detail = "void" THEN c
              ELSE Emit(Expr(n.part[1], 1, c), <<Regs("LOAD", 0, 1)>>), Return)
    [] OTHER -> Exit(c)

-----------------------------------------------------------------------------
(* Top level.                                                              *)
PlaceHere(kind, name) == Place("label", 0, kind, name, FALSE)

\* parameters are above the return address
RECURSIVE Parameters(_, _, _)
Parameters(n, i, c) ==
  IF i > n.value THEN c ELSE Parameters(n, i + 1, declare(c, n.part[i].detail, "l", i + 1))

\* what is declared is removed, but only the locals at the top of the block,
\* and for each of them a word, unless its size is a named constant
\* (slip: a word for every local)
RemoveLocalWord(c, item) == [remove_declaration(c, item.detail) EXCEPT !.totalsize = @ - 1]
RemoveLocal(c, item) ==
  LET d == remove_declaration(c, item.detail)
  IN [d EXCEPT !.totalsize = @ - IF item.value = -1 THEN lookup(d, item.ref_var).info ELSE 1]
RemoveLocals(c, s) == IF s.tag = "local" THEN FoldLeft(RemoveLocal, c, s.part) ELSE c
Forgotten(n, c) == FoldLeft(LAMBDA d, p : remove_declaration(d, p.detail), c, SubSeq(n.part, 1, n.value))
Left(body, c) == FoldLeft(RemoveLocals, c, body.part)
Entered(n, c) == Emit(c, <<PlaceHere("f", n.detail), Regs("PUSH", 0, FP), Regs("LOAD", FP, SP)>>)
Function(n, c) ==
  LET body == n.part[n.value + 1]
  IN Left(body, Forgotten(n, translatestatement(body, Parameters(n, 1, Entered(n, c)))))

\* main makes room for one word for each of its locals, and then each local
\* makes room for itself
Main(n, c) ==
  LET body == n.part[1]
      locals == FoldLeft(LAMBDA k, s : IF s.tag = "local" THEN k + Len(s.part) ELSE k, 0, body.part)
      room == IF locals > 0 THEN <<Const("SUB", SP, locals)>> ELSE << >>
      Copy(from, to) == <<Instr("LOAD", 1, "const", "", from, TRUE), Place("STORE", 1, "g", to, TRUE)>>
  IN translatestatement(body,
       Emit(c, <<PlaceHere("main", ""), Regs("PUSH", 0, FP), Regs("LOAD", FP, SP)>> \o room
               \o Copy(256, "MEMSTART") \o Copy(257, "MEMAVAIL")))

Global(n, c) ==
  IF \E k \in DOMAIN n.part : ~SizeKnown(c, n.part[k]) THEN Exit(c)
  ELSE Emit(c, [k \in DOMAIN n.part |->
              Instr("space", ItemSize(c, n.part[k]), "g", n.part[k].detail, 0, FALSE)])

Prefix(n) == IF n.detail = "function" THEN "f" ELSE "g"
Directive(n, c) ==
  [c EXCEPT !.exports = @ \o [k \in DOMAIN n.part |-> <<n.tag, Prefix(n), n.part[k].detail>>]]

translate_top_level(n, c) ==
  CASE n.tag \in {"import", "export"} -> Directive(n, c)
    [] n.tag = "functiondef" -> Function(n, c)
    [] n.tag = "main" -> Main(n, c)
    [] n.tag = "global" -> Global(n, c)
    [] n.tag = "const" -> Constants(n, c)
    [] n.tag = "assembly" -> Assembly(n, c)
    [] n.tag = "end" -> c
    [] OTHER -> Exit(c)

\* add_top_level_decl(), in the first pass.  What is imported is a function.
DeclareGlobal(c, item) ==
  IF ~SizeKnown(c, item) THEN Exit(c)
  ELSE declare(c, item.detail, IF item.value = 0 THEN "g" ELSE "G", ItemSize(c, item))
add_top_level_decl(n, c) ==
  CASE n.tag = "functiondef" -> declare(c, n.detail, "f", 0)
    [] n.tag = "import" -> FoldLeft(LAMBDA d, item : declare(d, item.detail, "f", 0), c, n.part)
    [] n.tag = "global" -> FoldLeft(DeclareGlobal, c, n.part)
    [] n.tag = "const" -> Constants(n, c)
    [] OTHER -> c

\* an exported name must be a function or a global of the program
Defined(prog) ==
  {prog[k].detail : k \in {j \in DOMAIN prog : prog[j].tag = "functiondef"}}
  \cup UNION {{prog[k].part[j].detail : j \in DOMAIN prog[k].part} :
              k \in {j \in DOMAIN prog : prog[j].tag = "global"}}
\* (slip: found is not reset after a name that is there)
ExportsFound(prog, n) ==
  n.tag = "export" => \A k \in DOMAIN n.part : \E j \in 1 .. k : n.part[j].detail \in Defined(prog)
ExportsDefined(prog, n) == n.tag = "export" => \A k \in DOMAIN n.part : n.part[k].detail \in Defined(prog)
=============================================================================
